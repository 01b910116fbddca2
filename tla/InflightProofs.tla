--------------------------- MODULE InflightProofs ----------------------------
(***************************************************************************)
(* For any number of messages, packet identifiers and retry goroutines:    *)
(* Inflight is type correct, and the retry of a message in flight is never *)
(* lost to the unlocked use of the timer field.  The invariant relates the *)
(* field to what exists: while it is not nil there is a timer to fire, or  *)
(* a goroutine that has fired and not yet looked at what is in flight.     *)
(***************************************************************************)
EXTENDS Inflight, AwaitRel, TLAPS

LEMMA CapLemma ==
    ASSUME NEW n \in Nat
    PROVE  /\ Cap(n) \in 0..MaxSame
           /\ n > 0 => Cap(n) > 0
BY IntervalAssumption DEF Cap

LEMMA SetTimerLemma ==
    ASSUME TypeOK, NEW d \in 0..RetryInterval, SetTimer(d)
    PROVE  /\ pending' \in [0..RetryInterval -> 0..MaxSame]
           /\ retryTimer' \in BOOLEAN
           /\ Pending'
<1>1. pending[d] \in Nat
  BY IntervalAssumption DEF TypeOK
<1>2. Cap(pending[d] + 1) \in 0..MaxSame /\ Cap(pending[d] + 1) > 0
  BY <1>1, CapLemma
<1> QED
  BY <1>2 DEF SetTimer, TypeOK, Pending

(* The state of Inflight is well typed: no age, interval or lag leaves its *)
(* range, and the elements the goroutines hold are messages.               *)
THEOREM TypeCorrect == Spec => []TypeOK
<1>1. Init => TypeOK
  <2> SUFFICES ASSUME Init PROVE TypeOK
    OBVIOUS
  <2>1. age \in [Message -> 0..AgeCap]
    BY IntervalAssumption DEF Init, AgeCap
  <2>2. pending \in [0..RetryInterval -> 0..MaxSame]
    BY IntervalAssumption DEF Init
  <2>3. lag \in [Retry -> 0..MaxLag] /\ wait \in [Retry -> 0..RetryInterval]
    BY IntervalAssumption DEF Init
  <2> QED
    BY <2>1, <2>2, <2>3 DEF Init, TypeOK
<1>2. TypeOK /\ [Next]_vars => TypeOK'
  <2> SUFFICES ASSUME TypeOK, [Next]_vars PROVE TypeOK'
    OBVIOUS
  <2>1. ASSUME NEW m \in Message, PublishStore(m) PROVE TypeOK'
    BY <2>1 DEF PublishStore, TypeOK, timerVars, runVars, connVars, Ids
  <2>2. ASSUME NEW m \in Message, PublishWrite(m) \/ PublishCheck(m) PROVE TypeOK'
    BY <2>2 DEF PublishWrite, PublishCheck, TypeOK, elemVars, timerVars, runVars, connVars
  <2>3. ASSUME NEW m \in Message, PublishSet(m) PROVE TypeOK'
    <3>1. RetryInterval \in 0..RetryInterval
      BY IntervalAssumption
    <3>2. /\ pending' \in [0..RetryInterval -> 0..MaxSame]
          /\ retryTimer' \in BOOLEAN
      BY <2>3, <3>1, SetTimerLemma DEF PublishSet
    <3> QED
      BY <2>3, <3>2 DEF PublishSet, TypeOK, elemVars, runVars, connVars
  <2>4. ASSUME NEW t \in Retry, Fire(t) PROVE TypeOK'
    <3>1. pending' \in [0..RetryInterval -> 0..MaxSame]
      BY <2>4, IntervalAssumption DEF Fire, TypeOK
    <3> QED
      BY <2>4, <3>1 DEF Fire, TypeOK, elemVars, connVars
  <2>5. ASSUME NEW t \in Retry, ResetTimer(t) PROVE TypeOK'
    BY <2>5 DEF ResetTimer, TypeOK, elemVars, connVars
  <2>6. ASSUME NEW t \in Retry, CopyOut(t) PROVE TypeOK'
    <3>1. Elements \in SUBSET Message
      BY DEF Elements, TypeOK
    <3> QED
      BY <2>6, <3>1 DEF CopyOut, TypeOK, elemVars, timerVars, connVars
  <2>7. ASSUME NEW t \in Retry, ScanDue(t) PROVE TypeOK'
    BY <2>7 DEF ScanDue, TypeOK, elemVars, timerVars, connVars
  <2>8. ASSUME NEW t \in Retry, Resend(t) PROVE TypeOK'
    <3>1. age' \in [Message -> 0..AgeCap]
      <4>1. lag[t] \in 0..AgeCap
        BY IntervalAssumption DEF TypeOK, AgeCap
      <4> QED
        BY <2>8, <4>1 DEF Resend, TypeOK
    <3> QED
      BY <2>8, <3>1 DEF Resend, TypeOK, timerVars, connVars
  <2>9. ASSUME NEW t \in Retry, ScanEarly(t) PROVE TypeOK'
    <3>1. PICK m \in todo[t] :
             /\ ~Due(t, m)
             /\ todo' = [todo EXCEPT ![t] = @ \ {m}]
             /\ IF retryTimer
                THEN UNCHANGED <<run, wait>>
                ELSE /\ run' = [run EXCEPT ![t] = "set"]
                     /\ wait' = [wait EXCEPT ![t] = RetryInterval - AgeSeen(t, m)]
      BY <2>9 DEF ScanEarly
    <3>2. m \in Message /\ age[m] \in Nat /\ lag[t] \in Nat
      BY IntervalAssumption DEF TypeOK, AgeCap
    <3>3. RetryInterval - AgeSeen(t, m) \in 0..RetryInterval
      BY <3>1, <3>2, IntervalAssumption DEF Due, AgeSeen
    <3>4. wait' \in [Retry -> 0..RetryInterval]
      BY <3>1, <3>3 DEF TypeOK
    <3>5. run' \in [Retry -> {"free", "fired", "copy", "scan", "resend", "set",
                              "lastset"}]
      BY <3>1 DEF TypeOK
    <3>6. todo' \in [Retry -> SUBSET Message]
      BY <3>1 DEF TypeOK
    <3> QED
      BY <2>9, <3>4, <3>5, <3>6
         DEF ScanEarly, TypeOK, elemVars, timerVars, connVars
  <2>10. ASSUME NEW t \in Retry, ScanSet(t) PROVE TypeOK'
    <3>1. wait[t] \in 0..RetryInterval
      BY DEF TypeOK
    <3>2. /\ pending' \in [0..RetryInterval -> 0..MaxSame]
          /\ retryTimer' \in BOOLEAN
      BY <2>10, <3>1, SetTimerLemma DEF ScanSet
    <3>3. wait' \in [Retry -> 0..RetryInterval]
      BY <2>10, IntervalAssumption DEF ScanSet, TypeOK
    <3> QED
      BY <2>10, <3>2, <3>3 DEF ScanSet, TypeOK, elemVars, connVars
  <2>11. ASSUME NEW t \in Retry, LastCheck(t) PROVE TypeOK'
    <3>1. lag' \in [Retry -> 0..MaxLag]
      BY <2>11, IntervalAssumption DEF LastCheck, TypeOK
    <3> QED
      BY <2>11, <3>1 DEF LastCheck, TypeOK, elemVars, timerVars, connVars
  <2>12. ASSUME NEW t \in Retry, LastSet(t) PROVE TypeOK'
    <3>1. RetryInterval \in 0..RetryInterval
      BY IntervalAssumption
    <3>2. /\ pending' \in [0..RetryInterval -> 0..MaxSame]
          /\ retryTimer' \in BOOLEAN
      BY <2>12, <3>1, SetTimerLemma DEF LastSet
    <3> QED
      BY <2>12, <3>2 DEF LastSet, TypeOK, elemVars, connVars
  <2>13. ASSUME NEW m \in Message, Ack(m) \/ PubrecFind(m) PROVE TypeOK'
    <3>1. MsgId(m) \in Ids
      BY DEF Ids
    <3>2. CASE Ack(m)
      BY <3>1, <3>2 DEF Ack, TypeOK, timerVars, runVars
    <3>3. CASE PubrecFind(m)
      BY <3>1, <3>3 DEF PubrecFind, TypeOK, elemVars, timerVars, runVars
    <3> QED
      BY <2>13, <3>2, <3>3
  <2>14. CASE PubrecMark
    <3>1. age' \in [Message -> 0..AgeCap]
      <4>1. 0 \in 0..AgeCap
        BY IntervalAssumption DEF AgeCap
      <4> QED
        BY <2>14, <4>1 DEF PubrecMark, TypeOK
    <3> QED
      BY <2>14, <3>1 DEF PubrecMark, TypeOK, timerVars, runVars
  <2>15. CASE Close
    BY <2>15 DEF Close, TypeOK, elemVars, timerVars, runVars
  <2>16. CASE Tick
    <3>1. age' \in [Message -> 0..AgeCap]
      BY <2>16, IntervalAssumption DEF Tick, TypeOK, AgeCap
    <3>2. pending' \in [0..RetryInterval -> 0..MaxSame]
      <4>1. pending[0] \in Nat /\ pending[1] \in Nat
        BY IntervalAssumption DEF TypeOK
      <4>2. Cap(pending[0] + pending[1]) \in 0..MaxSame
        BY <4>1, CapLemma
      <4>3. ASSUME NEW d \in 0..RetryInterval, d < RetryInterval
            PROVE  pending[d + 1] \in 0..MaxSame
        BY <4>3, IntervalAssumption DEF TypeOK
      <4> QED
        BY <2>16, <4>2, <4>3, IntervalAssumption DEF Tick
    <3>3. lag' \in [Retry -> 0..MaxLag]
      BY <2>16, IntervalAssumption DEF Tick, TypeOK, HoldsClock
    <3> QED
      BY <2>16, <3>1, <3>2, <3>3 DEF Tick, TypeOK, connVars
  <2>17. CASE UNCHANGED vars
    BY <2>17 DEF vars, TypeOK
  <2> QED
    BY <2>1, <2>2, <2>3, <2>4, <2>5, <2>6, <2>7, <2>8, <2>9, <2>10, <2>11,
       <2>12, <2>13, <2>14, <2>15, <2>16, <2>17
       DEF Next, PublishStep, RetryStep
<1> QED
  BY <1>1, <1>2, PTL DEF Spec
-----------------------------------------------------------------------------
(* What keeps a retry coming: a timer to fire, or a call of retryDelivery. *)
RetryToCome == Pending \/ \E t \in Retry : run[t] # "free"

Settled(m) == Queued(m) /\ pub[m] = "done"

(* A step that leaves the timers and the goroutines alone, and settles no  *)
(* message, preserves both invariants.                                     *)
LEMMA QuietStep ==
    ASSUME FieldMeansArmed, NoLostRetry,
           UNCHANGED <<retryTimer, pending, run>>,
           link' = "down" \/ link # "down",
           \A m \in Message : Settled(m)' => Settled(m)
    PROVE  FieldMeansArmed' /\ NoLostRetry'
BY DEF FieldMeansArmed, NoLostRetry, Pending, Settled

(* A step that sets a timer preserves both invariants.                     *)
LEMMA PendingStep ==
    ASSUME Pending'
    PROVE  FieldMeansArmed' /\ NoLostRetry'
BY DEF FieldMeansArmed, NoLostRetry

(* The two hold together: a publisher that finds the field set leaves the  *)
(* retry to the timer the field stands for.                                *)
LEMMA RetryInvariant == Spec => [](FieldMeansArmed /\ NoLostRetry)
<1> DEFINE Inv == FieldMeansArmed /\ NoLostRetry
<1>1. Init => Inv
  BY DEF Init, FieldMeansArmed, NoLostRetry
<1>2. TypeOK /\ Inv /\ [Next]_vars => Inv'
  <2> SUFFICES ASSUME TypeOK, FieldMeansArmed, NoLostRetry, [Next]_vars
               PROVE  FieldMeansArmed' /\ NoLostRetry'
    OBVIOUS
  <2>1. ASSUME NEW m \in Message, PublishStore(m) PROVE Inv'
    <3>1. \A n \in Message : Settled(n)' => Settled(n)
      BY <2>1 DEF PublishStore, Settled, Queued, TypeOK
    <3> QED
      BY <2>1, <3>1, QuietStep DEF PublishStore, timerVars, runVars, connVars
  <2>2. ASSUME NEW m \in Message, PublishWrite(m) PROVE Inv'
    <3>1. \A n \in Message : Settled(n)' => Settled(n)
      BY <2>2 DEF PublishWrite, Settled, Queued, TypeOK, elemVars
    <3> QED
      BY <2>2, <3>1, QuietStep DEF PublishWrite, timerVars, runVars, connVars
  <2>3. ASSUME NEW m \in Message, PublishCheck(m) PROVE Inv'
    <3>1. CASE retryTimer
      <4>1. RetryToCome
        BY <3>1 DEF FieldMeansArmed, RetryToCome
      <4>2. RetryToCome'
        BY <2>3, <4>1 DEF PublishCheck, RetryToCome, Pending, timerVars, runVars
      <4>3. FieldMeansArmed'
        BY <2>3 DEF PublishCheck, FieldMeansArmed, Pending, timerVars, runVars
      <4> QED
        BY <4>2, <4>3 DEF NoLostRetry, RetryToCome
    <3>2. CASE ~retryTimer
      <4>1. \A n \in Message : Settled(n)' => Settled(n)
        BY <2>3, <3>2 DEF PublishCheck, Settled, Queued, TypeOK, elemVars
      <4> QED
        BY <2>3, <4>1, QuietStep DEF PublishCheck, timerVars, runVars, connVars
    <3> QED
      BY <3>1, <3>2
  <2>4. ASSUME NEW m \in Message, PublishSet(m) PROVE Inv'
    <3>1. RetryInterval \in 0..RetryInterval
      BY IntervalAssumption
    <3> QED
      BY <2>4, <3>1, SetTimerLemma, PendingStep DEF PublishSet
  <2>5. ASSUME NEW t \in Retry, Fire(t) PROVE Inv'
    <3>1. run'[t] = "fired"
      BY <2>5 DEF Fire, TypeOK
    <3> QED
      BY <3>1 DEF FieldMeansArmed, NoLostRetry
  <2>6. ASSUME NEW t \in Retry, ResetTimer(t) PROVE Inv'
    <3>1. run'[t] = "copy" /\ ~retryTimer'
      BY <2>6 DEF ResetTimer, TypeOK
    <3> QED
      BY <3>1 DEF FieldMeansArmed, NoLostRetry
  <2>7. ASSUME NEW t \in Retry, CopyOut(t) PROVE Inv'
    <3>1. FieldMeansArmed'
      BY <2>7 DEF CopyOut, FieldMeansArmed, Pending, TypeOK, timerVars
    <3>2. CASE link = "down"
      BY <2>7, <3>1, <3>2 DEF CopyOut, NoLostRetry, connVars
    <3>3. CASE Elements = {}
      <4>1. \A m \in Message : inflight[MsgId(m)] \notin Message
        <5> SUFFICES ASSUME NEW m \in Message, inflight[MsgId(m)] \in Message
                     PROVE  FALSE
          OBVIOUS
        <5>1. MsgId(m) \in Ids
          BY DEF Ids
        <5>2. inflight[MsgId(m)] \in Elements
          BY <5>1, NoneAssumption DEF Elements
        <5> QED
          BY <3>3, <5>2
      <4>2. inflight' = inflight
        BY <2>7 DEF CopyOut, elemVars
      <4> QED
        BY <3>1, <4>1, <4>2 DEF NoLostRetry, Queued
    <3>4. CASE ~(link = "down" \/ Elements = {})
      <4>1. run'[t] = "scan"
        BY <2>7, <3>4 DEF CopyOut, TypeOK
      <4> QED
        BY <3>1, <4>1 DEF NoLostRetry
    <3> QED
      BY <3>2, <3>3, <3>4
  <2>8. ASSUME NEW t \in Retry, ScanDue(t) \/ Resend(t) \/ ScanEarly(t) PROVE Inv'
    <3>1. run[t] # "fired" /\ run'[t] \notin {"free", "fired"}
      BY <2>8 DEF ScanDue, Resend, ScanEarly, TypeOK
    <3>2. UNCHANGED <<retryTimer, pending>>
      BY <2>8 DEF ScanDue, Resend, ScanEarly, timerVars
    <3>3. \A u \in Retry : u # t => run'[u] = run[u]
      BY <2>8 DEF ScanDue, Resend, ScanEarly, TypeOK
    <3> QED
      BY <3>1, <3>2, <3>3 DEF FieldMeansArmed, NoLostRetry, Pending
  <2>9. ASSUME NEW t \in Retry, ScanSet(t) PROVE Inv'
    <3>1. wait[t] \in 0..RetryInterval
      BY DEF TypeOK
    <3> QED
      BY <2>9, <3>1, SetTimerLemma, PendingStep DEF ScanSet
  <2>10. ASSUME NEW t \in Retry, LastCheck(t) PROVE Inv'
    <3>1. FieldMeansArmed'
      BY <2>10 DEF LastCheck, FieldMeansArmed, Pending, TypeOK, timerVars
    <3>2. CASE retryTimer
      <4>1. retryTimer'
        BY <2>10, <3>2 DEF LastCheck, timerVars
      <4> QED
        BY <3>1, <4>1 DEF FieldMeansArmed, NoLostRetry
    <3>3. CASE ~retryTimer
      <4>1. run'[t] = "lastset"
        BY <2>10, <3>3 DEF LastCheck, TypeOK
      <4> QED
        BY <3>1, <4>1 DEF NoLostRetry
    <3> QED
      BY <3>2, <3>3
  <2>11. ASSUME NEW t \in Retry, LastSet(t) PROVE Inv'
    <3>1. RetryInterval \in 0..RetryInterval
      BY IntervalAssumption
    <3> QED
      BY <2>11, <3>1, SetTimerLemma, PendingStep DEF LastSet
  <2>12. ASSUME NEW m \in Message, Ack(m) PROVE Inv'
    <3>1. \A n \in Message : Settled(n)' => Settled(n)
      <4>1. inflight' = [inflight EXCEPT ![MsgId(m)] = None] /\ pub' = pub
        BY <2>12 DEF Ack
      <4> QED
        BY <4>1, NoneAssumption DEF Settled, Queued, TypeOK
    <3> QED
      BY <2>12, <3>1, QuietStep DEF Ack, timerVars, runVars
  <2>13. ASSUME NEW m \in Message, PubrecFind(m) PROVE Inv'
    BY <2>13, QuietStep DEF PubrecFind, Settled, Queued, elemVars, timerVars, runVars
  <2>14. CASE PubrecMark
    BY <2>14, QuietStep DEF PubrecMark, Settled, Queued, timerVars, runVars
  <2>15. CASE Close
    BY <2>15, QuietStep DEF Close, Settled, Queued, elemVars, timerVars, runVars
  <2>16. CASE Tick
    <3>1. Pending => Pending'
      <4> SUFFICES ASSUME NEW d \in 0..RetryInterval, pending[d] > 0
                   PROVE  Pending'
        BY DEF Pending
      <4>1. pending[0] \in Nat /\ pending[1] \in Nat
        BY IntervalAssumption DEF TypeOK
      <4>2. CASE d \in {0, 1}
        <5>1. Cap(pending[0] + pending[1]) > 0
          BY <4>1, <4>2, CapLemma
        <5>2. pending'[0] > 0
          BY <2>16, <5>1, IntervalAssumption DEF Tick
        <5> QED
          BY <5>2, IntervalAssumption DEF Pending
      <4>3. CASE d > 1
        <5>1. d - 1 \in 0..RetryInterval /\ d - 1 # 0 /\ d - 1 < RetryInterval
          BY <4>3, IntervalAssumption
        <5>2. pending'[d - 1] = pending[d]
          BY <2>16, <5>1 DEF Tick
        <5> QED
          BY <5>1, <5>2 DEF Pending
      <4> QED
        BY <4>2, <4>3, IntervalAssumption
    <3> QED
      BY <2>16, <3>1 DEF Tick, FieldMeansArmed, NoLostRetry, Queued, connVars
  <2>17. CASE UNCHANGED vars
    BY <2>17, QuietStep DEF vars, Settled, Queued
  <2> QED
    BY <2>1, <2>2, <2>3, <2>4, <2>5, <2>6, <2>7, <2>8, <2>9, <2>10, <2>11,
       <2>12, <2>13, <2>14, <2>15, <2>16, <2>17
       DEF Next, PublishStep, RetryStep
<1> QED
  BY <1>1, <1>2, TypeCorrect, PTL DEF Spec

(* ensureRetryTimer and resetRetryTimer: the field is set only while there *)
(* is a timer that will reset it.                                          *)
THEOREM FieldArmed == Spec => []FieldMeansArmed
BY RetryInvariant, PTL

(* retryDelivery: no interleaving of publishers, timers, retries and       *)
(* acknowledgements loses the retry of a message in flight on a live       *)
(* connection.                                                             *)
THEOREM RetryNeverLost == Spec => []NoLostRetry
BY RetryInvariant, PTL
-----------------------------------------------------------------------------
(* When no two messages carry the same packet identifier, a message stays  *)
(* in flight until the subscriber acknowledges it.                         *)
THEOREM KeptIfIdsDiffer ==
    ASSUME \A m, n \in Message : MsgId(m) = MsgId(n) => m = n
    PROVE  Spec => []KeptUntilAcked
<1>1. Init => KeptUntilAcked
  BY DEF Init, KeptUntilAcked
<1>2. TypeOK /\ KeptUntilAcked /\ [Next]_vars => KeptUntilAcked'
  <2> SUFFICES ASSUME TypeOK, KeptUntilAcked, [Next]_vars PROVE KeptUntilAcked'
    OBVIOUS
  <2>1. ASSUME NEW m \in Message, PublishStore(m) PROVE KeptUntilAcked'
    <3>1. \A n \in Message : MsgId(n) \in Ids
      BY DEF Ids
    <3> QED
      BY <2>1, <3>1 DEF PublishStore, KeptUntilAcked, Queued, TypeOK, connVars
  <2>2. ASSUME NEW m \in Message, Ack(m) PROVE KeptUntilAcked'
    <3>1. \A n \in Message : n # m => MsgId(n) # MsgId(m)
      OBVIOUS
    <3> QED
      BY <2>2, <3>1 DEF Ack, KeptUntilAcked, Queued, TypeOK
  <2>3. ASSUME NEW m \in Message, PublishStep(m) \/ PubrecFind(m)
        PROVE  KeptUntilAcked'
    <3>1. /\ UNCHANGED <<inflight, acked>>
          /\ \A n \in Message : pub'[n] # "idle" => pub[n] # "idle"
      BY <2>3 DEF PublishStep, PublishWrite, PublishCheck, PublishSet,
                  PubrecFind, elemVars, connVars, TypeOK
    <3> QED
      BY <3>1 DEF KeptUntilAcked, Queued
  <2>4. ASSUME NEW t \in Retry, RetryStep(t) PROVE KeptUntilAcked'
    <3>1. UNCHANGED <<inflight, acked, pub>>
      BY <2>4 DEF RetryStep, Fire, ResetTimer, CopyOut, ScanDue, Resend,
                  ScanEarly, ScanSet, LastCheck, LastSet, elemVars, connVars
    <3> QED
      BY <3>1 DEF KeptUntilAcked, Queued
  <2>5. CASE PubrecMark \/ Close \/ Tick \/ UNCHANGED vars
    <3>1. UNCHANGED <<inflight, acked, pub>>
      BY <2>5 DEF PubrecMark, Close, Tick, vars, elemVars, connVars
    <3> QED
      BY <3>1 DEF KeptUntilAcked, Queued
  <2> QED
    BY <2>1, <2>2, <2>3, <2>4, <2>5 DEF Next
<1> QED
  BY <1>1, <1>2, TypeCorrect, PTL DEF Spec
-----------------------------------------------------------------------------
(***************************************************************************)
(* QoS 2 messages from a client, for any timeout, limit and number of      *)
(* packet identifiers, and however many parts the timers' clock divides a  *)
(* second into: each identifier that awaits PUBREL has a timer to come     *)
(* that will expire it, and no message is delivered again more than a      *)
(* second before the timeout.  Both rest on how whole seconds of Unix time *)
(* relate to the timers'.                                                  *)
(***************************************************************************)
LEMMA UnixBounds ==
    ASSUME NEW t \in Nat
    PROVE  /\ Unix(t) \in Nat
           /\ Second * Unix(t) <= t
           /\ t < Second * Unix(t) + Second
BY TimeAssumption DEF Unix

LEMMA DurationNat == Duration \in Nat
BY TimeAssumption DEF Duration

(* Whole seconds do not run backwards.                                     *)
LEMMA UnixMonotone ==
    ASSUME NEW s \in Nat, NEW t \in Nat, s <= t
    PROVE  Unix(s) <= Unix(t)
<1>1. /\ Unix(s) \in Nat /\ Unix(t) \in Nat
      /\ Second * Unix(s) <= s /\ t < Second * Unix(t) + Second
  BY UnixBounds
<1>2. Second * Unix(s) < Second * (Unix(t) + 1)
  BY <1>1, TimeAssumption
<1>3. Unix(s) < Unix(t) + 1
  BY <1>1, <1>2, TimeAssumption
<1> QED
  BY <1>1, <1>3

(* A timer goes off exactly the timeout later in whole seconds too.        *)
LEMMA UnixShift ==
    ASSUME NEW t \in Nat
    PROVE  Unix(t + Duration) >= Unix(t) + awaitRelTimeout
<1>1. /\ Unix(t) \in Nat /\ Unix(t + Duration) \in Nat
      /\ Second * Unix(t) <= t
      /\ t + Duration < Second * Unix(t + Duration) + Second
  BY UnixBounds, DurationNat
<1>2. Second * (Unix(t) + awaitRelTimeout) < Second * (Unix(t + Duration) + 1)
  BY <1>1, TimeAssumption DEF Duration
<1>3. Unix(t) + awaitRelTimeout < Unix(t + Duration) + 1
  BY <1>1, <1>2, TimeAssumption
<1> QED
  BY <1>1, <1>3, TimeAssumption

(* What is the timeout old in whole seconds is less than a second younger. *)
LEMMA UnixGap ==
    ASSUME NEW s \in Nat, NEW t \in Nat, Unix(t) - Unix(s) >= awaitRelTimeout
    PROVE  t - s + Second > Duration
<1>1. /\ Unix(s) \in Nat /\ Unix(t) \in Nat
      /\ Second * Unix(t) <= t /\ s < Second * Unix(s) + Second
  BY UnixBounds
<1>2. Second * (Unix(t) - Unix(s)) >= Second * awaitRelTimeout
  BY <1>1, TimeAssumption
<1> QED
  BY <1>1, <1>2, TimeAssumption DEF Duration
-----------------------------------------------------------------------------
(* A message not released was delivered when its identifier was            *)
(* registered, or before; or it is as old as the timeout.                  *)
Guarded ==
    \A id \in DOMAIN unreleased :
       /\ unreleased[id] <= now
       /\ \/ /\ id \in DOMAIN awaitingRel
             /\ awaitingRel[id] >= Unix(unreleased[id])
          \/ Unix(now) - Unix(unreleased[id]) >= awaitRelTimeout

AwaitInv == RelTypeOK /\ EntryHasTimer /\ Guarded

LEMMA AwaitInitHolds == RelInit => AwaitInv
BY TimeAssumption DEF RelInit, AwaitInv, RelTypeOK, EntryHasTimer, Guarded

(* What the registered identifiers and the timers are.                     *)
LEMMA AwaitTyped ==
    ASSUME RelTypeOK
    PROVE  /\ now \in Nat /\ Unix(now) \in Nat /\ Unix(now) <= Unix(MaxTime)
           /\ Unix(MaxTime) \in Nat
           /\ \A id \in DOMAIN awaitingRel : awaitingRel[id] \in Nat
           /\ \A t \in timers : t \in Nat /\ Unix(t) \in Nat
           /\ \A id \in DOMAIN unreleased :
                 unreleased[id] \in Nat /\ Unix(unreleased[id]) \in Nat
<1>1. now \in Nat /\ MaxTime \in Nat /\ now <= MaxTime
  BY TimeAssumption DEF RelTypeOK
<1>2. Unix(now) \in Nat /\ Unix(MaxTime) \in Nat /\ Unix(now) <= Unix(MaxTime)
  BY <1>1, UnixBounds, UnixMonotone
<1>3. \A id \in DOMAIN awaitingRel : awaitingRel[id] \in Nat
  BY <1>2 DEF RelTypeOK
<1>4. \A t \in timers : t \in Nat
  BY DurationNat, TimeAssumption DEF RelTypeOK
<1>5. \A id \in DOMAIN unreleased : unreleased[id] \in Nat
  BY TimeAssumption DEF RelTypeOK
<1> QED
  BY <1>1, <1>2, <1>3, <1>4, <1>5, UnixBounds

(* Register adds an entry together with its timer.                         *)
LEMMA RegisterStep ==
    ASSUME RelTypeOK, EntryHasTimer, NEW id \in PacketId, Register(id)
    PROVE  /\ DOMAIN awaitingRel' = DOMAIN awaitingRel \cup {id}
           /\ \A i \in DOMAIN awaitingRel : awaitingRel'[i] = awaitingRel[i]
           /\ awaitingRel'[id] = Unix(now)
           /\ DOMAIN awaitingRel' \subseteq PacketId
           /\ \A i \in DOMAIN awaitingRel' : awaitingRel'[i] \in 0..Unix(MaxTime)
           /\ timers' \subseteq 0..(MaxTime + Duration)
           /\ EntryHasTimer'
<1>1. /\ DOMAIN awaitingRel' = DOMAIN awaitingRel \cup {id}
      /\ \A i \in DOMAIN awaitingRel : awaitingRel'[i] = awaitingRel[i]
      /\ awaitingRel'[id] = Unix(now)
      /\ timers' = timers \cup {now + Duration}
  BY DEF Register, With
<1>2. now + Duration \in 0..(MaxTime + Duration)
  BY AwaitTyped, DurationNat, TimeAssumption DEF RelTypeOK
<1>3. Unix(now + Duration) - Unix(now) >= awaitRelTimeout
  <2>1. now + Duration \in Nat
    BY AwaitTyped, DurationNat
  <2> QED
    BY <2>1, AwaitTyped, UnixShift, UnixBounds, TimeAssumption
<1>4. EntryHasTimer'
  BY <1>1, <1>3 DEF EntryHasTimer
<1>5. DOMAIN awaitingRel' \subseteq PacketId /\ timers' \subseteq 0..(MaxTime + Duration)
  BY <1>1, <1>2 DEF RelTypeOK
<1>6. Unix(now) \in 0..Unix(MaxTime)
  BY AwaitTyped
<1>7. \A i \in DOMAIN awaitingRel : awaitingRel[i] \in 0..Unix(MaxTime)
  BY DEF RelTypeOK
<1>8. \A i \in DOMAIN awaitingRel' : awaitingRel'[i] \in 0..Unix(MaxTime)
  BY <1>1, <1>6, <1>7
<1> QED
  BY <1>1, <1>4, <1>5, <1>8

LEMMA AwaitStepHolds == AwaitInv /\ [RelNext]_relVars => AwaitInv'
<1> SUFFICES ASSUME RelTypeOK, EntryHasTimer, Guarded, [RelNext]_relVars
             PROVE  RelTypeOK' /\ EntryHasTimer' /\ Guarded'
  BY DEF AwaitInv
<1> DEFINE Q == RelTypeOK' /\ EntryHasTimer' /\ Guarded'
<1>1. ASSUME NEW id \in PacketId, Publish(id) PROVE Q
  <2>1. /\ Register(id) /\ now' = now
        /\ unreleased' = With(unreleased, id, now)
    BY <1>1 DEF Publish
  <2>2. /\ DOMAIN unreleased' = DOMAIN unreleased \cup {id}
        /\ unreleased'[id] = now
        /\ \A i \in DOMAIN unreleased \ {id} : unreleased'[i] = unreleased[i]
    BY <2>1 DEF With
  <2>3. Guarded'
    <3> SUFFICES ASSUME NEW i \in DOMAIN unreleased'
                 PROVE  /\ unreleased'[i] <= now
                        /\ \/ /\ i \in DOMAIN awaitingRel'
                              /\ awaitingRel'[i] >= Unix(unreleased'[i])
                           \/ Unix(now) - Unix(unreleased'[i]) >= awaitRelTimeout
      BY <2>1 DEF Guarded
    <3>1. CASE i = id
      <4>1. unreleased'[i] = now /\ now <= now
        BY <2>2, <3>1, AwaitTyped
      <4>2. i \in DOMAIN awaitingRel' /\ awaitingRel'[i] = Unix(now)
        BY <2>1, <3>1, RegisterStep
      <4>3. Unix(now) >= Unix(now)
        BY AwaitTyped
      <4> QED
        BY <4>1, <4>2, <4>3
    <3>2. CASE i # id
      <4>1. i \in DOMAIN unreleased /\ unreleased'[i] = unreleased[i]
        BY <2>2, <3>2
      <4> QED
        BY <2>1, <4>1, RegisterStep DEF Guarded
    <3> QED
      BY <3>1, <3>2
  <2>4. RelTypeOK'
    BY <2>1, <2>2, RegisterStep, AwaitTyped DEF RelTypeOK
  <2> QED
    BY <2>1, <2>3, <2>4, RegisterStep
<1>2. ASSUME NEW id \in PacketId, PublishUnanswered(id) PROVE Q
  <2>1. Register(id) /\ now' = now /\ unreleased' = unreleased
    BY <1>2 DEF PublishUnanswered
  <2>2. Guarded'
    BY <2>1, RegisterStep DEF Guarded
  <2>3. RelTypeOK'
    BY <2>1, RegisterStep DEF RelTypeOK
  <2> QED
    BY <2>1, <2>2, <2>3, RegisterStep
<1>3. ASSUME NEW id \in PacketId, pubRel(id) PROVE Q
  BY <1>3 DEF pubRel, Without, RelTypeOK, EntryHasTimer, Guarded
<1>4. ASSUME NEW t \in timers, expireAwaitingRel(t) PROVE Q
  <2> DEFINE gone == {id \in DOMAIN awaitingRel : Expired(id)}
  <2>1. /\ t <= now /\ timers' = timers \ {t}
        /\ now' = now /\ unreleased' = unreleased
        /\ DOMAIN awaitingRel' = DOMAIN awaitingRel \ gone
        /\ \A i \in DOMAIN awaitingRel \ gone : awaitingRel'[i] = awaitingRel[i]
    BY <1>4 DEF expireAwaitingRel, Without
  <2>2. RelTypeOK'
    BY <2>1 DEF RelTypeOK
  <2>3. EntryHasTimer'
    <3> SUFFICES ASSUME NEW i \in DOMAIN awaitingRel'
                 PROVE  \E u \in timers' :
                           Unix(u) - awaitingRel'[i] >= awaitRelTimeout
      BY DEF EntryHasTimer
    <3>1. /\ i \in DOMAIN awaitingRel /\ awaitingRel'[i] = awaitingRel[i]
          /\ ~(Unix(now) - awaitingRel[i] >= awaitRelTimeout)
      BY <2>1 DEF Expired
    <3>2. PICK u \in timers : Unix(u) - awaitingRel[i] >= awaitRelTimeout
      BY <3>1 DEF EntryHasTimer
    <3>3. Unix(t) <= Unix(now)
      BY <2>1, AwaitTyped, UnixMonotone
    <3>4. u # t
      BY <3>1, <3>2, <3>3, AwaitTyped, TimeAssumption
    <3> QED
      BY <2>1, <3>1, <3>2, <3>4
  <2>4. Guarded'
    <3> SUFFICES ASSUME NEW i \in DOMAIN unreleased
                 PROVE  \/ /\ i \in DOMAIN awaitingRel'
                           /\ awaitingRel'[i] >= Unix(unreleased[i])
                        \/ Unix(now) - Unix(unreleased[i]) >= awaitRelTimeout
      BY <2>1 DEF Guarded
    <3>1. CASE Unix(now) - Unix(unreleased[i]) >= awaitRelTimeout
      BY <3>1
    <3>2. CASE /\ i \in DOMAIN awaitingRel
               /\ awaitingRel[i] >= Unix(unreleased[i])
      <4>1. CASE i \in gone
        <5>1. Unix(now) - awaitingRel[i] >= awaitRelTimeout
          BY <4>1 DEF Expired
        <5> QED
          BY <3>2, <5>1, AwaitTyped, TimeAssumption
      <4>2. CASE i \notin gone
        BY <2>1, <3>2, <4>2
      <4> QED
        BY <4>1, <4>2
    <3> QED
      BY <3>1, <3>2 DEF Guarded
  <2> QED
    BY <2>2, <2>3, <2>4
<1>5. ASSUME RelTick PROVE Q
  <2>1. now' = now + 1 /\ now' \in 0..MaxTime /\ now' \in Nat
    BY <1>5, TimeAssumption DEF RelTick, RelTypeOK
  <2>2. Unix(now) <= Unix(now')
    BY <2>1, AwaitTyped, UnixMonotone
  <2>3. Unix(now') \in Nat
    BY <2>1, UnixBounds
  <2>4. Guarded'
    <3> SUFFICES ASSUME NEW i \in DOMAIN unreleased
                 PROVE  /\ unreleased[i] <= now'
                        /\ \/ /\ i \in DOMAIN awaitingRel
                              /\ awaitingRel[i] >= Unix(unreleased[i])
                           \/ Unix(now') - Unix(unreleased[i]) >= awaitRelTimeout
      BY <1>5 DEF Guarded, RelTick
    <3>1. unreleased[i] \in Nat /\ Unix(unreleased[i]) \in Nat /\ Unix(now) \in Nat
      BY AwaitTyped
    <3> QED
      BY <2>1, <2>2, <2>3, <3>1, AwaitTyped, TimeAssumption DEF Guarded
  <2>5. RelTypeOK' /\ EntryHasTimer'
    BY <1>5, <2>1 DEF RelTick, RelTypeOK, EntryHasTimer
  <2> QED
    BY <2>4, <2>5
<1>6. ASSUME UNCHANGED relVars PROVE Q
  BY <1>6 DEF relVars, RelTypeOK, EntryHasTimer, Guarded
<1> HIDE DEF Q
<1>7. Q
  BY <1>1, <1>2, <1>3, <1>4, <1>5, <1>6 DEF RelNext
<1> QED
  BY <1>7 DEF Q

LEMMA AwaitInvariance == RelSpec => []AwaitInv
BY AwaitInitHolds, AwaitStepHolds, PTL DEF RelSpec

-----------------------------------------------------------------------------
(* AwaitRel is type correct: what is registered is a time in whole         *)
(* seconds, no later than the present one.                                 *)
THEOREM AwaitTypes == RelSpec => []RelTypeOK
BY AwaitInvariance, PTL DEF AwaitInv

(* registerPublishPacketId and expireAwaitingRel: no identifier awaits     *)
(* PUBREL for good, for among the timers to come is one that will find it  *)
(* old enough.                                                             *)
THEOREM EntriesExpire == RelSpec => []EntryHasTimer
BY AwaitInvariance, PTL DEF AwaitInv

(* expireAwaitingRel: no message is handed to the subscribers again before *)
(* the timeout less a second has passed, whatever timers of other          *)
(* identifiers and of earlier uses sweep the map.                          *)
THEOREM NotEarly == RelSpec => NoEarlyRedelivery
<1> DEFINE A == \A id \in DOMAIN unreleased :
                   id \in DOMAIN unreleased' /\ unreleased'[id] # unreleased[id]
                   => now - unreleased[id] + Second > Duration
<1>1. AwaitInv /\ [RelNext]_relVars => [A]_relVars
  <2> SUFFICES ASSUME RelTypeOK, Guarded, RelNext, NEW id \in DOMAIN unreleased,
                      id \in DOMAIN unreleased', unreleased'[id] # unreleased[id]
               PROVE  now - unreleased[id] + Second > Duration
    BY DEF AwaitInv
  <2>1. Publish(id)
    BY DEF RelNext, Publish, PublishUnanswered, pubRel, expireAwaitingRel, RelTick,
           With, Without
  <2>2. id \notin DOMAIN awaitingRel
    BY <2>1 DEF Publish, Register
  <2>3. Unix(now) - Unix(unreleased[id]) >= awaitRelTimeout
    BY <2>2 DEF Guarded
  <2>4. unreleased[id] \in Nat /\ now \in Nat
    BY AwaitTyped
  <2> QED
    BY <2>3, <2>4, UnixGap
<1> QED
  BY <1>1, AwaitInvariance, PTL DEF RelSpec, NoEarlyRedelivery
=============================================================================
