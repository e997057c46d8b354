------------------------ MODULE OutcomeDelivery_proofs ------------------------
(***************************************************************************)
(* Proofs about OutcomeDelivery, for any set of outcomes, any capacity and *)
(* any number of failures, token renewals and restarts.                    *)
(***************************************************************************)
EXTENDS OutcomeDelivery, SequenceTheorems, TLAPS

-----------------------------------------------------------------------------
(* The queue operators. *)

\* A sequence is its front and its last element.
LEMMA FrontLast ==
    ASSUME NEW s \in Seq(Outcomes), s # <<>>
    PROVE  /\ Last(s) \in Outcomes /\ Last(s) = s[Len(s)] /\ Len(s) >= 1
           /\ Front(s) \in Seq(Outcomes) /\ Len(Front(s)) = Len(s) - 1
           /\ \A i \in 1..Len(Front(s)) : Front(s)[i] = s[i]
<1>1. Len(s) \in Nat \ {0}
  OBVIOUS
<1>2. PICK n \in Nat : n = Len(s) - 1
  BY <1>1
<1>3. SubSeq(s, 1, n) \in Seq(Outcomes) /\ Len(SubSeq(s, 1, n)) = n
  BY <1>1, <1>2
<1>4. \A i \in 1..n : SubSeq(s, 1, n)[i] = s[i]
  BY <1>1, <1>2
<1> QED BY <1>1, <1>2, <1>3, <1>4 DEF Front, Last

USE MaxQueuedAssumption, BoundsAssumption, NoneAssumption

\* Push keeps a queue a queue within its capacity.
LEMMA PushBounds ==
    ASSUME NEW q \in Seq(Outcomes), NEW o \in Outcomes, Len(q) <= MaxQueued
    PROVE  Push(q, o) \in Seq(Outcomes) /\ Len(Push(q, o)) <= MaxQueued
BY DEF Push, Full

\* So does RequeueFront.
LEMMA RequeueFrontBounds ==
    ASSUME NEW q \in Seq(Outcomes), NEW o \in Outcomes, Len(q) <= MaxQueued
    PROVE  RequeueFront(q, o) \in Seq(Outcomes) /\ Len(RequeueFront(q, o)) <= MaxQueued
<1>1. CASE Full(q)
  <2>1. q # <<>>
    BY <1>1 DEF Full
  <2> QED BY <1>1, <2>1, FrontLast DEF RequeueFront, Full
<1>2. CASE ~Full(q)
  BY <1>2 DEF RequeueFront, Full
<1> QED BY <1>1, <1>2

-----------------------------------------------------------------------------
(* Types and bounds. *)

\* The task awaits a post exactly while it has an outcome in hand, and holds
\* nothing between two ticks.
PhaseInv ==
    /\ phase = "await" <=> sending # None
    /\ phase = "idle" => pending = <<>>

BoundInv == TypeOK /\ PhaseInv /\ BoundedMemory

LEMMA BoundInit == Init => BoundInv
BY DEF Init, BoundInv, TypeOK, PhaseInv, BoundedMemory, Phases, Statuses, Requests,
       Tokens, Fates

LEMMA FateType ==
    ASSUME BoundInv
    PROVE  /\ \A o \in Outcomes, loss \in Fates : FateAfterPush(o, loss) \in [Outcomes -> Fates]
           /\ FateAfterRequeue \in [Outcomes -> Fates]
BY DEF BoundInv, TypeOK, FateAfterPush, FateAfterRequeue, Fates

LEMMA BoundStep == BoundInv /\ [Next]_vars => BoundInv'
<1> SUFFICES ASSUME BoundInv, [Next]_vars PROVE BoundInv'
  OBVIOUS
<1> USE DEF BoundInv, TypeOK, PhaseInv, BoundedMemory, Phases, Statuses, Tokens
<1>1. ASSUME NEW o \in Outcomes, NEW loss \in {"evicted", "forgotten"}, PushOutcome(o, loss)
      PROVE  BoundInv'
  <2>1. queue' \in Seq(Outcomes) /\ Len(queue') <= MaxQueued
    BY <1>1, PushBounds DEF PushOutcome
  <2>2. fate' \in [Outcomes -> Fates]
    BY <1>1, FateType DEF PushOutcome, Fates
  <2>3. finished' \in Seq(Outcomes)
    BY <1>1 DEF PushOutcome
  <2> QED BY <1>1, <2>1, <2>2, <2>3 DEF PushOutcome, cpVars, netVars
<1>2. ASSUME NEW o \in Outcomes, CloseUnreported(o)
      PROVE  BoundInv'
  BY <1>2 DEF CloseUnreported, taskVars, netVars, history
<1>3. CASE IdleTick
  BY <1>3 DEF IdleTick, vars, taskVars, cpVars, netVars, history
<1>4. CASE Tick
  BY <1>4 DEF Tick, cpVars, netVars, history
<1>5. CASE Post
  <2>1. Head(pending) \in Outcomes /\ Tail(pending) \in Seq(Outcomes)
        /\ Len(Tail(pending)) = Len(pending) - 1
    BY <1>5 DEF Post
  <2>2. wire' \subseteq Requests
    <3>1. [outcome |-> Head(pending), token |-> heldToken, live |-> TRUE] \in Requests
      BY <2>1 DEF Requests
    <3> QED BY <1>5, <3>1 DEF Post
  <2> QED BY <1>5, <2>1, <2>2 DEF Post, cpVars, history
<1>6. ASSUME NEW status \in Statuses, NEW how \in {"acked", "refused"}, Settle(status, how)
      PROVE  BoundInv'
  BY <1>6 DEF Settle, cpVars, Fates
<1>7. CASE RequeueFailed
  <2>1. sending \in Outcomes
    BY <1>7 DEF RequeueFailed
  <2>2. wire' \subseteq Requests
    <3>1. Dead \subseteq Requests /\ Abandoned \subseteq Requests
      BY DEF Dead, Abandoned, Requests
    <3> QED BY <1>7, <3>1 DEF RequeueFailed
  <2>3. queue' \in Seq(Outcomes) /\ Len(queue') <= MaxQueued
    BY <1>7, <2>1, RequeueFrontBounds DEF RequeueFailed
  <2>4. failures' \in 0..MaxFailures
    BY <1>7 DEF RequeueFailed
  <2>5. fate' \in [Outcomes -> Fates]
    BY <1>7, FateType DEF RequeueFailed
  <2>6. failed' \subseteq Outcomes
    BY <1>7, <2>1 DEF RequeueFailed
  <2>7. /\ sending' = None /\ answer' = None /\ phase' = "requeue"
        /\ UNCHANGED <<pending, heldToken, validToken, closed, ledger, finished, restarts>>
    BY <1>7 DEF RequeueFailed, cpVars
  <2> QED BY <2>2, <2>3, <2>4, <2>5, <2>6, <2>7
<1>8. CASE RequeueLeft
  <2>1. Last(pending) \in Outcomes
    BY <1>8, FrontLast DEF RequeueLeft
  <2>2. Front(pending) \in Seq(Outcomes) /\ Len(Front(pending)) <= Len(pending)
    BY <1>8, FrontLast DEF RequeueLeft
  <2>3. queue' \in Seq(Outcomes) /\ Len(queue') <= MaxQueued
    BY <1>8, <2>1, RequeueFrontBounds DEF RequeueLeft
  <2>4. fate' \in [Outcomes -> Fates]
    BY <1>8, FateType DEF RequeueLeft
  <2>5. /\ phase = "requeue" /\ pending' = Front(pending)
        /\ UNCHANGED <<sending, phase, heldToken, validToken, closed, ledger,
                       wire, answer, finished, failed, failures, restarts>>
    BY <1>8 DEF RequeueLeft, cpVars, netVars
  <2> QED BY <2>2, <2>3, <2>4, <2>5
<1>9. CASE Return
  BY <1>9 DEF Return, cpVars, netVars, history
<1>10. ASSUME NEW r \in wire, Arrive(r)
       PROVE  BoundInv'
  <2> USE <1>10 DEF Requests, Arrive, taskVars, Answer
  <2>1. CASE Record(r)
    BY <2>1 DEF Record
  <2>2. CASE Refuse(r)
    BY <2>2 DEF Refuse
  <2>3. CASE ServerError(r)
    BY <2>3 DEF ServerError
  <2> QED BY <2>1, <2>2, <2>3
<1>11. CASE RotateToken
  BY <1>11 DEF RotateToken, taskVars, netVars, history
<1>12. CASE Restart
  <2>1. wire' \subseteq Requests
    <3>1. wire' = {[r EXCEPT !.live = FALSE] : r \in wire}
      BY <1>12 DEF Restart, Abandoned
    <3>2. ASSUME NEW r \in Requests PROVE [r EXCEPT !.live = FALSE] \in Requests
      BY DEF Requests
    <3> QED BY <3>1, <3>2
  <2>2. fate' \in [Outcomes -> Fates]
    BY <1>12 DEF Restart, Fates
  <2>3. queue' = <<>> /\ pending' = <<>> /\ sending' = None /\ phase' = "idle" /\ answer' = None
    BY <1>12 DEF Restart
  <2>4. heldToken' = validToken /\ UNCHANGED <<validToken, closed, ledger, finished, failures>>
    BY <1>12 DEF Restart, cpVars
  <2>5. failed' \subseteq Outcomes /\ restarts' \in 0..MaxRestarts
    BY <1>12 DEF Restart
  <2> QED BY <2>1, <2>2, <2>3, <2>4, <2>5
<1>13. CASE UNCHANGED vars
  BY <1>13 DEF vars, taskVars, cpVars, netVars, history
<1> QED
  BY <1>1, <1>2, <1>3, <1>4, <1>5, <1>6, <1>7, <1>8, <1>9, <1>10, <1>11, <1>12, <1>13
     DEF Next, Deliver, ReportExit, ReportRefusal, Delivered, Refused

\* The variables keep their types.
THEOREM TypeCorrect == Spec => []TypeOK
<1>1. Spec => []BoundInv
  BY BoundInit, BoundStep, PTL DEF Spec
<1>2. BoundInv => TypeOK
  BY DEF BoundInv
<1> QED BY <1>1, <1>2, PTL

\* However long the control plane stays silent and whatever is requeued, the
\* queue and the batch under delivery each stay within MAX_QUEUED.
THEOREM MemoryIsBounded == Spec => []BoundedMemory
<1>1. Spec => []BoundInv
  BY BoundInit, BoundStep, PTL DEF Spec
<1>2. BoundInv => BoundedMemory
  BY DEF BoundInv
<1> QED BY <1>1, <1>2, PTL

-----------------------------------------------------------------------------
(* What the queue operators do to the elements of a sequence without       *)
(* repetition.                                                             *)

\* Taking the head.
LEMMA TailElements ==
    ASSUME NEW s \in Seq(Outcomes), s # <<>>, Distinct(s)
    PROVE  /\ Head(s) \in Elements(s) /\ Distinct(Tail(s))
           /\ Elements(Tail(s)) = Elements(s) \ {Head(s)}
<1>1. /\ Len(s) \in Nat \ {0} /\ DOMAIN s = 1..Len(s) /\ Head(s) = s[1]
      /\ Tail(s) \in Seq(Outcomes) /\ DOMAIN Tail(s) = 1..(Len(s) - 1)
      /\ \A i \in 1..(Len(s) - 1) : Tail(s)[i] = s[i + 1]
  OBVIOUS
<1>2. Distinct(Tail(s))
  BY <1>1 DEF Distinct
<1>3. ASSUME NEW x \in Elements(s) \ {Head(s)}
      PROVE  x \in Elements(Tail(s))
  <2>1. PICK i \in 1..Len(s) : x = s[i] /\ i # 1
    BY <1>1, <1>3 DEF Elements
  <2>2. i - 1 \in 1..(Len(s) - 1) /\ Tail(s)[i - 1] = x
    BY <1>1, <2>1
  <2> QED BY <1>1, <2>2 DEF Elements
<1>4. ASSUME NEW x \in Elements(Tail(s))
      PROVE  x \in Elements(s) \ {Head(s)}
  BY <1>1, <1>4 DEF Elements, Distinct
<1> QED BY <1>1, <1>2, <1>3, <1>4 DEF Elements

\* Taking the last one.
LEMMA FrontElements ==
    ASSUME NEW s \in Seq(Outcomes), s # <<>>, Distinct(s)
    PROVE  /\ Last(s) \in Elements(s) /\ Distinct(Front(s))
           /\ Elements(Front(s)) = Elements(s) \ {Last(s)}
<1>1. /\ Len(s) \in Nat \ {0} /\ DOMAIN s = 1..Len(s) /\ Last(s) = s[Len(s)]
      /\ Front(s) \in Seq(Outcomes) /\ DOMAIN Front(s) = 1..(Len(s) - 1)
      /\ \A i \in 1..(Len(s) - 1) : Front(s)[i] = s[i]
  BY FrontLast
<1>2. Distinct(Front(s))
  BY <1>1 DEF Distinct
<1>3. ASSUME NEW x \in Elements(s) \ {Last(s)}
      PROVE  x \in Elements(Front(s))
  <2>1. PICK i \in 1..Len(s) : x = s[i] /\ i # Len(s)
    BY <1>1, <1>3 DEF Elements
  <2>2. i \in 1..(Len(s) - 1)
    <3>1. Len(s) \in Nat \ {0} /\ i \in 1..Len(s) /\ i # Len(s)
      BY <1>1, <2>1
    <3> QED BY <3>1
  <2>3. Front(s)[i] = x /\ i \in DOMAIN Front(s)
    BY <1>1, <2>1, <2>2, Zenon
  <2> QED BY <2>3 DEF Elements
<1>4. ASSUME NEW x \in Elements(Front(s))
      PROVE  x \in Elements(s) \ {Last(s)}
  BY <1>1, <1>4 DEF Elements, Distinct
<1>5. Last(s) \in Elements(s)
  BY <1>1 DEF Elements
<1> QED BY <1>2, <1>3, <1>4, <1>5

\* Adding a new one at the back.
LEMMA AppendElements ==
    ASSUME NEW s \in Seq(Outcomes), NEW o \in Outcomes, o \notin Elements(s), Distinct(s)
    PROVE  /\ Distinct(Append(s, o))
           /\ Elements(Append(s, o)) = Elements(s) \cup {o}
<1>1. /\ Len(s) \in Nat /\ DOMAIN s = 1..Len(s)
      /\ DOMAIN Append(s, o) = 1..(Len(s) + 1) /\ Append(s, o)[Len(s) + 1] = o
      /\ \A i \in 1..Len(s) : Append(s, o)[i] = s[i]
  OBVIOUS
<1>2. Distinct(Append(s, o))
  BY <1>1 DEF Distinct, Elements
<1>3. Elements(s) \cup {o} \subseteq Elements(Append(s, o))
  BY <1>1 DEF Elements
<1>4. Elements(Append(s, o)) \subseteq Elements(s) \cup {o}
  BY <1>1 DEF Elements
<1> QED BY <1>2, <1>3, <1>4

\* Adding a new one at the front.
LEMMA ConsElements ==
    ASSUME NEW s \in Seq(Outcomes), NEW o \in Outcomes, o \notin Elements(s), Distinct(s)
    PROVE  /\ Distinct(<<o>> \o s)
           /\ Elements(<<o>> \o s) = Elements(s) \cup {o}
<1>1. /\ Len(s) \in Nat /\ DOMAIN s = 1..Len(s)
      /\ DOMAIN (<<o>> \o s) = 1..(Len(s) + 1) /\ (<<o>> \o s)[1] = o
      /\ \A i \in 2..(Len(s) + 1) : (<<o>> \o s)[i] = s[i - 1]
  OBVIOUS
<1>2. Distinct(<<o>> \o s)
  BY <1>1 DEF Distinct, Elements
<1>3. ASSUME NEW x \in Elements(s) \cup {o} PROVE x \in Elements(<<o>> \o s)
  <2>1. CASE x = o
    BY <1>1, <2>1 DEF Elements
  <2>2. CASE x # o
    <3>1. PICK i \in 1..Len(s) : x = s[i]
      BY <1>1, <1>3, <2>2 DEF Elements
    <3>2. i + 1 \in 2..(Len(s) + 1) /\ i + 1 \in 1..(Len(s) + 1) /\ i + 1 - 1 = i
      BY <1>1, <3>1
    <3>3. (<<o>> \o s)[i + 1] = x
      BY <1>1, <3>1, <3>2
    <3>4. i + 1 \in DOMAIN (<<o>> \o s)
      BY <1>1, <3>2, Zenon
    <3> QED BY <3>3, <3>4, Zenon DEF Elements
  <2> QED BY <2>1, <2>2
<1>4. Elements(<<o>> \o s) \subseteq Elements(s) \cup {o}
  BY <1>1 DEF Elements
<1> QED BY <1>2, <1>3, <1>4

\* The outcomes a full queue loses to a push and to a requeue.
LostToPush    == IF Full(queue) THEN {Head(queue)} ELSE {}
LostToRequeue == IF Full(queue) THEN {Last(queue)} ELSE {}

LEMMA PushElements ==
    ASSUME queue \in Seq(Outcomes), Distinct(queue),
           NEW o \in Outcomes, o \notin Elements(queue)
    PROVE  /\ Distinct(Push(queue, o)) /\ LostToPush \subseteq Elements(queue)
           /\ Elements(Push(queue, o)) = (Elements(queue) \ LostToPush) \cup {o}
<1>1. CASE Full(queue)
  <2>1. queue # <<>>
    BY <1>1 DEF Full
  <2>2. /\ Tail(queue) \in Seq(Outcomes) /\ Head(queue) \in Elements(queue)
        /\ Distinct(Tail(queue)) /\ Elements(Tail(queue)) = Elements(queue) \ {Head(queue)}
    BY <2>1, TailElements
  <2>3. /\ Distinct(Append(Tail(queue), o))
        /\ Elements(Append(Tail(queue), o)) = Elements(Tail(queue)) \cup {o}
    BY <2>2, AppendElements
  <2> QED BY <1>1, <2>2, <2>3 DEF Push, LostToPush
<1>2. CASE ~Full(queue)
  <2>1. /\ Distinct(Append(queue, o))
        /\ Elements(Append(queue, o)) = Elements(queue) \cup {o}
    BY AppendElements
  <2> QED BY <1>2, <2>1 DEF Push, LostToPush
<1> QED BY <1>1, <1>2

LEMMA RequeueElements ==
    ASSUME queue \in Seq(Outcomes), Distinct(queue),
           NEW o \in Outcomes, o \notin Elements(queue)
    PROVE  /\ Distinct(RequeueFront(queue, o)) /\ LostToRequeue \subseteq Elements(queue)
           /\ Elements(RequeueFront(queue, o)) = (Elements(queue) \ LostToRequeue) \cup {o}
<1>1. CASE Full(queue)
  <2>1. queue # <<>>
    BY <1>1 DEF Full
  <2>2. /\ Front(queue) \in Seq(Outcomes) /\ Last(queue) \in Elements(queue)
        /\ Distinct(Front(queue)) /\ Elements(Front(queue)) = Elements(queue) \ {Last(queue)}
    BY <2>1, FrontElements, FrontLast
  <2>3. /\ Distinct(<<o>> \o Front(queue))
        /\ Elements(<<o>> \o Front(queue)) = Elements(Front(queue)) \cup {o}
    BY <2>2, ConsElements
  <2> QED BY <1>1, <2>2, <2>3 DEF RequeueFront, LostToRequeue
<1>2. CASE ~Full(queue)
  <2>1. /\ Distinct(<<o>> \o queue)
        /\ Elements(<<o>> \o queue) = Elements(queue) \cup {o}
    BY ConsElements
  <2> QED BY <1>2, <2>1 DEF RequeueFront, LostToRequeue
<1> QED BY <1>1, <1>2

-----------------------------------------------------------------------------
(* Nothing is lost or doubled.                                             *)

\* HeldExactlyOnce says where the outcomes are; BoundInv when there are none.
PlaceInv == BoundInv /\ HeldExactlyOnce

LEMMA PlaceInit == Init => HeldExactlyOnce
BY DEF Init, HeldExactlyOnce, Elements, Distinct, Awaited, Held

\* An outcome that still runs is nowhere; a push moves it to the queue and
\* lets go of what the queue loses.
LEMMA PlacePush ==
    ASSUME PlaceInv, NEW o \in Outcomes, NEW loss \in {"evicted", "forgotten"},
           PushOutcome(o, loss)
    PROVE  /\ HeldExactlyOnce'
           /\ Held' = (Held \ LostToPush) \cup {o} /\ LostToPush \subseteq Held
           /\ \A x \in LostToPush : fate'[x] = loss
           /\ \A x \in Outcomes \ (LostToPush \cup {o}) : fate'[x] = fate[x]
<1> USE DEF PlaceInv, BoundInv, TypeOK
<1>1. o \notin Held
  BY DEF PushOutcome, Held
<1>2. o \notin Elements(queue) \cup Elements(pending) \cup Awaited
  BY <1>1 DEF HeldExactlyOnce
<1>3. /\ Distinct(queue') /\ LostToPush \subseteq Elements(queue)
      /\ Elements(queue') = (Elements(queue) \ LostToPush) \cup {o}
  BY <1>2, PushElements DEF PushOutcome, HeldExactlyOnce
<1>4. /\ fate'[o] = "held"
      /\ \A x \in LostToPush : fate'[x] = loss
      /\ \A x \in Outcomes \ (LostToPush \cup {o}) : fate'[x] = fate[x]
  <2>1. o \notin LostToPush /\ LostToPush \subseteq Outcomes
    BY <1>2, <1>3 DEF HeldExactlyOnce, Held
  <2> QED BY <2>1 DEF PushOutcome, FateAfterPush, LostToPush
<1>5. Held' = (Held \ LostToPush) \cup {o}
  BY <1>4 DEF Held
<1>6. pending' = pending /\ Awaited' = Awaited
  BY DEF PushOutcome, Awaited
<1>7. LostToPush \subseteq Held /\ LostToPush \cap (Elements(pending) \cup Awaited) = {}
  BY <1>3 DEF HeldExactlyOnce
<1>8. HeldExactlyOnce'
  BY <1>2, <1>3, <1>5, <1>6, <1>7 DEF HeldExactlyOnce
<1> QED BY <1>4, <1>5, <1>7, <1>8

\* A requeue of `o`, already out of the queue, puts it back and lets go of
\* what the queue loses.
LEMMA PlaceRequeue ==
    ASSUME PlaceInv, NEW o \in Held, o \notin Elements(queue),
           queue' = RequeueFront(queue, o), fate' = FateAfterRequeue
    PROVE  /\ Distinct(queue') /\ LostToRequeue \subseteq Elements(queue)
           /\ Elements(queue') = (Elements(queue) \ LostToRequeue) \cup {o}
           /\ Held' = Held \ LostToRequeue /\ LostToRequeue \subseteq Held
           /\ \A x \in LostToRequeue : fate'[x] = "forgotten"
           /\ \A x \in Outcomes \ LostToRequeue : fate'[x] = fate[x]
<1> USE DEF PlaceInv, BoundInv, TypeOK
<1>1. /\ Distinct(queue') /\ LostToRequeue \subseteq Elements(queue)
      /\ Elements(queue') = (Elements(queue) \ LostToRequeue) \cup {o}
  BY RequeueElements DEF Held, HeldExactlyOnce
<1>2. LostToRequeue \subseteq Held
  BY <1>1 DEF HeldExactlyOnce
<1>3. /\ \A x \in LostToRequeue : fate'[x] = "forgotten"
      /\ \A x \in Outcomes \ LostToRequeue : fate'[x] = fate[x]
  BY <1>2 DEF FateAfterRequeue, LostToRequeue, Held
<1>4. Held' = Held \ LostToRequeue
  BY <1>3 DEF Held
<1> QED BY <1>1, <1>2, <1>3, <1>4

LEMMA PlaceStep == PlaceInv /\ [Next]_vars => HeldExactlyOnce'
<1> SUFFICES ASSUME PlaceInv, [Next]_vars PROVE HeldExactlyOnce'
  OBVIOUS
<1> USE DEF PlaceInv, BoundInv
<1>1. ASSUME NEW o \in Outcomes, NEW loss \in {"evicted", "forgotten"}, PushOutcome(o, loss)
      PROVE  HeldExactlyOnce'
  BY <1>1, PlacePush
<1>2. ASSUME UNCHANGED <<queue, pending, sending, fate>>
      PROVE  HeldExactlyOnce'
  BY <1>2 DEF HeldExactlyOnce, Held, Awaited, Distinct, Elements
<1>3. CASE Tick
  <2>1. pending = <<>> /\ Elements(pending) = {} /\ queue' = <<>> /\ Elements(queue') = {}
    BY <1>3 DEF Tick, PhaseInv, Elements
  <2>2. pending' = queue /\ Held' = Held /\ Awaited' = Awaited /\ Distinct(queue')
    BY <1>3, <2>1 DEF Tick, history, Held, Awaited, Distinct
  <2> QED BY <2>1, <2>2 DEF HeldExactlyOnce
<1>4. CASE Post
  <2>1. /\ Head(pending) \in Elements(pending) /\ Distinct(pending')
        /\ Elements(pending') = Elements(pending) \ {Head(pending)}
    BY <1>4, TailElements DEF Post, TypeOK, HeldExactlyOnce
  <2>2. Head(pending) # None
    BY <1>4, HeadTailProperties DEF Post, TypeOK
  <2>3. sending = None /\ Awaited = {} /\ Awaited' = {Head(pending)}
    BY <1>4, <2>2 DEF Post, PhaseInv, Awaited
  <2>4. queue' = queue /\ Held' = Held
    BY <1>4 DEF Post, history, Held
  <2> QED BY <2>1, <2>3, <2>4 DEF HeldExactlyOnce
<1>5. ASSUME NEW status \in Statuses, NEW how \in {"acked", "refused"}, Settle(status, how)
      PROVE  HeldExactlyOnce'
  <2>1. sending # None /\ sending \in Outcomes /\ Awaited = {sending} /\ Awaited' = {}
    BY <1>5 DEF Settle, PhaseInv, Awaited, TypeOK
  <2>2. Held' = Held \ {sending}
    BY <1>5, <2>1 DEF Settle, Held, TypeOK
  <2>3. queue' = queue /\ pending' = pending
    BY <1>5 DEF Settle
  <2> QED BY <2>1, <2>2, <2>3 DEF HeldExactlyOnce
<1>6. CASE RequeueFailed
  <2>1. sending # None /\ Awaited = {sending} /\ Awaited' = {} /\ pending' = pending
    BY <1>6 DEF RequeueFailed, PhaseInv, Awaited
  <2>2. sending \in Held /\ sending \notin Elements(queue) /\ sending \notin Elements(pending)
    BY <2>1 DEF HeldExactlyOnce
  <2>3. queue' = RequeueFront(queue, sending) /\ fate' = FateAfterRequeue
    BY <1>6 DEF RequeueFailed
  <2>4. /\ Distinct(queue') /\ LostToRequeue \subseteq Elements(queue)
        /\ Elements(queue') = (Elements(queue) \ LostToRequeue) \cup {sending}
        /\ Held' = Held \ LostToRequeue
    BY <2>2, <2>3, PlaceRequeue
  <2> QED BY <2>1, <2>2, <2>4 DEF HeldExactlyOnce
<1>7. CASE RequeueLeft
  <2>1. /\ Last(pending) \in Elements(pending) /\ Distinct(pending')
        /\ Elements(pending') = Elements(pending) \ {Last(pending)}
    BY <1>7, FrontElements DEF RequeueLeft, TypeOK, HeldExactlyOnce
  <2>2. Last(pending) \in Held /\ Last(pending) \notin Elements(queue) \cup Awaited
    BY <2>1 DEF HeldExactlyOnce
  <2>3. queue' = RequeueFront(queue, Last(pending)) /\ fate' = FateAfterRequeue
        /\ Awaited' = Awaited
    BY <1>7 DEF RequeueLeft, Awaited
  <2>4. /\ Distinct(queue') /\ LostToRequeue \subseteq Elements(queue)
        /\ Elements(queue') = (Elements(queue) \ LostToRequeue) \cup {Last(pending)}
        /\ Held' = Held \ LostToRequeue
    BY <2>2, <2>3, PlaceRequeue
  <2> QED BY <2>1, <2>2, <2>3, <2>4 DEF HeldExactlyOnce
<1>8. CASE Restart
  <2>1. Held' = {}
    BY <1>8 DEF Restart, Held, TypeOK
  <2>2. /\ Elements(queue') = {} /\ Elements(pending') = {} /\ Awaited' = {}
        /\ Distinct(queue') /\ Distinct(pending')
    BY <1>8 DEF Restart, Elements, Distinct, Awaited
  <2> QED BY <2>1, <2>2 DEF HeldExactlyOnce
<1>9. ASSUME NEW o \in Outcomes, CloseUnreported(o) PROVE HeldExactlyOnce'
  BY <1>9, <1>2 DEF CloseUnreported, taskVars, history
<1>10. CASE IdleTick \/ Return \/ RotateToken \/ UNCHANGED vars
  BY <1>10, <1>2 DEF IdleTick, Return, RotateToken, vars, taskVars, history
<1>11. ASSUME NEW r \in wire, Arrive(r) PROVE HeldExactlyOnce'
  BY <1>11, <1>2 DEF Arrive, taskVars
<1> QED
  BY <1>1, <1>3, <1>4, <1>5, <1>6, <1>7, <1>8, <1>9, <1>10, <1>11
     DEF Next, Deliver, ReportExit, ReportRefusal, Delivered, Refused, Statuses

\* Every outcome the node has not settled is in exactly one place: whatever
\* the interleaving of pushes, drains, posts, requeues and restarts.
THEOREM NothingLostOrDoubled == Spec => []HeldExactlyOnce
<1>1. Init => PlaceInv
  BY BoundInit, PlaceInit DEF PlaceInv
<1>2. PlaceInv /\ [Next]_vars => PlaceInv'
  BY BoundStep, PlaceStep DEF PlaceInv
<1>3. PlaceInv => HeldExactlyOnce
  BY DEF PlaceInv
<1> QED BY <1>1, <1>2, <1>3, PTL DEF Spec

-----------------------------------------------------------------------------
(* The refinement.                                                         *)

\* A request under way is for an execution that ended, the live one for the
\* outcome in hand; a success was recorded; what is recorded is closed.
RequestInv ==
    /\ \A r \in wire : fate[r.outcome] # "running"
    /\ \A r \in wire : r.live => phase = "await" /\ r.outcome = sending
    /\ \A r, q \in wire : r.live /\ q.live => r = q
    /\ answer # None => phase = "await" /\ \A r \in wire : ~r.live
    /\ answer = "2xx" => sending \in Recorded
    /\ Recorded \subseteq closed

ReportInv == PlaceInv /\ RequestInv /\ AckedIsRecorded

LEMMA ReportInit == Init => RequestInv /\ AckedIsRecorded
BY DEF Init, RequestInv, AckedIsRecorded, Recorded, Elements

\* An execution that ended never runs again, an acknowledged outcome stays so.
LEMMA FateStep ==
    ASSUME PlaceInv, [Next]_vars, NEW o \in Outcomes
    PROVE  /\ fate[o] # "running" => fate'[o] # "running"
           /\ fate'[o] = "acked" => fate[o] = "acked" \/ (Delivered /\ o = sending)
<1> USE DEF PlaceInv, BoundInv, TypeOK
<1>1. ASSUME NEW p \in Outcomes, NEW loss \in {"evicted", "forgotten"}, PushOutcome(p, loss)
      PROVE  fate'[o] \in {fate[o], "held", loss}
  BY <1>1 DEF PushOutcome, FateAfterPush
<1>2. ASSUME NEW status \in Statuses, NEW how \in {"acked", "refused"}, Settle(status, how)
      PROVE  fate'[o] = fate[o] \/ (fate'[o] = how /\ o = sending)
  BY <1>2 DEF Settle
<1>3. CASE RequeueFailed \/ RequeueLeft
  BY <1>3 DEF RequeueFailed, RequeueLeft, FateAfterRequeue
<1>4. CASE Restart
  BY <1>4 DEF Restart
<1>5. ASSUME NEW p \in Outcomes, CloseUnreported(p) PROVE fate' = fate
  BY <1>5 DEF CloseUnreported, history
<1>6. ASSUME NEW r \in wire, Arrive(r) PROVE fate' = fate
  BY <1>6 DEF Arrive
<1>7. CASE IdleTick \/ Tick \/ Post \/ Return \/ RotateToken \/ UNCHANGED vars
  BY <1>7 DEF IdleTick, Tick, Post, Return, RotateToken, vars, history
<1> QED
  BY <1>1, <1>2, <1>3, <1>4, <1>5, <1>6, <1>7
     DEF Next, Deliver, ReportExit, ReportRefusal, Delivered, Refused, Statuses

\* What a request's arrival does to the ledger.
LEMMA RecordedStep ==
    ASSUME TypeOK, NEW r \in wire, Arrive(r)
    PROVE  \/ /\ r.outcome \notin closed /\ closed' = closed \cup {r.outcome}
              /\ Recorded' = Recorded \cup {r.outcome}
              /\ answer' = IF r.live THEN "2xx" ELSE answer
           \/ /\ Recorded' = Recorded /\ closed' = closed
              /\ answer' = answer \/ (r.live /\ answer' \in {"4xx", "5xx"})
<1>1. CASE Record(r)
  <2>1. r.outcome \in Outcomes /\ ledger \in Seq(Outcomes)
    BY DEF TypeOK, Requests
  <2>2. ledger' = Append(ledger, r.outcome)
    BY <1>1 DEF Record
  <2>3. /\ DOMAIN ledger = 1..Len(ledger) /\ Len(ledger) \in Nat
        /\ DOMAIN ledger' = 1..(Len(ledger) + 1) /\ ledger'[Len(ledger) + 1] = r.outcome
        /\ \A i \in 1..Len(ledger) : ledger'[i] = ledger[i]
    BY <2>1, <2>2
  <2>4. Recorded \cup {r.outcome} \subseteq Recorded'
    BY <2>3 DEF Recorded, Elements
  <2>5. Recorded' \subseteq Recorded \cup {r.outcome}
    BY <2>3 DEF Recorded, Elements
  <2> QED BY <1>1, <2>4, <2>5 DEF Record, Answer
<1>2. CASE Refuse(r) \/ ServerError(r)
  BY <1>2 DEF Refuse, ServerError, Answer, Recorded
<1> QED BY <1>1, <1>2 DEF Arrive

LEMMA ReportStep == ReportInv /\ [Next]_vars => RequestInv' /\ AckedIsRecorded'
<1> SUFFICES ASSUME ReportInv, [Next]_vars PROVE RequestInv' /\ AckedIsRecorded'
  OBVIOUS
<1> USE DEF ReportInv
<1>1. TypeOK /\ PhaseInv
  BY DEF PlaceInv, BoundInv
<1>2. \A o \in Outcomes : fate[o] # "running" => fate'[o] # "running"
  BY FateStep
<1>3. \A r \in wire : r.outcome \in Outcomes
  BY <1>1 DEF TypeOK, Requests
<1>4. ASSUME Recorded \subseteq Recorded'
      PROVE  AckedIsRecorded'
  <2>1. ASSUME NEW o \in Outcomes, Delivered, o = sending PROVE o \in Recorded
    BY <2>1 DEF Delivered, Settle, RequestInv
  <2> QED BY <1>4, <2>1, FateStep DEF AckedIsRecorded, Recorded
<1>5. ASSUME UNCHANGED <<closed, ledger>>, wire' = wire, UNCHANGED <<sending, phase, answer>>
      PROVE  RequestInv' /\ AckedIsRecorded'
  <2>1. Recorded' = Recorded
    BY <1>5 DEF Recorded
  <2> QED BY <1>2, <1>3, <1>4, <1>5, <2>1 DEF RequestInv
<1>6. ASSUME UNCHANGED <<closed, ledger>>, answer' = None,
             \A r \in wire' : ~r.live /\ \E q \in wire : q.outcome = r.outcome
      PROVE  RequestInv' /\ AckedIsRecorded'
  <2>1. Recorded' = Recorded
    BY <1>6 DEF Recorded
  <2> QED BY <1>2, <1>3, <1>4, <1>6, <2>1 DEF RequestInv
<1>7. \A r \in Dead \cup Abandoned : ~r.live /\ \E q \in wire : q.outcome = r.outcome
  BY <1>1 DEF Dead, Abandoned, TypeOK, Requests
<1>8. ASSUME NEW o \in Outcomes, NEW loss \in {"evicted", "forgotten"}, PushOutcome(o, loss)
      PROVE  RequestInv' /\ AckedIsRecorded'
  BY <1>8, <1>5 DEF PushOutcome, cpVars, netVars
<1>9. ASSUME NEW o \in Outcomes, CloseUnreported(o)
      PROVE  RequestInv' /\ AckedIsRecorded'
  <2>1. /\ Recorded' = Recorded /\ closed \subseteq closed' /\ wire' = wire
        /\ UNCHANGED <<sending, phase, answer>>
    BY <1>9 DEF CloseUnreported, Recorded, taskVars, netVars
  <2> QED BY <1>2, <1>3, <1>4, <2>1 DEF RequestInv
<1>10. CASE Tick \/ Return
  <2>1. phase # "await" /\ answer = None /\ \A r \in wire : ~r.live
    BY <1>10 DEF Tick, Return, RequestInv
  <2>2. answer' = None /\ wire' = wire /\ UNCHANGED <<closed, ledger>>
    BY <1>10, <2>1 DEF Tick, Return, netVars, cpVars
  <2> QED BY <1>6, <2>1, <2>2
<1>11. CASE Post
  <2>1. phase # "await" /\ answer = None /\ \A r \in wire : ~r.live
    BY <1>11 DEF Post, RequestInv
  <2>2. sending' \in Outcomes /\ sending' \in Held
    BY <1>11, <1>1, TailElements DEF Post, TypeOK, PlaceInv, HeldExactlyOnce
  <2>3. /\ wire' = wire \cup {[outcome |-> sending', token |-> heldToken, live |-> TRUE]}
        /\ phase' = "await" /\ answer' = answer /\ closed' = closed /\ ledger' = ledger
        /\ fate' = fate
    BY <1>11 DEF Post, cpVars, history
  <2>4. Recorded' = Recorded
    BY <2>3 DEF Recorded
  <2> DEFINE req == [outcome |-> sending', token |-> heldToken, live |-> TRUE]
  <2>5. req.outcome = sending' /\ req.live /\ wire' = wire \cup {req}
    BY <2>3
  <2> HIDE DEF req
  <2>6. fate[sending'] # "running"
    BY <2>2 DEF Held
  <2>7. /\ \A r \in wire' : fate'[r.outcome] # "running"
        /\ \A r \in wire' : r.live => r = req
    BY <2>1, <2>3, <2>5, <2>6 DEF RequestInv
  <2>8. /\ answer' = None /\ answer' # "2xx" /\ Recorded' \subseteq closed'
    BY <2>1, <2>3, <2>4 DEF RequestInv
  <2>9. RequestInv'
    BY <2>3, <2>5, <2>7, <2>8, Zenon DEF RequestInv
  <2> QED BY <1>4, <2>4, <2>9
<1>12. ASSUME NEW status \in Statuses, NEW how \in {"acked", "refused"}, Settle(status, how)
       PROVE  RequestInv' /\ AckedIsRecorded'
  <2>1. \A r \in wire : ~r.live
    BY <1>12 DEF Settle, RequestInv, Statuses
  <2> QED BY <1>12, <1>6, <2>1 DEF Settle, cpVars
<1>13. CASE RequeueFailed
  BY <1>13, <1>6, <1>7 DEF RequeueFailed, cpVars
<1>14. CASE Restart
  BY <1>14, <1>6, <1>7 DEF Restart, cpVars
<1>15. CASE RequeueLeft
  BY <1>15, <1>5 DEF RequeueLeft, cpVars, netVars
<1>16. CASE IdleTick \/ RotateToken \/ UNCHANGED vars
  BY <1>16, <1>5 DEF IdleTick, RotateToken, vars, taskVars, cpVars, netVars
<1>17. ASSUME NEW r \in wire, Arrive(r)
       PROVE  RequestInv' /\ AckedIsRecorded'
  <2>1. wire' \subseteq wire /\ UNCHANGED <<sending, phase, fate>>
    BY <1>17 DEF Arrive, taskVars
  <2>2. r.live => phase = "await" /\ r.outcome = sending
    BY <1>17 DEF RequestInv
  <2>3. Recorded \subseteq Recorded' /\ Recorded' \subseteq closed'
    BY <1>1, <1>17, RecordedStep DEF RequestInv
  <2>4. answer' = "2xx" => sending \in Recorded'
    BY <1>1, <1>17, <2>2, <2>3, RecordedStep DEF RequestInv
  <2>5. answer' # None => phase = "await" /\ \A q \in wire' : ~q.live
    <3>1. wire' = wire \ {r}
      BY <1>17 DEF Arrive
    <3>2. answer' = answer \/ r.live
      BY <1>1, <1>17, RecordedStep
    <3>3. r.live => \A q \in wire' : ~q.live
      BY <3>1, <1>17 DEF RequestInv
    <3> QED BY <2>1, <2>2, <3>2, <3>3 DEF RequestInv
  <2> QED BY <1>4, <2>1, <2>3, <2>4, <2>5 DEF RequestInv
<1> QED
  BY <1>8, <1>9, <1>10, <1>11, <1>12, <1>13, <1>14, <1>15, <1>16, <1>17
     DEF Next, Deliver, ReportExit, ReportRefusal, Delivered, Refused, Statuses

\* An outcome the node dropped as delivered is in the ledger, whatever
\* requests were lost, late or repeated.
THEOREM AcknowledgedOutcomesAreRecorded == Spec => []AckedIsRecorded
<1>1. Init => ReportInv
  BY BoundInit, PlaceInit, ReportInit DEF PlaceInv, ReportInv
<1>2. ReportInv /\ [Next]_vars => ReportInv'
  BY BoundStep, PlaceStep, ReportStep DEF PlaceInv, ReportInv
<1>3. ReportInv => AckedIsRecorded
  BY DEF ReportInv
<1> QED BY <1>1, <1>2, <1>3, PTL DEF Spec

\* A step in which outcomes leave the node unreported.
LEMMA LetGoStep ==
    ASSUME NEW D \in SUBSET Held, Held' = Held \ D, Gone' = Gone \cup D,
           Acked' = Acked, Recorded' = Recorded
    PROVE  Promise!Next
BY DEF Promise!Next, Promise!LetGo

\* A step that changes nothing OutcomeReporting can see.
LEMMA StutterStep ==
    ASSUME fate' = fate, Recorded' = Recorded
    PROVE  UNCHANGED Promise!vars
BY DEF Promise!vars, Held, Acked, Gone

LEMMA PromiseStep == ReportInv /\ [Next]_vars => [Promise!Next]_(Promise!vars)
<1> SUFFICES ASSUME ReportInv, [Next]_vars PROVE [Promise!Next]_(Promise!vars)
  OBVIOUS
<1> USE DEF ReportInv
<1>1. TypeOK /\ PhaseInv /\ PlaceInv /\ HeldExactlyOnce
  BY DEF PlaceInv, BoundInv
<1>2. ASSUME NEW o \in Outcomes, NEW loss \in {"evicted", "forgotten"}, PushOutcome(o, loss)
      PROVE  Promise!Next
  <2>1. /\ Held' = (Held \ LostToPush) \cup {o} /\ LostToPush \in SUBSET Held
        /\ \A x \in LostToPush : fate'[x] = loss
        /\ \A x \in Outcomes \ (LostToPush \cup {o}) : fate'[x] = fate[x]
    BY <1>1, <1>2, PlacePush
  <2>2. fate[o] = "running" /\ fate'[o] = "held"
    BY <1>2, <2>1 DEF PushOutcome, Held
  <2>3. o \notin Held \cup Acked \cup Gone
    BY <2>2 DEF Held, Acked, Gone
  <2>4. Gone' = Gone \cup LostToPush /\ Acked' = Acked
    BY <2>1, <2>2 DEF Gone, Acked, Held
  <2>5. Recorded' = Recorded
    BY <1>2 DEF PushOutcome, cpVars, Recorded
  <2>6. Promise!Finish(o, LostToPush)
    BY <2>1, <2>3, <2>4, <2>5 DEF Promise!Finish
  <2> QED BY <2>1, <2>6 DEF Promise!Next
<1>3. ASSUME Delivered PROVE Promise!Next
  <2>1. sending \in Held /\ sending \in Recorded /\ sending \in Outcomes
    BY <1>1, <1>3 DEF Delivered, Settle, PhaseInv, HeldExactlyOnce, Awaited, RequestInv, Held
  <2>2. /\ fate'[sending] = "acked" /\ Recorded' = Recorded
        /\ \A x \in Outcomes \ {sending} : fate'[x] = fate[x]
    BY <1>1, <1>3, <2>1 DEF Delivered, Settle, cpVars, Recorded, TypeOK
  <2>3. Held' = Held \ {sending} /\ Acked' = Acked \cup {sending} /\ Gone' = Gone
    BY <2>1, <2>2 DEF Held, Acked, Gone
  <2>4. Promise!Acknowledge(sending)
    BY <2>1, <2>2, <2>3 DEF Promise!Acknowledge
  <2> QED BY <2>1, <2>4 DEF Promise!Next
<1>4. ASSUME Refused PROVE Promise!Next
  <2>1. sending \in Held /\ sending \in Outcomes
    BY <1>1, <1>4 DEF Refused, Settle, PhaseInv, HeldExactlyOnce, Awaited, Held
  <2>2. /\ fate'[sending] = "refused" /\ Recorded' = Recorded
        /\ \A x \in Outcomes \ {sending} : fate'[x] = fate[x]
    BY <1>1, <1>4, <2>1 DEF Refused, Settle, cpVars, Recorded, TypeOK
  <2>3. /\ {sending} \in SUBSET Held /\ Held' = Held \ {sending}
        /\ Gone' = Gone \cup {sending} /\ Acked' = Acked
    BY <2>1, <2>2 DEF Held, Acked, Gone
  <2> QED BY <2>2, <2>3, LetGoStep
<1>5. ASSUME NEW o \in Held, o \notin Elements(queue), Recorded' = Recorded,
             queue' = RequeueFront(queue, o), fate' = FateAfterRequeue
      PROVE  Promise!Next
  <2>1. /\ Held' = Held \ LostToRequeue /\ LostToRequeue \in SUBSET Held
        /\ \A x \in LostToRequeue : fate'[x] = "forgotten"
        /\ \A x \in Outcomes \ LostToRequeue : fate'[x] = fate[x]
    BY <1>1, <1>5, PlaceRequeue
  <2>2. Gone' = Gone \cup LostToRequeue /\ Acked' = Acked
    BY <2>1 DEF Held, Gone, Acked
  <2> QED BY <1>5, <2>1, <2>2, LetGoStep
<1>6. ASSUME RequeueFailed PROVE Promise!Next
  <2>1. sending \in Held /\ sending \notin Elements(queue)
    BY <1>1, <1>6 DEF RequeueFailed, PhaseInv, HeldExactlyOnce, Awaited
  <2> QED BY <1>5, <1>6, <2>1 DEF RequeueFailed, cpVars, Recorded
<1>7. ASSUME RequeueLeft PROVE Promise!Next
  <2>1. Last(pending) \in Elements(pending)
    BY <1>1, <1>7, FrontElements DEF RequeueLeft, TypeOK, HeldExactlyOnce
  <2>2. Last(pending) \in Held /\ Last(pending) \notin Elements(queue)
    BY <1>1, <2>1 DEF HeldExactlyOnce
  <2> QED BY <1>5, <1>7, <2>2 DEF RequeueLeft, cpVars, Recorded
<1>8. ASSUME Restart PROVE Promise!Next
  <2>1. fate' = [o \in Outcomes |-> IF fate[o] = "held" THEN "crashed" ELSE fate[o]]
        /\ Recorded' = Recorded
    BY <1>8 DEF Restart, cpVars, Recorded
  <2>2. Held' = Held \ Held /\ Gone' = Gone \cup Held /\ Acked' = Acked
    BY <1>1, <2>1 DEF Held, Gone, Acked
  <2> QED BY <2>1, <2>2, LetGoStep
<1>9. ASSUME NEW r \in wire, Arrive(r) PROVE [Promise!Next]_(Promise!vars)
  <2>1. fate' = fate
    BY <1>9 DEF Arrive
  <2>2. CASE Recorded' = Recorded
    BY <2>1, <2>2, StutterStep
  <2>3. CASE Recorded' # Recorded
    <3>1. r.outcome \notin closed /\ Recorded' = Recorded \cup {r.outcome}
      BY <1>1, <1>9, <2>3, RecordedStep
    <3>2. r.outcome \in Outcomes /\ fate[r.outcome] # "running"
      BY <1>1 DEF TypeOK, Requests, RequestInv
    <3>3. r.outcome \notin Recorded /\ fate[r.outcome] # "acked"
      BY <3>1, <3>2 DEF RequestInv, AckedIsRecorded, Recorded
    <3>4. fate[r.outcome] \in Fates
      BY <1>1, <3>2 DEF TypeOK
    <3>5. r.outcome \in Held \cup Gone
      BY <3>2, <3>3, <3>4 DEF Held, Gone, Fates
    <3>6. Held' = Held /\ Acked' = Acked /\ Gone' = Gone
      BY <2>1 DEF Held, Acked, Gone
    <3>7. Promise!Record(r.outcome)
      BY <3>1, <3>3, <3>5, <3>6 DEF Promise!Record
    <3> QED BY <3>2, <3>7 DEF Promise!Next
  <2> QED BY <2>2, <2>3
<1>10. ASSUME NEW o \in Outcomes, CloseUnreported(o) PROVE UNCHANGED Promise!vars
  BY <1>10, StutterStep DEF CloseUnreported, history, Recorded
<1>11. CASE IdleTick \/ Tick \/ Post \/ Return \/ RotateToken \/ UNCHANGED vars
  BY <1>11, StutterStep
     DEF IdleTick, Tick, Post, Return, RotateToken, vars, cpVars, history, Recorded
<1> QED
  BY <1>2, <1>3, <1>4, <1>6, <1>7, <1>8, <1>9, <1>10, <1>11
     DEF Next, Deliver, ReportExit, ReportRefusal

\* OutcomeDelivery implements OutcomeReporting, whatever fails.
THEOREM PromiseKept == Spec => KeepsPromise
<1>1. Init => ReportInv /\ Promise!Init
  <2>1. Init => ReportInv
    BY BoundInit, PlaceInit, ReportInit DEF PlaceInv, ReportInv
  <2>2. Init => Promise!Init
    BY DEF Init, Promise!Init, Held, Acked, Gone, Recorded, Elements
  <2> QED BY <2>1, <2>2
<1>2. ReportInv /\ [Next]_vars => ReportInv'
  BY BoundStep, PlaceStep, ReportStep DEF PlaceInv, ReportInv
<1> QED BY <1>1, <1>2, PromiseStep, PTL DEF Spec, KeepsPromise, Promise!Spec

-----------------------------------------------------------------------------
(* The order of the ledger.                                                *)

\* An older outcome behind a younger one, though none of its posts failed: what must not
\* be, in the ledger nor on the way to it.
Wrong == {p \in Outcomes \X Outcomes : Before(p[2], p[1]) /\ p[2] \notin failed}

InOrder(s, W)   == \A i, j \in DOMAIN s : i < j => <<s[i], s[j]>> \notin W
Behind(S, T, W) == \A x \in S, y \in T : <<x, y>> \notin W

Sent    == {r.outcome : r \in wire}
Waiting == Awaited \cup Elements(pending) \cup Elements(queue)

\* The outcome in hand, those left in the batch and those in the queue are in the order in
\* which they will be posted; what was sent is before them all.
OrderInv ==
    /\ Distinct(finished)
    /\ \A o \in Elements(finished) \cup Recorded : fate[o] # "running"
    /\ \A r \in wire : ~r.live => r.outcome \in failed
    /\ InOrder(queue, Wrong) /\ InOrder(pending, Wrong) /\ InOrder(ledger, Wrong)
    /\ Behind(Awaited, Elements(pending) \cup Elements(queue), Wrong)
    /\ Behind(Elements(pending), Elements(queue), Wrong)
    /\ Behind(Recorded \cup Sent, Waiting, Wrong)

LEMMA OrderOfParts ==
    ASSUME NEW s \in Seq(Outcomes), NEW W, InOrder(s, W)
    PROVE  /\ s # <<>> => InOrder(Tail(s), W) /\ InOrder(Front(s), W)
           /\ s # <<>> /\ Distinct(s) =>
                /\ Behind({Head(s)}, Elements(Tail(s)), W)
                /\ Behind(Elements(Front(s)), {Last(s)}, W)
           /\ \A V : V \subseteq W => InOrder(s, V)
<1>1. ASSUME s # <<>> PROVE InOrder(Tail(s), W) /\ Behind({Head(s)}, Elements(Tail(s)), W)
  <2>1. /\ DOMAIN s = 1..Len(s) /\ Head(s) = s[1] /\ Len(s) \in Nat \ {0}
        /\ DOMAIN Tail(s) = 1..(Len(s) - 1)
        /\ \A i \in 1..(Len(s) - 1) : Tail(s)[i] = s[i + 1]
    BY <1>1
  <2>2. InOrder(Tail(s), W)
    BY <2>1 DEF InOrder
  <2>3. Behind({Head(s)}, Elements(Tail(s)), W)
    BY <2>1 DEF InOrder, Behind, Elements
  <2> QED BY <2>2, <2>3
<1>2. ASSUME s # <<>> PROVE InOrder(Front(s), W) /\ Behind(Elements(Front(s)), {Last(s)}, W)
  <2>1. /\ DOMAIN s = 1..Len(s) /\ Last(s) = s[Len(s)] /\ Len(s) \in Nat \ {0}
        /\ DOMAIN Front(s) = 1..(Len(s) - 1)
        /\ \A i \in 1..(Len(s) - 1) : Front(s)[i] = s[i]
    BY <1>2, FrontLast
  <2>2. InOrder(Front(s), W)
    BY <2>1 DEF InOrder
  <2>3. Behind(Elements(Front(s)), {Last(s)}, W)
    BY <2>1 DEF InOrder, Behind, Elements
  <2> QED BY <2>2, <2>3
<1>3. \A V : V \subseteq W => InOrder(s, V)
  BY DEF InOrder
<1> QED BY <1>1, <1>2, <1>3

LEMMA OrderOfAppend ==
    ASSUME NEW s \in Seq(Outcomes), NEW W, NEW o \in Outcomes, InOrder(s, W), Behind(Elements(s), {o}, W)
    PROVE  InOrder(Append(s, o), W)
<1>1. /\ DOMAIN s = 1..Len(s) /\ Len(s) \in Nat
      /\ DOMAIN Append(s, o) = 1..(Len(s) + 1) /\ Append(s, o)[Len(s) + 1] = o
      /\ \A i \in 1..Len(s) : Append(s, o)[i] = s[i]
  OBVIOUS
<1> SUFFICES ASSUME NEW i \in 1..(Len(s) + 1), NEW j \in 1..(Len(s) + 1), i < j
             PROVE  <<Append(s, o)[i], Append(s, o)[j]>> \notin W
  BY <1>1 DEF InOrder
<1>2. i \in 1..Len(s)
  BY <1>1
<1>3. CASE j = Len(s) + 1
  BY <1>1, <1>2, <1>3 DEF Behind, Elements
<1>4. CASE j \in 1..Len(s)
  BY <1>1, <1>2, <1>4 DEF InOrder
<1> QED BY <1>1, <1>3, <1>4

LEMMA OrderOfCons ==
    ASSUME NEW s \in Seq(Outcomes), NEW W, NEW o \in Outcomes, InOrder(s, W), Behind({o}, Elements(s), W)
    PROVE  InOrder(<<o>> \o s, W)
<1>1. /\ DOMAIN s = 1..Len(s) /\ Len(s) \in Nat
      /\ DOMAIN (<<o>> \o s) = 1..(Len(s) + 1) /\ (<<o>> \o s)[1] = o
      /\ \A i \in 2..(Len(s) + 1) : (<<o>> \o s)[i] = s[i - 1]
  OBVIOUS
<1> SUFFICES ASSUME NEW i \in 1..(Len(s) + 1), NEW j \in 1..(Len(s) + 1), i < j
             PROVE  <<(<<o>> \o s)[i], (<<o>> \o s)[j]>> \notin W
  BY <1>1 DEF InOrder
<1>2. j \in 2..(Len(s) + 1) /\ j - 1 \in 1..Len(s)
  BY <1>1
<1>3. CASE i = 1
  BY <1>1, <1>2, <1>3 DEF Behind, Elements
<1>4. CASE i # 1
  <2>1. i \in 2..(Len(s) + 1) /\ i - 1 \in 1..Len(s) /\ i - 1 < j - 1
    BY <1>1, <1>2, <1>4
  <2> QED BY <1>1, <1>2, <2>1 DEF InOrder
<1> QED BY <1>3, <1>4

\* A push at the back and a requeue at the front, into a queue that may lose one.
LEMMA OrderOfQueue ==
    ASSUME NEW W, NEW o \in Outcomes, queue \in Seq(Outcomes), InOrder(queue, W)
    PROVE  /\ Behind(Elements(queue), {o}, W) => InOrder(Push(queue, o), W)
           /\ Behind({o}, Elements(queue), W) => InOrder(RequeueFront(queue, o), W)
<1>1. CASE Full(queue)
  <2>1. queue # <<>>
    BY <1>1 DEF Full
  <2>2. /\ Tail(queue) \in Seq(Outcomes) /\ Elements(Tail(queue)) \subseteq Elements(queue)
        /\ InOrder(Tail(queue), W)
    <3>1. Tail(queue) \in Seq(Outcomes) /\ DOMAIN Tail(queue) = 1..(Len(queue) - 1)
          /\ DOMAIN queue = 1..Len(queue) /\ Len(queue) \in Nat
          /\ \A i \in 1..(Len(queue) - 1) : Tail(queue)[i] = queue[i + 1]
      BY <2>1
    <3>2. Elements(Tail(queue)) \subseteq Elements(queue)
      BY <3>1 DEF Elements
    <3> QED BY <2>1, <3>1, <3>2, OrderOfParts
  <2>3. /\ Front(queue) \in Seq(Outcomes) /\ Elements(Front(queue)) \subseteq Elements(queue)
        /\ InOrder(Front(queue), W)
    <3>1. Front(queue) \in Seq(Outcomes) /\ DOMAIN Front(queue) = 1..(Len(queue) - 1)
          /\ DOMAIN queue = 1..Len(queue) /\ Len(queue) \in Nat
          /\ \A i \in 1..(Len(queue) - 1) : Front(queue)[i] = queue[i]
      BY <2>1, FrontLast
    <3>2. Elements(Front(queue)) \subseteq Elements(queue)
      BY <3>1 DEF Elements
    <3> QED BY <2>1, <3>1, <3>2, OrderOfParts
  <2>4. Behind(Elements(queue), {o}, W) => InOrder(Append(Tail(queue), o), W)
    BY <2>2, OrderOfAppend DEF Behind
  <2>5. Behind({o}, Elements(queue), W) => InOrder(<<o>> \o Front(queue), W)
    BY <2>3, OrderOfCons DEF Behind
  <2> QED BY <1>1, <2>4, <2>5 DEF Push, RequeueFront
<1>2. CASE ~Full(queue)
  BY <1>2, OrderOfAppend, OrderOfCons DEF Push, RequeueFront
<1> QED BY <1>1, <1>2

\* What is in the wrong order changes only when an execution ends, and then only by that
\* execution: it is younger than all others.
LEMMA WrongStep ==
    ASSUME finished \in Seq(Outcomes)
    PROVE  /\ Distinct(finished) => \A x \in Outcomes : <<x, x>> \notin Wrong
           /\ finished' = finished /\ failed \subseteq failed' => Wrong' \subseteq Wrong
           /\ \A o \in Outcomes :
                 finished' = Append(finished, o) /\ o \notin Elements(finished) /\ failed' = failed
                 => \A p \in Wrong' : (p \in Wrong \/ p[1] = o) /\ p[2] # o
<1>1. Distinct(finished) => \A x \in Outcomes : <<x, x>> \notin Wrong
  BY DEF Distinct, Wrong, Before
<1>2. finished' = finished /\ failed \subseteq failed' => Wrong' \subseteq Wrong
  BY DEF Wrong, Before
<1>3. ASSUME NEW o \in Outcomes, finished' = Append(finished, o), o \notin Elements(finished),
             failed' = failed, NEW p \in Wrong'
      PROVE  (p \in Wrong \/ p[1] = o) /\ p[2] # o
  <2>1. /\ DOMAIN finished = 1..Len(finished) /\ Len(finished) \in Nat
        /\ DOMAIN finished' = 1..(Len(finished) + 1) /\ finished'[Len(finished) + 1] = o
        /\ \A i \in 1..Len(finished) : finished'[i] = finished[i]
    BY <1>3
  <2>2. p \in Outcomes \X Outcomes /\ p[2] \notin failed
    BY <1>3 DEF Wrong
  <2>3. PICK i, j \in 1..(Len(finished) + 1) :
             i < j /\ finished'[i] = p[2] /\ finished'[j] = p[1]
    BY <1>3, <2>1 DEF Wrong, Before
  <2>4. i \in 1..Len(finished) /\ finished[i] = p[2]
    BY <2>1, <2>3
  <2>5. p[2] # o
    BY <1>3, <2>1, <2>4 DEF Elements
  <2>6. CASE j = Len(finished) + 1
    BY <2>1, <2>3, <2>5, <2>6
  <2>7. CASE j \in 1..Len(finished)
    <3>1. finished[j] = p[1]
      BY <2>1, <2>3, <2>7
    <3>2. Before(p[2], p[1])
      BY <2>1, <2>3, <2>4, <2>7, <3>1 DEF Before
    <3> QED BY <2>2, <2>5, <3>2 DEF Wrong
  <2> QED BY <2>1, <2>6, <2>7
<1> QED BY <1>1, <1>2, <1>3

LEMMA OrderInit == Init => OrderInv
BY DEF Init, OrderInv, Recorded, Sent, Awaited, Waiting, InOrder, Behind, Elements, Distinct

\* Where the order may change: an execution that ends goes behind all others, and no step
\* but that makes an outcome older than another.
LEMMA OrderPush ==
    ASSUME ReportInv, OrderInv, NEW o \in Outcomes, NEW loss \in {"evicted", "forgotten"},
           PushOutcome(o, loss)
    PROVE  OrderInv'
<1>1. TypeOK /\ HeldExactlyOnce /\ PlaceInv /\ RequestInv
  BY DEF ReportInv, PlaceInv, BoundInv
<1>2. o \notin Elements(finished) \cup Recorded \cup Sent \cup Waiting
  <2>1. fate[o] = "running"
    BY DEF PushOutcome
  <2>2. o \notin Held
    BY <2>1 DEF Held
  <2> QED BY <1>1, <2>1, <2>2 DEF OrderInv, RequestInv, Sent, Waiting, HeldExactlyOnce
<1>3. /\ UNCHANGED <<pending, sending, ledger, wire, failed>>
      /\ queue' = Push(queue, o) /\ finished' = Append(finished, o)
  BY DEF PushOutcome, cpVars, netVars
<1>4. \A p \in Wrong' : (p \in Wrong \/ p[1] = o) /\ p[2] # o
  BY <1>1, <1>2, <1>3, WrongStep DEF TypeOK
<1>5. Distinct(finished') /\ Elements(finished') = Elements(finished) \cup {o}
  BY <1>1, <1>2, <1>3, AppendElements DEF TypeOK, OrderInv
<1>6. /\ Distinct(queue) /\ o \notin Elements(queue)
      /\ Elements(queue') \subseteq Elements(queue) \cup {o}
  BY <1>1, <1>2, <1>3, PushElements DEF TypeOK, HeldExactlyOnce, Waiting
<1>7. Awaited' = Awaited /\ Sent' = Sent /\ Recorded' = Recorded
  BY <1>3 DEF Awaited, Sent, Recorded
<1>8. \A x \in Elements(finished') \cup Recorded' : fate'[x] # "running"
  <2>1. fate'[o] = "held"
    BY <1>1 DEF PushOutcome, FateAfterPush
  <2>2. Elements(finished) \cup Recorded \subseteq Outcomes
    BY <1>1 DEF TypeOK, Elements, Recorded
  <2>3. ASSUME NEW x \in Elements(finished) \cup Recorded PROVE fate'[x] # "running"
    BY <1>1, <2>2, <2>3 DEF OrderInv, PushOutcome, FateAfterPush
  <2> QED BY <1>5, <1>7, <2>1, <2>3
<1>9. \A S, T : Behind(S, T, Wrong) /\ o \notin S => Behind(S, T \cup {o}, Wrong')
  <2> SUFFICES ASSUME NEW S, NEW T, Behind(S, T, Wrong), o \notin S,
                      NEW x \in S, NEW y \in T \cup {o}, <<x, y>> \in Wrong'
               PROVE  FALSE
    BY DEF Behind
  <2>1. x # o /\ <<x, y>>[1] = x /\ <<x, y>>[2] = y
    OBVIOUS
  <2>2. <<x, y>> \in Wrong /\ y # o
    BY <1>4, <2>1
  <2> QED BY <2>2 DEF Behind
<1>10. \A s \in Seq(Outcomes) : InOrder(s, Wrong) /\ o \notin Elements(s) => InOrder(s, Wrong')
  <2> SUFFICES ASSUME NEW s \in Seq(Outcomes), InOrder(s, Wrong), o \notin Elements(s),
                      NEW i \in DOMAIN s, NEW j \in DOMAIN s, i < j, <<s[i], s[j]>> \in Wrong'
               PROVE  FALSE
    BY DEF InOrder
  <2>1. s[i] # o
    BY DEF Elements
  <2>2. <<s[i], s[j]>> \in Wrong
    BY <1>4, <2>1
  <2> QED BY <2>2 DEF InOrder
<1>11. InOrder(queue', Wrong')
  <2>1. InOrder(queue, Wrong')
    BY <1>1, <1>6, <1>10 DEF OrderInv, TypeOK
  <2>2. Behind(Elements(queue), {o}, Wrong')
    BY <1>4 DEF Behind
  <2> QED BY <1>1, <1>3, <2>1, <2>2, OrderOfQueue DEF TypeOK
<1>12. InOrder(pending', Wrong') /\ InOrder(ledger', Wrong')
  BY <1>1, <1>2, <1>3, <1>10 DEF OrderInv, TypeOK, Waiting, Recorded
<1>13. /\ Behind(Awaited', Elements(pending') \cup Elements(queue'), Wrong')
       /\ Behind(Elements(pending'), Elements(queue'), Wrong')
       /\ Behind(Recorded' \cup Sent', Waiting', Wrong')
  <2>1. /\ Behind(Awaited, Elements(pending) \cup Elements(queue) \cup {o}, Wrong')
        /\ Behind(Elements(pending), Elements(queue) \cup {o}, Wrong')
        /\ Behind(Recorded \cup Sent, Waiting \cup {o}, Wrong')
    BY <1>2, <1>9 DEF OrderInv, Waiting
  <2>2. Waiting' \subseteq Waiting \cup {o}
    BY <1>3, <1>6, <1>7 DEF Waiting
  <2> QED BY <1>3, <1>6, <1>7, <2>1, <2>2 DEF Behind
<1> QED
  BY <1>3, <1>5, <1>8, <1>11, <1>12, <1>13 DEF OrderInv

LEMMA OrderStep == ReportInv /\ OrderInv /\ [Next]_vars => OrderInv'
<1> SUFFICES ASSUME ReportInv, OrderInv, [Next]_vars PROVE OrderInv'
  OBVIOUS
<1>1. TypeOK /\ PhaseInv /\ HeldExactlyOnce /\ PlaceInv /\ RequestInv
  BY DEF ReportInv, PlaceInv, BoundInv
<1>2. \A x \in Outcomes : fate[x] # "running" => fate'[x] # "running"
  BY <1>1, FateStep
<1>3. Elements(finished) \cup Recorded \cup Sent \subseteq Outcomes
  BY <1>1 DEF TypeOK, Elements, Recorded, Sent, Requests
<1>4. ASSUME finished' = finished, failed \subseteq failed' PROVE Wrong' \subseteq Wrong
  BY <1>1, <1>4, WrongStep DEF TypeOK
\* What is left to show of a step that ends no execution.
<1>5. ASSUME finished' = finished, failed \subseteq failed', Recorded' \subseteq Recorded \cup Sent,
             \A r \in wire' : ~r.live => r.outcome \in failed',
             InOrder(queue', Wrong'), InOrder(pending', Wrong'), InOrder(ledger', Wrong'),
             Behind(Awaited', Elements(pending') \cup Elements(queue'), Wrong'),
             Behind(Elements(pending'), Elements(queue'), Wrong'),
             Behind(Recorded' \cup Sent', Waiting', Wrong')
      PROVE  OrderInv'
  <2>1. Distinct(finished') /\ Elements(finished') = Elements(finished)
    BY <1>5 DEF OrderInv
  <2>2. \A x \in Sent : fate[x] # "running"
    BY <1>1 DEF Sent, RequestInv
  <2>3. \A x \in Elements(finished') \cup Recorded' : fate'[x] # "running"
    BY <1>2, <1>3, <1>5, <2>1, <2>2 DEF OrderInv
  <2> QED BY <1>5, <2>1, <2>3 DEF OrderInv
\* The same, if nothing is recorded and nothing new waits.
<1>6. ASSUME finished' = finished, failed \subseteq failed', ledger' = ledger, Sent' \subseteq Sent,
             \A r \in wire' : ~r.live => r.outcome \in failed',
             Waiting' \subseteq Waiting, InOrder(queue', Wrong'), InOrder(pending', Wrong'),
             Behind(Awaited', Elements(pending') \cup Elements(queue'), Wrong'),
             Behind(Elements(pending'), Elements(queue'), Wrong')
      PROVE  OrderInv'
  <2>1. Wrong' \subseteq Wrong /\ Recorded' = Recorded
    BY <1>4, <1>6 DEF Recorded
  <2>2. InOrder(ledger', Wrong')
    BY <1>6, <2>1 DEF OrderInv, InOrder
  <2>3. Behind(Recorded' \cup Sent', Waiting', Wrong')
    BY <1>6, <2>1 DEF OrderInv, Behind
  <2> QED BY <1>5, <1>6, <2>1, <2>2, <2>3
<1>7. ASSUME UNCHANGED <<queue, pending, sending, finished, failed, ledger, wire>> PROVE OrderInv'
  <2>1. Wrong' = Wrong /\ Awaited' = Awaited /\ Sent' = Sent /\ Waiting' = Waiting
    BY <1>7 DEF Wrong, Before, Awaited, Sent, Waiting
  <2> QED BY <1>6, <1>7, <2>1 DEF OrderInv
<1>8. CASE IdleTick \/ Return \/ RotateToken \/ UNCHANGED vars
  BY <1>7, <1>8 DEF IdleTick, Return, RotateToken, vars, taskVars, cpVars, netVars, history
<1>9. ASSUME NEW o \in Outcomes, CloseUnreported(o) PROVE OrderInv'
  BY <1>7, <1>9 DEF CloseUnreported, taskVars, netVars, history
<1>10. CASE Tick
  <2>1. /\ UNCHANGED <<sending, finished, failed, ledger, wire>> /\ pending' = queue /\ queue' = <<>>
        /\ Wrong' \subseteq Wrong
    BY <1>4, <1>10 DEF Tick, cpVars, netVars, history
  <2>2. /\ Elements(queue') = {} /\ Awaited' = Awaited /\ Sent' = Sent /\ Waiting' \subseteq Waiting
        /\ InOrder(queue', Wrong')
    BY <2>1 DEF Elements, Awaited, Sent, Waiting, InOrder
  <2>3. InOrder(pending', Wrong')
    BY <2>1 DEF OrderInv, InOrder
  <2>4. /\ Behind(Awaited', Elements(pending') \cup Elements(queue'), Wrong')
        /\ Behind(Elements(pending'), Elements(queue'), Wrong')
    BY <2>1, <2>2 DEF OrderInv, Behind
  <2>5. \A r \in wire' : ~r.live => r.outcome \in failed'
    BY <2>1 DEF OrderInv
  <2> QED BY <1>6, <2>1, <2>2, <2>3, <2>4, <2>5
<1>11. CASE Post
  <2> DEFINE h == Head(pending)
  <2>1. /\ UNCHANGED <<queue, finished, failed, ledger>> /\ pending # <<>> /\ pending' = Tail(pending)
        /\ sending' = h
        /\ wire' = wire \cup {[outcome |-> h, token |-> heldToken, live |-> TRUE]}
    BY <1>11 DEF Post, cpVars, history
  <2>2. /\ h \in Elements(pending) /\ Elements(pending') = Elements(pending) \ {h}
    BY <1>1, <2>1, TailElements DEF TypeOK, HeldExactlyOnce
  <2>3. h \in Outcomes /\ Wrong' \subseteq Wrong /\ Recorded' = Recorded
    BY <1>1, <1>4, <2>1, <2>2 DEF TypeOK, Elements, Recorded
  <2>4. /\ InOrder(pending', Wrong) /\ Behind({h}, Elements(pending'), Wrong)
    BY <1>1, <2>1, OrderOfParts DEF TypeOK, OrderInv, HeldExactlyOnce
  <2>5. Awaited' = {h} /\ Sent' = Sent \cup {h} /\ Waiting' \subseteq Waiting
    <3>1. Awaited' = {h}
      BY <1>1, <2>1, <2>3 DEF Awaited
    <3>2. PICK req : req.outcome = h /\ wire' = wire \cup {req}
      BY <2>1
    <3>3. Sent' = Sent \cup {h}
      BY <3>2 DEF Sent
    <3> QED BY <2>1, <2>2, <3>1, <3>3 DEF Waiting
  <2> HIDE DEF h
  <2>6. <<h, h>> \notin Wrong
    BY <1>1, <2>3, WrongStep DEF TypeOK, OrderInv
  <2>7. Behind({h}, Waiting', Wrong)
    BY <2>1, <2>2, <2>4, <2>5, <2>6 DEF OrderInv, Behind, Waiting
  <2>8. /\ Behind(Awaited', Elements(pending') \cup Elements(queue'), Wrong')
        /\ Behind(Elements(pending'), Elements(queue'), Wrong')
    BY <2>1, <2>2, <2>3, <2>5, <2>7 DEF OrderInv, Behind, Waiting
  <2>9. Behind(Recorded' \cup Sent', Waiting', Wrong')
    BY <2>3, <2>5, <2>7 DEF OrderInv, Behind
  <2>10. InOrder(queue', Wrong') /\ InOrder(pending', Wrong') /\ InOrder(ledger', Wrong')
    BY <2>1, <2>3, <2>4 DEF OrderInv, InOrder
  <2>11. \A r \in wire' : ~r.live => r.outcome \in failed'
    BY <2>1 DEF OrderInv
  <2> QED BY <1>5, <2>1, <2>3, <2>8, <2>9, <2>10, <2>11
<1>12. ASSUME NEW status \in Statuses, NEW how \in {"acked", "refused"}, Settle(status, how)
       PROVE  OrderInv'
  <2>1. /\ UNCHANGED <<queue, pending, finished, failed, ledger, wire>> /\ sending' = None
        /\ Wrong' \subseteq Wrong
    BY <1>4, <1>12 DEF Settle, cpVars
  <2>2. Awaited' = {} /\ Sent' = Sent /\ Waiting' \subseteq Waiting
    BY <2>1 DEF Awaited, Sent, Waiting
  <2>3. InOrder(queue', Wrong') /\ InOrder(pending', Wrong')
    BY <2>1 DEF OrderInv, InOrder
  <2>4. /\ Behind(Awaited', Elements(pending') \cup Elements(queue'), Wrong')
        /\ Behind(Elements(pending'), Elements(queue'), Wrong')
    BY <2>1, <2>2 DEF OrderInv, Behind
  <2>5. \A r \in wire' : ~r.live => r.outcome \in failed'
    BY <2>1 DEF OrderInv
  <2> QED BY <1>6, <2>1, <2>2, <2>3, <2>4, <2>5
<1>13. CASE RequeueFailed
  <2>1. /\ UNCHANGED <<pending, finished, ledger>> /\ queue' = RequeueFront(queue, sending)
        /\ failed' = failed \cup {sending} /\ wire' \in {Dead, Abandoned} /\ phase = "await"
        /\ sending' = None
    BY <1>13 DEF RequeueFailed, cpVars
  <2>2. sending \in Outcomes /\ Awaited = {sending} /\ Awaited' = {} /\ Wrong' \subseteq Wrong
    BY <1>1, <1>4, <2>1 DEF TypeOK, PhaseInv, Awaited
  <2>3. Distinct(queue) /\ sending \notin Elements(queue)
    BY <1>1, <2>2 DEF HeldExactlyOnce
  <2>4. Elements(queue') \subseteq Elements(queue) \cup {sending}
    BY <1>1, <2>1, <2>2, <2>3, RequeueElements DEF TypeOK
  <2>5. Waiting' \subseteq Waiting
    BY <2>1, <2>2, <2>4 DEF Waiting
  <2>6. Sent' \subseteq Sent /\ \A r \in wire' : ~r.live => r.outcome \in failed'
    <3>1. \A r \in wire' : \E q \in wire : q.outcome = r.outcome
      BY <1>1, <2>1 DEF Dead, Abandoned, TypeOK, Requests
    <3>2. \A q \in wire : q.outcome \in failed'
      BY <1>1, <2>1 DEF OrderInv, RequestInv
    <3> QED BY <3>1, <3>2 DEF Sent
  <2>7. InOrder(queue', Wrong')
    <3>1. InOrder(queue, Wrong') /\ Behind({sending}, Elements(queue), Wrong')
      BY <2>2 DEF OrderInv, InOrder, Behind
    <3> QED BY <1>1, <2>1, <2>2, <3>1, OrderOfQueue DEF TypeOK
  <2>8. InOrder(pending', Wrong')
    BY <2>1, <2>2 DEF OrderInv, InOrder
  <2>9. Behind(Elements(pending'), Elements(queue'), Wrong')
    <3>1. \A x : <<x, sending>> \notin Wrong'
      BY <2>1 DEF Wrong
    <3>2. Behind(Elements(pending), Elements(queue), Wrong')
      BY <2>2 DEF OrderInv, Behind
    <3> QED BY <2>1, <2>4, <3>1, <3>2 DEF Behind
  <2>10. Behind(Awaited', Elements(pending') \cup Elements(queue'), Wrong')
    BY <2>2 DEF Behind
  <2>11. failed \subseteq failed'
    BY <2>1
  <2> QED BY <1>6, <2>1, <2>5, <2>6, <2>7, <2>8, <2>9, <2>10, <2>11
<1>14. CASE RequeueLeft
  <2> DEFINE l == Last(pending)
  <2>1. /\ UNCHANGED <<sending, finished, failed, ledger, wire>> /\ queue' = RequeueFront(queue, l)
        /\ pending # <<>> /\ pending' = Front(pending)
    BY <1>14 DEF RequeueLeft, cpVars, netVars
  <2>2. l \in Elements(pending) /\ Elements(pending') = Elements(pending) \ {l}
    BY <1>1, <2>1, FrontElements DEF TypeOK, HeldExactlyOnce
  <2>3. /\ l \in Outcomes /\ l \notin Elements(queue) /\ Distinct(queue)
        /\ Wrong' \subseteq Wrong /\ Awaited' = Awaited /\ Sent' = Sent
    <3> l \in Outcomes
      BY <1>1, <2>1, FrontLast DEF TypeOK
    <3> HIDE DEF l
    <3>1. l \notin Elements(queue) /\ Distinct(queue)
      BY <1>1, <2>2 DEF HeldExactlyOnce
    <3>2. Awaited' = Awaited /\ Sent' = Sent
      BY <2>1 DEF Awaited, Sent
    <3> QED BY <1>4, <2>1, <3>1, <3>2
  <2>4. /\ InOrder(pending', Wrong) /\ Behind(Elements(pending'), {l}, Wrong)
    BY <1>1, <2>1, OrderOfParts DEF TypeOK, OrderInv, HeldExactlyOnce
  <2> HIDE DEF l
  <2>5. Elements(queue') \subseteq Elements(queue) \cup {l}
    BY <1>1, <2>1, <2>3, RequeueElements DEF TypeOK
  <2>6. InOrder(queue', Wrong')
    <3>1. InOrder(queue, Wrong') /\ Behind({l}, Elements(queue), Wrong')
      BY <2>2, <2>3 DEF OrderInv, InOrder, Behind
    <3> QED BY <1>1, <2>1, <2>3, <3>1, OrderOfQueue DEF TypeOK
  <2>7. InOrder(pending', Wrong')
    BY <2>3, <2>4 DEF InOrder
  <2>8. Behind(Elements(pending'), Elements(queue'), Wrong')
    BY <2>2, <2>3, <2>4, <2>5 DEF OrderInv, Behind
  <2>9. Behind(Awaited', Elements(pending') \cup Elements(queue'), Wrong')
    BY <2>2, <2>3, <2>5 DEF OrderInv, Behind
  <2>10. Waiting' \subseteq Waiting
    BY <2>2, <2>3, <2>5 DEF Waiting
  <2>11. \A r \in wire' : ~r.live => r.outcome \in failed'
    BY <2>1 DEF OrderInv
  <2> QED BY <1>6, <2>1, <2>3, <2>6, <2>7, <2>8, <2>9, <2>10, <2>11
<1>15. CASE Restart
  <2>1. /\ UNCHANGED <<finished, ledger>> /\ queue' = <<>> /\ pending' = <<>> /\ sending' = None
        /\ wire' = Abandoned /\ failed' = failed \cup ({sending} \ {None})
    BY <1>15 DEF Restart, cpVars
  <2>2. /\ Elements(queue') = {} /\ Elements(pending') = {} /\ Awaited' = {} /\ Waiting' = {}
    BY <2>1 DEF Elements, Awaited, Waiting
  <2>3. InOrder(queue', Wrong') /\ InOrder(pending', Wrong')
    BY <2>1 DEF InOrder
  <2>4. /\ Behind(Awaited', Elements(pending') \cup Elements(queue'), Wrong')
        /\ Behind(Elements(pending'), Elements(queue'), Wrong')
    BY <2>2 DEF Behind
  <2>5. Sent' \subseteq Sent /\ \A r \in wire' : ~r.live => r.outcome \in failed'
    <3>1. \A r \in wire' : \E q \in wire : q.outcome = r.outcome
      BY <1>1, <2>1 DEF Abandoned, TypeOK, Requests
    <3>2. \A q \in wire : q.outcome \in failed'
      BY <1>1, <2>1 DEF OrderInv, RequestInv, PhaseInv
    <3> QED BY <3>1, <3>2 DEF Sent
  <2>6. failed \subseteq failed' /\ Waiting' \subseteq Waiting
    BY <2>1, <2>2
  <2> QED BY <1>6, <2>1, <2>3, <2>4, <2>5, <2>6
<1>16. ASSUME NEW r \in wire, Arrive(r) PROVE OrderInv'
  <2>1. /\ UNCHANGED <<queue, pending, sending, finished, failed>> /\ wire' = wire \ {r}
    BY <1>16 DEF Arrive, taskVars
  <2>2. /\ Wrong' = Wrong /\ Awaited' = Awaited /\ Waiting' = Waiting
        /\ Sent' \subseteq Sent
    BY <2>1 DEF Wrong, Before, Awaited, Waiting, Sent
  <2>3. r.outcome \in Sent /\ Recorded' \subseteq Recorded \cup {r.outcome}
    BY <1>1, <1>16, RecordedStep DEF Sent
  <2>4. InOrder(ledger', Wrong')
    <3>1. CASE ledger' = ledger
      BY <2>2, <3>1 DEF OrderInv
    <3>2. CASE ledger' = Append(ledger, r.outcome)
      <4>1. CASE r.live
        <5>1. r.outcome \in Waiting
          BY <1>1, <4>1 DEF RequestInv, PhaseInv, Waiting, Awaited
        <5> QED BY <1>1, <1>3, <2>2, <2>3, <3>2, <5>1, OrderOfAppend
                DEF TypeOK, OrderInv, Behind, Recorded
      <4>2. CASE ~r.live
        <5>1. \A x : <<x, r.outcome>> \notin Wrong
          BY <4>2 DEF OrderInv, Wrong
        <5> QED BY <1>1, <1>3, <2>2, <2>3, <3>2, <5>1, OrderOfAppend
                DEF TypeOK, OrderInv, Behind
      <4> QED BY <4>1, <4>2
    <3> QED BY <1>16, <3>1, <3>2 DEF Arrive, Record, Refuse, ServerError
  <2>5. Behind(Recorded' \cup Sent', Waiting', Wrong')
    BY <2>2, <2>3 DEF OrderInv, Behind
  <2>6. /\ InOrder(queue', Wrong') /\ InOrder(pending', Wrong')
        /\ Behind(Awaited', Elements(pending') \cup Elements(queue'), Wrong')
        /\ Behind(Elements(pending'), Elements(queue'), Wrong')
    BY <2>1, <2>2 DEF OrderInv
  <2>7. \A q \in wire' : ~q.live => q.outcome \in failed'
    BY <2>1 DEF OrderInv
  <2> QED BY <1>5, <2>1, <2>3, <2>4, <2>5, <2>6, <2>7
<1> QED
  BY OrderPush, <1>8, <1>9, <1>10, <1>11, <1>12, <1>13, <1>14, <1>15, <1>16
     DEF Next, Deliver, ReportExit, ReportRefusal, Delivered, Refused, Statuses

\* However deliveries fail, retry and interleave with new outcomes, and whatever arrives late,
\* an outcome none of whose posts failed is in the ledger before every younger one.
THEOREM OnlyFailedFallBehind == Spec => []OnlyFailedAreOvertaken
<1>1. Init => ReportInv /\ OrderInv
  BY BoundInit, PlaceInit, ReportInit, OrderInit DEF PlaceInv, ReportInv
<1>2. ReportInv /\ OrderInv /\ [Next]_vars => ReportInv' /\ OrderInv'
  BY BoundStep, PlaceStep, ReportStep, OrderStep DEF PlaceInv, ReportInv
<1>3. ReportInv /\ OrderInv => OnlyFailedAreOvertaken
  <2> SUFFICES ASSUME ReportInv, OrderInv, NEW i \in DOMAIN ledger, NEW j \in DOMAIN ledger,
                      i < j, Before(ledger[j], ledger[i])
               PROVE  ledger[j] \in failed
    BY DEF OnlyFailedAreOvertaken
  <2>1. ledger[i] \in Outcomes /\ ledger[j] \in Outcomes
    BY DEF ReportInv, PlaceInv, BoundInv, TypeOK
  <2>2. <<ledger[i], ledger[j]>> \notin Wrong
    BY DEF OrderInv, InOrder
  <2> QED BY <2>1, <2>2 DEF Wrong
<1> QED BY <1>1, <1>2, <1>3, PTL DEF Spec

=============================================================================
