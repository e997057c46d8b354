--------------------------- MODULE OutcomeDelivery ---------------------------
(***************************************************************************)
(* How a node tells the control plane what a command grant did.            *)
(*                                                                         *)
(* SSH channels push outcomes on an in-memory bounded queue                *)
(* (agent-core/src/exec_outcome.rs); one background task of the daemon     *)
(* (agent-daemon/src/up.rs, spawn_outcome_delivery) drains it every ten    *)
(* seconds and posts the outcomes one by one                               *)
(* (agent-core/src/adapters.rs, deliver_outcomes).  The control plane and  *)
(* the network between are external: they are modelled from what the       *)
(* client code does with their answers.                                    *)
(***************************************************************************)
EXTENDS Integers, Sequences, SequencesExt

CONSTANTS
    Outcomes,     \* the executions that end, one outcome each
    MaxQueued,    \* exec_outcome.rs MAX_QUEUED
    MaxRotations, \* bound: service token renewals
    MaxFailures,  \* bound: failed attempts (lost, timed out, 5xx)
    MaxRestarts,  \* bound: daemon crashes
    None          \* no outcome, no answer

ASSUME MaxQueuedAssumption == MaxQueued \in Nat \ {0}
ASSUME BoundsAssumption ==
    MaxRotations \in Nat /\ MaxFailures \in Nat /\ MaxRestarts \in Nat
ASSUME NoneAssumption == None \notin Outcomes \cup {"2xx", "4xx", "5xx"}

VARIABLES
    queue,      \* OutcomeQueue.inner, oldest first
    pending,    \* local `pending` of the deliver_outcomes call under way
    sending,    \* local `outcome`: the one whose post is awaited
    phase,      \* where the delivery task is
    heldToken,  \* the token spawn_outcome_delivery captured at startup
    validToken, \* the token the control plane accepts
    closed,     \* grants the control plane has closed
    ledger,     \* outcomes the control plane recorded, in that order
    wire,       \* requests under way; "live" is the one the task awaits
    answer,     \* status that came back for the live request
    finished,   \* history: outcomes in the order they were pushed
    failed,     \* history: outcomes one of whose posts failed
    fate,       \* history: what became of each outcome on the node
    failures, restarts

taskVars == <<queue, pending, sending, phase, heldToken>>
cpVars   == <<validToken, closed, ledger>>
netVars  == <<wire, answer>>
history  == <<finished, failed, fate, failures, restarts>>
vars     == <<taskVars, cpVars, netVars, history>>

Tokens   == 0..MaxRotations
Phases   == {"idle", "loop", "await", "requeue"}
Statuses == {"2xx", "4xx", "5xx"}
Requests == [outcome : Outcomes, token : Tokens, live : BOOLEAN]

\* "evicted" is an overflow the node reports, "forgotten" one it does not.
Fates == {"running", "held", "acked", "refused", "evicted", "forgotten", "crashed"}

TypeOK ==
    /\ queue \in Seq(Outcomes) /\ pending \in Seq(Outcomes)
    /\ sending \in Outcomes \cup {None}
    /\ phase \in Phases
    /\ heldToken \in Tokens /\ validToken \in Tokens
    /\ closed \subseteq Outcomes
    /\ ledger \in Seq(Outcomes)
    /\ wire \subseteq Requests
    /\ answer \in Statuses \cup {None}
    /\ finished \in Seq(Outcomes) /\ failed \subseteq Outcomes
    /\ fate \in [Outcomes -> Fates]
    /\ failures \in 0..MaxFailures /\ restarts \in 0..MaxRestarts

Init ==
    /\ queue = <<>> /\ pending = <<>> /\ sending = None /\ phase = "idle"
    /\ heldToken = 0 /\ validToken = 0
    /\ closed = {} /\ ledger = <<>>
    /\ wire = {} /\ answer = None
    /\ finished = <<>> /\ failed = {}
    /\ fate = [o \in Outcomes |-> "running"]
    /\ failures = 0 /\ restarts = 0

-----------------------------------------------------------------------------
(* The queue (exec_outcome.rs). *)

Full(q) == Len(q) >= MaxQueued

\* OutcomeQueue::push: a full queue loses its front.
Push(q, o) == Append(IF Full(q) THEN Tail(q) ELSE q, o)

\* Mistaken variant: requeue_front without the capacity check.
RequeueFrontUnbounded(q, o) == <<o>> \o q

\* OutcomeQueue::requeue_front: a full queue loses its BACK.
RequeueFront(q, o) == <<o>> \o (IF Full(q) THEN Front(q) ELSE q)

\* fate once `o` is pushed on a full or not full queue; `loss` is what the
\* caller of push makes of its return value.
FateAfterPush(o, loss) ==
    [x \in Outcomes |->
        IF x = o THEN "held"
        ELSE IF Full(queue) /\ x = Head(queue) THEN loss
        ELSE fate[x]]

FateAfterRequeue ==
    [x \in Outcomes |->
        IF Full(queue) /\ x = Last(queue) THEN "forgotten" ELSE fate[x]]

-----------------------------------------------------------------------------
(* SSH channels (ssh_server.rs). *)

PushOutcome(o, loss) ==
    /\ fate[o] = "running"
    /\ queue' = Push(queue, o)
    /\ fate' = FateAfterPush(o, loss)
    /\ finished' = Append(finished, o)
    /\ UNCHANGED <<pending, sending, phase, heldToken, cpVars, netVars,
                   failed, failures, restarts>>

\* spawn_exec: the child was waited for; a dropped outcome is printed.
ReportExit(o) == PushOutcome(o, "evicted")

\* exec_under_command_grant: the command was refused; push's answer is unused.
ReportRefusal(o) == PushOutcome(o, "forgotten")

-----------------------------------------------------------------------------
(* The delivery task (up.rs spawn_outcome_delivery, adapters.rs            *)
(* deliver_outcomes).                                                      *)

\* A tick that finds nothing to deliver: the loop continues.
IdleTick == phase = "idle" /\ queue = <<>> /\ UNCHANGED vars

\* Mistaken variant: the queue is copied, not drained.
TickCopies ==
    /\ phase = "idle" /\ queue # <<>>
    /\ pending' = queue /\ phase' = "loop"
    /\ UNCHANGED <<queue, sending, heldToken, cpVars, netVars, history>>

\* A tick that drains the queue.
Tick ==
    /\ phase = "idle" /\ queue # <<>>
    /\ pending' = queue /\ queue' = <<>> /\ phase' = "loop"
    /\ UNCHANGED <<sending, heldToken, cpVars, netVars, history>>

\* Mistaken variant: pending.pop().
PostYoungest ==
    /\ phase = "loop" /\ pending # <<>>
    /\ sending' = Last(pending) /\ pending' = Front(pending)
    /\ wire' = wire \cup {[outcome |-> sending', token |-> heldToken, live |-> TRUE]}
    /\ phase' = "await"
    /\ UNCHANGED <<queue, heldToken, cpVars, answer, history>>

\* pending.remove(0) and the post of it, under the captured token.
Post ==
    /\ phase = "loop" /\ pending # <<>>
    /\ sending' = Head(pending) /\ pending' = Tail(pending)
    /\ wire' = wire \cup {[outcome |-> sending', token |-> heldToken, live |-> TRUE]}
    /\ phase' = "await"
    /\ UNCHANGED <<queue, heldToken, cpVars, answer, history>>

\* Mistaken variant: any answer settles the outcome.
SettleOnAnyAnswer(status, how) ==
    /\ phase = "await" /\ answer \in {status, "5xx"}
    /\ fate' = [fate EXCEPT ![sending] = how]
    /\ sending' = None /\ answer' = None /\ phase' = "loop"
    /\ UNCHANGED <<queue, pending, heldToken, cpVars, wire,
                   finished, failed, failures, restarts>>

\* A success or a client error settles the outcome; the loop goes on.
Settle(status, how) ==
    /\ phase = "await" /\ answer = status
    /\ fate' = [fate EXCEPT ![sending] = how]
    /\ sending' = None /\ answer' = None /\ phase' = "loop"
    /\ UNCHANGED <<queue, pending, heldToken, cpVars, wire,
                   finished, failed, failures, restarts>>

Delivered == Settle("2xx", "acked")

\* Mistaken variant: a refusal counts as delivered.
RefusedCounts == Settle("4xx", "acked")

Refused   == Settle("4xx", "refused")

\* No request is awaited any more: the live one is gone or only late.
Abandoned == {[r EXCEPT !.live = FALSE] : r \in wire}
Dead      == {r \in wire : ~r.live}

\* The failed outcome goes back to the front first.  `heard` tells a 5xx from
\* a transport error or a timeout, after which the request may still arrive.
RequeueFailed ==
    /\ phase = "await"
    /\ \/ answer = "5xx" /\ wire' = Dead /\ UNCHANGED failures
       \/ /\ answer \in {None, "2xx", "4xx"} /\ failures < MaxFailures
          /\ wire' \in {Dead, Abandoned}
          /\ failures' = failures + 1
    /\ queue' = RequeueFront(queue, sending)
    /\ fate' = FateAfterRequeue
    /\ failed' = failed \cup {sending}
    /\ sending' = None /\ answer' = None /\ phase' = "requeue"
    /\ UNCHANGED <<pending, heldToken, cpVars, finished, restarts>>

\* `for left in pending.into_iter().rev()`: one lock of the queue each.
RequeueLeft ==
    /\ phase = "requeue" /\ pending # <<>>
    /\ queue' = RequeueFront(queue, Last(pending))
    /\ pending' = Front(pending)
    /\ fate' = FateAfterRequeue
    /\ UNCHANGED <<sending, phase, heldToken, cpVars, netVars,
                   finished, failed, failures, restarts>>

\* Mistaken variant: the task never leaves the requeue loop.
ReturnFromLoop ==
    /\ phase = "loop" /\ pending = <<>>
    /\ phase' = "idle"
    /\ UNCHANGED <<queue, pending, sending, heldToken, cpVars, netVars, history>>

\* deliver_outcomes returns, from the loop or after the requeues.
Return ==
    /\ phase \in {"loop", "requeue"} /\ pending = <<>>
    /\ phase' = "idle"
    /\ UNCHANGED <<queue, pending, sending, heldToken, cpVars, netVars, history>>

-----------------------------------------------------------------------------
(* The control plane and the daemon's life (external). *)

Answer(r, status) == answer' = IF r.live THEN status ELSE answer

\* A report under the current token of a grant still open is recorded.
Record(r) ==
    /\ r.token = validToken /\ r.outcome \notin closed
    /\ ledger' = Append(ledger, r.outcome)
    /\ closed' = closed \cup {r.outcome}
    /\ Answer(r, "2xx")
    /\ UNCHANGED failures

\* Refused: the token is not the current one, or the grant is closed.
Refuse(r) ==
    /\ r.token # validToken \/ r.outcome \in closed
    /\ Answer(r, "4xx")
    /\ UNCHANGED <<ledger, closed, failures>>

\* A server error: nothing is recorded.
ServerError(r) ==
    /\ r.live /\ failures < MaxFailures
    /\ failures' = failures + 1
    /\ Answer(r, "5xx")
    /\ UNCHANGED <<ledger, closed>>

Arrive(r) ==
    /\ r \in wire /\ wire' = wire \ {r}
    /\ Record(r) \/ Refuse(r) \/ ServerError(r)
    /\ UNCHANGED <<taskVars, validToken, finished, failed, fate, restarts>>

\* The grant expires without a report: closed as outcome_unreported.
CloseUnreported(o) ==
    /\ o \notin closed /\ closed' = closed \cup {o}
    /\ UNCHANGED <<taskVars, validToken, ledger, netVars, history>>

\* spawn_token_renewal rotates the node's token; the old one stops working
\* at once, and the delivery task keeps the one it captured.
RotateToken ==
    /\ validToken < MaxRotations /\ validToken' = validToken + 1
    /\ UNCHANGED <<taskVars, closed, ledger, netVars, history>>

\* The daemon dies and starts again: the queue was only in memory, the token
\* is captured anew, requests already sent may still arrive.
Restart ==
    /\ restarts < MaxRestarts /\ restarts' = restarts + 1
    /\ queue' = <<>> /\ pending' = <<>> /\ sending' = None /\ phase' = "idle"
    /\ heldToken' = validToken
    /\ wire' = Abandoned /\ answer' = None
    /\ failed' = failed \cup ({sending} \ {None})
    /\ fate' = [o \in Outcomes |-> IF fate[o] = "held" THEN "crashed" ELSE fate[o]]
    /\ UNCHANGED <<cpVars, finished, failures>>

-----------------------------------------------------------------------------
Deliver == Tick \/ Post \/ Delivered \/ Refused \/ RequeueFailed \/ RequeueLeft \/ Return

Next ==
    \/ \E o \in Outcomes : ReportExit(o) \/ ReportRefusal(o) \/ CloseUnreported(o)
    \/ IdleTick
    \/ Deliver
    \/ \E r \in wire : Arrive(r)
    \/ RotateToken
    \/ Restart

Spec == Init /\ [][Next]_vars

\* The tokio interval fires, an awaited post ends (answer or timeout), and the
\* control plane answers what reaches it.
Fairness ==
    /\ WF_vars(Tick) /\ WF_vars(Post) /\ WF_vars(Delivered) /\ WF_vars(Refused)
    /\ WF_vars(answer = "5xx" /\ RequeueFailed)
    /\ WF_vars(RequeueLeft) /\ WF_vars(Return)
    /\ WF_vars(\E r \in wire : r.live /\ Arrive(r))

FairSpec == Spec /\ Fairness

-----------------------------------------------------------------------------
(* Properties. *)

Elements(s)  == {s[i] : i \in DOMAIN s}
Distinct(s)  == \A i, j \in DOMAIN s : s[i] = s[j] => i = j
Awaited      == {sending} \ {None}
Held         == {o \in Outcomes : fate[o] = "held"}

\* a ended before b did.
Before(a, b) ==
    \E i, j \in DOMAIN finished : i < j /\ finished[i] = a /\ finished[j] = b

\* Draining, posting, requeueing and pushing from other threads in between
\* neither lose nor double an outcome: each one not settled is in exactly one
\* place, and nothing else is there.
HeldExactlyOnce ==
    /\ Elements(queue) \cup Elements(pending) \cup Awaited = Held
    /\ Distinct(queue) /\ Distinct(pending)
    /\ Elements(queue) \cap Elements(pending) = {}
    /\ Awaited \cap (Elements(queue) \cup Elements(pending)) = {}

\* A control plane that does not answer costs the node at most two queues of
\* memory (MAX_QUEUED: "an unbounded queue turns a control-plane outage into
\* a node memory leak"): the queue and what one delivery took out of it.
BoundedMemory ==
    /\ Len(queue) <= MaxQueued
    /\ Len(pending) + (IF sending = None THEN 0 ELSE 1) <= MaxQueued

\* The node drops its copy as delivered only when the ledger has the outcome,
\* whatever requests were lost, late or repeated.
AckedIsRecorded ==
    \A o \in Outcomes : fate[o] = "acked" => o \in Elements(ledger)

\* However deliveries fail, retry and interleave with new outcomes, the only
\* outcomes the ledger shows after a younger one are those one of whose own
\* posts failed.
OnlyFailedAreOvertaken ==
    \A i, j \in DOMAIN ledger :
        i < j /\ Before(ledger[j], ledger[i]) => ledger[j] \in failed

\* Once the control plane answers again, every outcome leaves the node.
EverySettled == \A o \in Outcomes : fate[o] = "held" ~> fate[o] # "held"

\* The node keeps the promise of OutcomeReporting.
Acked    == {o \in Outcomes : fate[o] = "acked"}
Gone     == {o \in Outcomes : fate[o] \in {"refused", "evicted", "forgotten", "crashed"}}
Recorded == Elements(ledger)

Promise == INSTANCE OutcomeReporting WITH
    held <- Held, acked <- Acked, gone <- Gone, recorded <- Recorded

\* OutcomeDelivery implements OutcomeReporting.
KeepsPromise == Promise!Spec

-----------------------------------------------------------------------------
(* What the documentation says of the code. *)

\* adapters.rs, deliver_outcomes: "an operator reading it should see the
\* outcomes in the order they happened rather than in the order the network
\* recovered".  A failed outcome ends up behind the rest of its batch.
LedgerInOrder ==
    \A i, j \in DOMAIN ledger : i < j => ~Before(ledger[j], ledger[i])
=============================================================================
