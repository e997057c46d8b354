--------------------------- MODULE OutcomeReporting ---------------------------
(***************************************************************************)
(* What outcome reporting promises, whatever the queue, the network and    *)
(* the retries do: an outcome the node holds is acknowledged only once the *)
(* control plane recorded it, the ledger has it at most once, and one the  *)
(* node let go of (overflow, refusal, restart) never comes back, although  *)
(* a report of it that is already under way may still be recorded.         *)
(***************************************************************************)
CONSTANT Outcomes

VARIABLES
    held,     \* outcomes the node still has to report
    acked,    \* outcomes the node was told are recorded
    gone,     \* outcomes the node let go of without being told so
    recorded  \* outcomes in the ledger

vars == <<held, acked, gone, recorded>>

Init == held = {} /\ acked = {} /\ gone = {} /\ recorded = {}

\* An execution ends; holding its outcome may cost the node others.
Finish(o, dropped) ==
    /\ o \notin held \cup acked \cup gone
    /\ held' = (held \ dropped) \cup {o}
    /\ gone' = gone \cup dropped
    /\ UNCHANGED <<acked, recorded>>

Record(o) ==
    /\ o \in held \cup gone /\ o \notin recorded
    /\ recorded' = recorded \cup {o}
    /\ UNCHANGED <<held, acked, gone>>

Acknowledge(o) ==
    /\ o \in held /\ o \in recorded
    /\ held' = held \ {o} /\ acked' = acked \cup {o}
    /\ UNCHANGED <<gone, recorded>>

LetGo(dropped) ==
    /\ held' = held \ dropped /\ gone' = gone \cup dropped
    /\ UNCHANGED <<acked, recorded>>

Next ==
    \/ \E o \in Outcomes : Record(o) \/ Acknowledge(o)
    \/ \E o \in Outcomes, dropped \in SUBSET held : Finish(o, dropped)
    \/ \E dropped \in SUBSET held : LetGo(dropped)

Spec == Init /\ [][Next]_vars
=============================================================================
