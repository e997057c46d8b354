------------------------------ MODULE TunnelDns ------------------------------
(***************************************************************************)
(* Names asked inside the tunnel (agent-core/src/dns.rs, the transmit loop *)
(* of pump.rs, agent-ios-ptp/src/lib.rs).  On iOS every query of the       *)
(* device enters the tunnel: a name of the mesh is answered on the spot,   *)
(* any other is parked under a token and relayed by a thread of its own.   *)
(* A query that is never answered makes the system drop the resolver.      *)
(***************************************************************************)
EXTENDS Integers

CONSTANTS
    Queries,     \* packets on the tunnel, one answer each
    Unreadable,  \* those whose question cannot be read
    Window       \* tokens a parked query survives (256 in the code)

VARIABLES
    pump,       \* the transmit loop: off, running
    forward,    \* the responder relays names it does not own
    upstreams,  \* DNS_UPSTREAMS, set once: unset, none, some
    tokens,      \* DNS_TOKEN, the last one given out
    parked,     \* DNS_PENDING, per query its token (0: not parked)
    relay,      \* per query, the thread of the platform hook: none, unbound, pinned, waiting
    answer      \* per query: idle, asked, how it was answered (Answers), or how it was
                \* not: silence, unwritten, reaped, stopped

vars == <<pump, forward, upstreams, tokens, parked, relay, answer>>

Init ==
    /\ pump = "off" /\ forward = FALSE /\ upstreams = "unset" /\ tokens = 0
    /\ parked = [q \in Queries |-> 0]
    /\ relay = [q \in Queries |-> "none"]
    /\ answer = [q \in Queries |-> "idle"]

-----------------------------------------------------------------------------
(* The process of the extension. *)

\* DNS_UPSTREAMS keeps what it was set to first.
SetUpstreams(some) == upstreams' = IF upstreams # "unset" THEN upstreams ELSE IF some THEN "some" ELSE "none"

\* A start reads the configuration; the upstreams of the first one whose configuration
\* can be read stay, though its port could not be bound.
Start ==
    /\ pump = "off"
    /\ \E some \in BOOLEAN, bound \in BOOLEAN :
        /\ SetUpstreams(some)
        /\ pump' = IF bound THEN "running" ELSE "off"
        /\ forward' = IF bound THEN some ELSE forward
    /\ UNCHANGED <<tokens, parked, relay, answer>>

\* Stopping the tunnel frees the handle; its threads end with the process.
Stop ==
    /\ pump = "running" /\ pump' = "off" /\ forward' = FALSE /\ upstreams' = "unset" /\ tokens' = 0
    /\ parked' = [q \in Queries |-> 0] /\ relay' = [q \in Queries |-> "none"]
    /\ answer' = [q \in Queries |-> IF answer[q] = "asked" THEN "stopped" ELSE answer[q]]

-----------------------------------------------------------------------------
(* The transmit loop. *)

Old(p) == parked[p] # 0 /\ parked[p] < tokens + 1 - Window

\* dns_forward: one more query is parked, and those the window has left behind are
\* reaped without an answer; then the hook is called.
Park(q, ends, thread) ==
    /\ tokens' = tokens + 1
    /\ parked' = [p \in Queries |->
           IF p = q THEN (IF ends = "asked" THEN tokens' ELSE 0) ELSE IF Old(p) THEN 0 ELSE parked[p]]
    /\ answer' = [p \in Queries |-> IF p = q THEN ends ELSE IF Old(p) THEN "reaped" ELSE answer[p]]
    /\ relay' = [relay EXCEPT ![q] = thread]

\* parse_qname: the question, if it can be read.
Readable(q) == q \notin Unreadable

\* What becomes of a reply: the write of it to the tunnel may fail, which is logged.
Written(what) == IF what = "silence" THEN {what} ELSE {what, "unwritten"}

\* What becomes of the query a relay thread has a reply for: one that is no longer parked
\* stays as it is.
Replied(q, what) == IF parked[q] = 0 THEN {answer[q]} ELSE Written(what)

\* A failure is built from the question: none if that cannot be read.
Servfail(q) == IF Readable(q) THEN "servfail" ELSE "silence"

\* respond: the table has the name or it has not; nothing is said to what cannot be read.
Responses(q) == IF Readable(q) THEN {"own", "nosuch"} ELSE {"silence"}

\* A name of the table, or any name where nothing is relayed: answered here.
AnswerHere(q) ==
    \E response \in Responses(q) :
        /\ forward => response = "own"
        /\ \E a \in Written(response) : answer' = [answer EXCEPT ![q] = a]
        /\ UNCHANGED <<tokens, parked, relay>>

\* The hook starts a thread; with no upstream it fails the query at once.
Forward(q) ==
    IF upstreams = "some" THEN Park(q, "asked", "unbound")
    ELSE \E a \in Written(Servfail(q)) : Park(q, a, "none")

\* A packet for the responder's address, port 53.
Ask(q) ==
    /\ pump = "running" /\ answer[q] = "idle"
    /\ AnswerHere(q) \/ (forward /\ Forward(q))
    /\ UNCHANGED <<pump, forward, upstreams>>

-----------------------------------------------------------------------------
(* The thread that relays one query. *)

Unpark(q) == parked' = [parked EXCEPT ![q] = 0]

\* Mistaken variant: a failed round trip only ends the thread.
FailSilently(q) ==
    /\ relay' = [relay EXCEPT ![q] = "none"] /\ UNCHANGED <<parked, answer>>

\* dns_fail: the request is taken back and answered with a failure.
Fail(q) ==
    /\ relay' = [relay EXCEPT ![q] = "none"]
    /\ Unpark(q) /\ \E a \in Replied(q, Servfail(q)) : answer' = [answer EXCEPT ![q] = a]

\* bind_socket_to_interface, for the second try of a query.
Pin(q) == relay[q] = "unbound" /\ relay' = [relay EXCEPT ![q] = "pinned"]

\* To all upstreams from one socket, not bound to an interface; if none takes it, once
\* more bound to the interface the system named.
Relay(q) ==
    /\ relay[q] \in {"unbound", "pinned"}
    /\ \/ relay' = [relay EXCEPT ![q] = "waiting"] /\ UNCHANGED <<parked, answer>>
       \/ Pin(q) /\ UNCHANGED <<parked, answer>>
       \/ relay[q] = "pinned" /\ Fail(q)
    /\ UNCHANGED <<pump, forward, upstreams, tokens>>

\* The first answer that names the query and comes from an upstream; others are passed
\* over until the deadline.
RelayEnds(q) ==
    /\ relay[q] = "waiting"
    /\ \/ /\ relay' = [relay EXCEPT ![q] = "none"]
          /\ Unpark(q) /\ \E a \in Replied(q, "upstream") : answer' = [answer EXCEPT ![q] = a]
       \/ Fail(q)
    /\ UNCHANGED <<pump, forward, upstreams, tokens>>

Next ==
    \/ Start \/ Stop
    \/ \E q \in Queries : Ask(q) \/ Relay(q) \/ RelayEnds(q)

\* Each relay thread runs, and its receive has a timeout.
Fairness == \A q \in Queries : WF_vars(Relay(q)) /\ WF_vars(RelayEnds(q))

Spec == Init /\ [][Next]_vars /\ Fairness

-----------------------------------------------------------------------------
(* Properties. *)

Answers == {"own", "nosuch", "servfail", "upstream"}

\* Whatever becomes of its relay, a query that was asked is answered, if its question can
\* be read: unless the tunnel stops, the write of the answer fails, or Window later queries
\* are parked first.  The last of these leaves a query in silence whose relay is waiting.
EveryExitAnswers ==
    \A q \in Queries \ Unreadable :
        answer[q] # "idle" ~> answer[q] \in Answers \cup {"stopped", "unwritten", "reaped"}
=============================================================================
