----------------------------- MODULE MCServices ------------------------------
(***************************************************************************)
(* Four parts in one run: the private names of a node (Subdomains), the    *)
(* userspace tunnel of a deploy (Netstack), requests to the control plane  *)
(* (CpCalls), names asked inside the tunnel (TunnelDns).  They share no    *)
(* state, so one of them moves and the others stay as they began.          *)
(***************************************************************************)
EXTENDS Subdomains, Netstack, CpCalls

CONSTANTS
    Queries, Unreadable, Window

VARIABLES
    part,  \* which of the four moves
    pump, forward, upstreams, tokens, parked, relay, answer

dnsVars == <<pump, forward, upstreams, tokens, parked, relay, answer>>

Dns == INSTANCE TunnelDns

\* The parts that do not move are in one of their initial states.
MCInit ==
    /\ Init /\ NetInit /\ CallInit /\ Dns!Init
    /\ \/ part = "calls"
       \/ part \in {"tls", "dns", "net"} /\ doing = "request" /\ ~token /\ ~multiUser /\ ~strong

MCNext ==
    \/ part = "calls" /\ CallNext /\ UNCHANGED <<part, vars, dnsVars, netVars>>
    \/ part = "tls" /\ Next /\ UNCHANGED <<part, callVars, dnsVars, netVars>>
    \/ part = "dns" /\ Dns!Next /\ UNCHANGED <<part, callVars, vars, netVars>>
    \/ part = "net" /\ NetNext /\ UNCHANGED <<part, callVars, vars, dnsVars>>

mcVars == <<part, callVars, vars, dnsVars, netVars>>

\* The fairness of each part, while it moves.
MCFairness ==
    /\ WF_mcVars(part = "calls" /\ TimesOut /\ UNCHANGED <<part, vars, dnsVars, netVars>>)
    /\ WF_mcVars(part = "calls" /\ Told /\ UNCHANGED <<part, vars, dnsVars, netVars>>)
    /\ WF_mcVars(part = "tls" /\ Resync({}) /\ UNCHANGED <<part, callVars, dnsVars, netVars>>)
    /\ \A q \in Queries :
        /\ WF_mcVars(part = "dns" /\ Dns!Relay(q) /\ UNCHANGED <<part, callVars, vars, netVars>>)
        /\ WF_mcVars(part = "dns" /\ Dns!RelayEnds(q) /\ UNCHANGED <<part, callVars, vars, netVars>>)

MCSpec == MCInit /\ [][MCNext]_mcVars /\ MCFairness

\* Stated in TunnelDns: every exit of a relay answers its query (ios_dns_forward).
EveryExitAnswers == Dns!EveryExitAnswers
=============================================================================
