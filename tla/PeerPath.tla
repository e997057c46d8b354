------------------------------- MODULE PeerPath -------------------------------
(***************************************************************************)
(* How two nodes reach each other: the direct path over UDP, learned from  *)
(* authenticated datagrams (agent-core/src/pump.rs), the relay leg each    *)
(* node keeps (relay_transport.rs), and the rendezvous that turns a        *)
(* relayed path into a direct one (disco.rs).                              *)
(*                                                                         *)
(* The WireGuard session (boringtun) is external: every datagram of the    *)
(* peer authenticates, an initiation is answered.  An address is the       *)
(* number of the networks its node has been in; 0 stands for none.         *)
(***************************************************************************)
EXTENDS Integers, FiniteSets

CONSTANTS
    Nodes,       \* the two nodes
    Publics,     \* the sets of nodes that may have public addresses
    MaxAddress,  \* bound: networks a node goes through
    MaxFlight,   \* bound: datagrams on their way at a time
    MaxFaults    \* bound: roaming, failures of UDP and of the relay, renewals

ASSUME NodesAssumption == Cardinality(Nodes) = 2 /\ Publics \subseteq SUBSET Nodes
ASSUME BoundsAssumption ==
    MaxAddress \in Nat \ {0} /\ MaxFlight \in Nat \ {0} /\ MaxFaults \in Nat

VARIABLES
    public,     \* nodes that advertise an endpoint and let everything in
    address,    \* network: where each node is
    udp,        \* network: whether UDP gets from one to the other
    hole,       \* network: the peer's addresses each node's NAT lets in
    net,        \* network: what is on its way, by UDP or through the relay
    faults,
    endpoint,   \* PeerEntry.endpoint: where each node believes the peer is
    reflexive,  \* each node's own address as the STUN reflector saw it
    recent,     \* run_rendezvous: the peer's last rendezvous is debounced
    punch,      \* target of the node's burst, 0 when there is none
    leg,        \* RelayClient: up, dead (nobody noticed), closed (a failed write
                \* noticed: tx is None), dialing (the supervisor rebuilds it)
    auth,       \* the token the leg was opened with is still valid
    proven      \* history: addresses of the peer a datagram came from

network == <<public, address, udp, hole, net, faults>>
disco   == <<reflexive, recent, punch>>
relay   == <<leg, auth>>
vars    == <<network, endpoint, disco, relay, proven>>

Peer(n)   == CHOOSE m \in Nodes : m # n

\* RelayClient::connect, before the loop: every node has its leg, with a valid token.
Connected == leg = [n \in Nodes |-> "up"] /\ auth = [n \in Nodes |-> TRUE]

Init ==
    /\ public \in Publics
    /\ address = [n \in Nodes |-> 1] /\ udp = TRUE /\ faults = 0
    /\ hole = [n \in Nodes |-> {}] /\ net = {}
    /\ endpoint = [n \in Nodes |-> IF Peer(n) \in public THEN 1 ELSE 0]
    /\ reflexive = [n \in Nodes |-> 0]
    /\ recent = [n \in Nodes |-> FALSE] /\ punch = [n \in Nodes |-> 0]
    /\ Connected
    /\ proven = [n \in Nodes |-> {}]

-----------------------------------------------------------------------------
(* Sending. *)

\* A datagram is sent; what is on its way already may get lost.
Put(left, d) ==
    /\ \E kept \in SUBSET left : net' = kept \cup {d}
    /\ Cardinality(net') <= MaxFlight

UdpTo(n, there, what) ==
    [via |-> "udp", to |-> Peer(n), from |-> address[n], dst |-> there, what |-> what]

\* A datagram opens the NAT for what comes back from where it goes.
SendUdp(n, left, there, what) ==
    /\ Put(left, UdpTo(n, there, what))
    /\ hole' = [hole EXCEPT ![n] = @ \cup {there}]
    /\ UNCHANGED leg

\* RelayClient::send.  A write to a dead connection is lost; one that fails
\* takes the connection out of use.  A frame for a node without a live leg is
\* dropped by the relay.
SendRelay(n, left, frame) ==
    /\ \/ leg[n] = "up" /\ Put(left, frame) /\ UNCHANGED leg
       \/ leg[n] # "up" /\ net' = left /\ UNCHANGED leg
       \/ leg[n] = "dead" /\ net' = left /\ leg' = [leg EXCEPT ![n] = "closed"]
    /\ UNCHANGED hole

\* send_ciphertext, and the same choice in spawn_timers.
SendCiphertext(n) ==
    \/ endpoint[n] # 0 /\ SendUdp(n, net, endpoint[n], "init")
    \/ endpoint[n] = 0 /\ SendRelay(n, net, [via |-> "relay", to |-> Peer(n), what |-> "init"])

\* A packet for the peer (spawn_tx), or a timer of the session (spawn_timers).
Send(n) ==
    /\ SendCiphertext(n)
    /\ UNCHANGED <<public, address, udp, faults, endpoint, disco, auth, proven>>

-----------------------------------------------------------------------------
(* Receiving. *)

\* Mistaken variant: an endpoint once known stays.
LearnEndpointOnce(n, d) == endpoint' = [endpoint EXCEPT ![n] = IF @ = 0 THEN d.from ELSE @]

\* set_endpoint, once decapsulate has accepted the datagram.
LearnEndpoint(n, d) == endpoint' = [endpoint EXCEPT ![n] = d.from]

\* The network delivers to where the node is, if its NAT lets the sender in.
Reaches(n, d) ==
    /\ d \in net /\ d.via = "udp" /\ d.to = n
    /\ udp /\ d.dst = address[n]
    /\ n \in public \/ d.from \in hole[n]

\* spawn_rx: an initiation is answered to where it came from.
RxUdp(n, d) ==
    /\ Reaches(n, d)
    /\ LearnEndpoint(n, d)
    /\ proven' = [proven EXCEPT ![n] = @ \cup {d.from}]
    /\ \/ d.what = "init" /\ SendUdp(n, net \ {d}, d.from, "resp")
       \/ d.what = "resp" /\ net' = net \ {d} /\ UNCHANGED <<hole, leg>>
    /\ UNCHANGED <<public, address, udp, faults, disco, auth>>

RelayedTo(n, d) == d \in net /\ d.via = "relay" /\ d.to = n /\ leg[n] = "up"

\* spawn_relay_rx: an initiation is answered through the relay.
RxRelay(n, d) ==
    /\ RelayedTo(n, d) /\ d.what \in {"init", "resp"}
    /\ \/ d.what = "init"
          /\ SendRelay(n, net \ {d}, [via |-> "relay", to |-> Peer(n), what |-> "resp"])
       \/ d.what = "resp" /\ net' = net \ {d} /\ UNCHANGED <<hole, leg>>
    /\ UNCHANGED <<public, address, udp, faults, endpoint, disco, auth, proven>>

-----------------------------------------------------------------------------
(* The rendezvous (disco.rs). *)

\* run_discovery: the reflector answers with where the node is now.
Discover(n) ==
    /\ reflexive[n] # address[n]
    /\ reflexive' = [reflexive EXCEPT ![n] = address[n]]
    /\ UNCHANGED <<network, endpoint, recent, punch, relay, proven>>

Here(n) == [via |-> "relay", to |-> Peer(n), what |-> "rendezvous", at |-> reflexive[n]]

\* Every five seconds, to a peer that is reached through the relay only.
Initiate(n) ==
    /\ reflexive[n] # 0 /\ endpoint[n] = 0
    /\ SendRelay(n, net, Here(n))
    /\ UNCHANGED <<public, address, udp, faults, endpoint, disco, auth, proven>>

Reciprocate(n, left) ==
    \/ reflexive[n] # 0 /\ SendRelay(n, left, Here(n))
    \/ reflexive[n] = 0 /\ net' = left /\ UNCHANGED <<hole, leg>>

\* A rendezvous within five seconds of the last one is dropped.
RxDebounced(n, d) ==
    /\ RelayedTo(n, d) /\ d.what = "rendezvous" /\ recent[n]
    /\ net' = net \ {d}
    /\ UNCHANGED <<public, address, udp, hole, faults, endpoint, disco, relay, proven>>

\* Mistaken variant: the target counts as the peer's endpoint at once.
StartPunchTrusting(n, target) ==
    /\ punch' = [punch EXCEPT ![n] = target]
    /\ endpoint' = [endpoint EXCEPT ![n] = target]

\* punch_toward_pubkey, in a thread of its own, unless the path is direct.
StartPunch(n, target) ==
    /\ punch' = [punch EXCEPT ![n] = IF endpoint[n] = 0 THEN target ELSE @]
    /\ UNCHANGED endpoint

RxRendezvous(n, d) ==
    /\ RelayedTo(n, d) /\ d.what = "rendezvous" /\ ~recent[n]
    /\ recent' = [recent EXCEPT ![n] = TRUE]
    /\ StartPunch(n, d.at)
    /\ Reciprocate(n, net \ {d})
    /\ UNCHANGED <<public, address, udp, faults, reflexive, auth, proven>>

DebounceOver(n) ==
    /\ recent[n] /\ punch[n] = 0  \* eight tries, 250 ms apart, within the five seconds
    /\ recent' = [recent EXCEPT ![n] = FALSE]
    /\ UNCHANGED <<network, endpoint, reflexive, punch, relay, proven>>

\* One initiation of the burst.
Punch(n) ==
    /\ punch[n] # 0 /\ endpoint[n] = 0
    /\ SendUdp(n, net, punch[n], "init")
    /\ UNCHANGED <<public, address, udp, faults, endpoint, disco, auth, proven>>

\* The tries are used up, or the path is direct.
PunchEnds(n) ==
    /\ punch[n] # 0
    /\ punch' = [punch EXCEPT ![n] = 0]
    /\ UNCHANGED <<network, endpoint, reflexive, recent, relay, proven>>

-----------------------------------------------------------------------------
(* The relay leg's supervisor (relay_transport.rs). *)

\* Mistaken variant: a missing write half does not count as a dead leg.
LegNoticedIfWritable(n) ==
    /\ leg[n] = "dead"
    /\ leg' = [leg EXCEPT ![n] = "dialing"]
    /\ UNCHANGED <<network, endpoint, disco, auth, proven>>

\* recv_loop ends: the read fails, or after an idle window the Ping does, or
\* there is nothing to write it to.  The dead write half is cleared.
LegNoticed(n) ==
    /\ leg[n] \in {"dead", "closed"}
    /\ leg' = [leg EXCEPT ![n] = "dialing"]
    /\ UNCHANGED <<network, endpoint, disco, auth, proven>>

\* dial: the relay asks the control plane about the token.
Redial(n) ==
    /\ leg[n] = "dialing" /\ auth[n]
    /\ leg' = [leg EXCEPT ![n] = "up"]
    /\ UNCHANGED <<network, endpoint, disco, auth, proven>>

-----------------------------------------------------------------------------
(* The world. *)

\* spawn_token_renewal rotates the token; the leg keeps the old one.
RotateToken(n) ==
    /\ auth[n] /\ faults < MaxFaults /\ faults' = faults + 1
    /\ auth' = [auth EXCEPT ![n] = FALSE]
    /\ UNCHANGED <<public, address, udp, hole, net, endpoint, disco, leg, proven>>

\* The connection to the relay dies.
LegDies(n) ==
    /\ leg[n] = "up" /\ faults < MaxFaults /\ faults' = faults + 1
    /\ leg' = [leg EXCEPT ![n] = "dead"]
    /\ UNCHANGED <<public, address, udp, hole, net, endpoint, disco, auth, proven>>

\* The node moves to another network, with another NAT.
Roam(n) ==
    /\ address[n] < MaxAddress /\ faults < MaxFaults /\ faults' = faults + 1
    /\ address' = [address EXCEPT ![n] = @ + 1]
    /\ hole' = [hole EXCEPT ![n] = {}]
    /\ leg' = [leg EXCEPT ![n] = IF @ = "up" THEN "dead" ELSE @]
    /\ UNCHANGED <<public, udp, net, endpoint, disco, auth, proven>>

\* Networks on the way start or stop to carry UDP.
UdpChanges ==
    /\ faults < MaxFaults /\ faults' = faults + 1
    /\ udp' = ~udp
    /\ UNCHANGED <<public, address, hole, net, endpoint, disco, relay, proven>>

\* Whatever is on its way may get lost.
Lose(d) ==
    /\ net' = net \ {d}
    /\ UNCHANGED <<public, address, udp, hole, faults, endpoint, disco, relay, proven>>

Next ==
    \/ \E n \in Nodes :
        \/ Send(n) \/ Initiate(n) \/ Discover(n) \/ DebounceOver(n) \/ Punch(n) \/ PunchEnds(n)
        \/ LegNoticed(n) \/ Redial(n) \/ RotateToken(n) \/ LegDies(n) \/ Roam(n)
        \/ \E d \in net : RxUdp(n, d) \/ RxRelay(n, d) \/ RxDebounced(n, d) \/ RxRendezvous(n, d)
    \/ UdpChanges
    \/ \E d \in net : Lose(d)

Spec == Init /\ [][Next]_vars

\* Threads run on; the session's timers and the initiator's come again and
\* again, and so do bursts that send something; the network does not lose
\* everything it can deliver.
Fairness == \A n \in Nodes :
    /\ SF_vars(Send(n)) /\ SF_vars(Initiate(n)) /\ SF_vars(Punch(n))
    /\ WF_vars(Discover(n)) /\ WF_vars(DebounceOver(n) \/ PunchEnds(n))
    /\ WF_vars(LegNoticed(n) \/ Redial(n))
    /\ SF_vars(\E d \in net : RxUdp(n, d))
    /\ SF_vars(\E d \in net : RxRelay(n, d))
    /\ SF_vars(\E d \in net : RxRendezvous(n, d))

FairSpec == Spec /\ Fairness

-----------------------------------------------------------------------------
(* Properties. *)

\* A path is used instead of the relay only when the peer was heard there, or
\* advertises it: a rendezvous alone moves no traffic.
DirectIsProven ==
    \A n \in Nodes : endpoint[n] \notin {0} \cup proven[n] => Peer(n) \in public /\ endpoint[n] = 1

Settled == address = [n \in Nodes |-> 1] /\ udp

\* Two nodes behind NATs that UDP gets between reach each other directly in
\* the end.
PairUpgrades ==
    []Settled /\ (\A n \in Nodes : []auth[n]) => <>[](\A n \in Nodes : endpoint[n] = 1)

\* A node that stays where it is, with a public address, follows its peer.
RoamingIsFollowed == \A n \in Nodes :
    n \in public /\ [](address[n] = 1) /\ <>[]udp => <>[](endpoint[n] = address[Peer(n)])
=============================================================================
