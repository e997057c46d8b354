--------------------------- MODULE PeerPath_proofs ---------------------------
(***************************************************************************)
(* Proofs about PeerPath, for any sets of public nodes and any number of   *)
(* networks, datagrams and faults.                                         *)
(***************************************************************************)
EXTENDS PeerPath, TLAPS

\* Every node has an endpoint and a set of proven addresses.
PathInv ==
    /\ DOMAIN endpoint = Nodes /\ endpoint = [n \in Nodes |-> endpoint[n]]
    /\ DOMAIN proven = Nodes /\ proven = [n \in Nodes |-> proven[n]]
    /\ DirectIsProven

LEMMA PathInit == Init => PathInv
BY DEF Init, PathInv, DirectIsProven

\* spawn_rx is the one place that learns an endpoint, from a datagram it proves.
LEMMA LearningProves ==
    ASSUME PathInv, NEW n \in Nodes, NEW d \in net, RxUdp(n, d)
    PROVE  PathInv'
<1>1. endpoint' = [endpoint EXCEPT ![n] = d.from] /\ proven' = [proven EXCEPT ![n] = @ \cup {d.from}]
      /\ UNCHANGED public
  BY DEF RxUdp, LearnEndpoint
<1>2. ASSUME NEW m \in Nodes, endpoint'[m] \notin {0} \cup proven'[m]
      PROVE  Peer(m) \in public /\ endpoint'[m] = 1
  <2>1. CASE m = n
    BY <1>1, <1>2, <2>1 DEF PathInv
  <2>2. CASE m # n
    BY <1>1, <1>2, <2>2 DEF PathInv, DirectIsProven
  <2> QED BY <2>1, <2>2
<1>3. DirectIsProven'
  BY <1>1, <1>2 DEF DirectIsProven, Peer
<1>4. /\ DOMAIN endpoint' = Nodes /\ endpoint' = [m \in Nodes |-> endpoint'[m]]
      /\ DOMAIN proven' = Nodes /\ proven' = [m \in Nodes |-> proven'[m]]
  BY <1>1 DEF PathInv
<1> QED BY <1>3, <1>4 DEF PathInv

LEMMA PathStep == PathInv /\ [Next]_vars => PathInv'
<1> SUFFICES ASSUME PathInv, [Next]_vars PROVE PathInv'
  OBVIOUS
<1>1. ASSUME NEW n \in Nodes, NEW d \in net, RxUdp(n, d) PROVE PathInv'
  BY <1>1, LearningProves
<1>2. ASSUME NEW n \in Nodes, NEW d \in net, RxRendezvous(n, d) PROVE UNCHANGED <<public, endpoint, proven>>
  BY <1>2 DEF RxRendezvous, StartPunch
<1>3. ASSUME NEW n \in Nodes, NEW d \in net, RxRelay(n, d) \/ RxDebounced(n, d)
      PROVE  UNCHANGED <<public, endpoint, proven>>
  BY <1>3 DEF RxRelay, RxDebounced
<1>4. ASSUME NEW n \in Nodes, Send(n) \/ Initiate(n) \/ Discover(n) \/ DebounceOver(n) \/ Punch(n) \/ PunchEnds(n)
      PROVE  UNCHANGED <<public, endpoint, proven>>
  BY <1>4 DEF Send, Initiate, Discover, DebounceOver, Punch, PunchEnds, network
<1>5. ASSUME NEW n \in Nodes, LegNoticed(n) \/ Redial(n) \/ RotateToken(n) \/ LegDies(n) \/ Roam(n)
      PROVE  UNCHANGED <<public, endpoint, proven>>
  BY <1>5 DEF LegNoticed, Redial, RotateToken, LegDies, Roam, network
<1>6. CASE UdpChanges \/ \E d \in net : Lose(d)
  BY <1>6 DEF UdpChanges, Lose, PathInv, DirectIsProven, Peer
<1>7. CASE UNCHANGED vars
  BY <1>7 DEF vars, network, PathInv, DirectIsProven, Peer
<1>8. UNCHANGED <<public, endpoint, proven>> => PathInv'
  BY DEF PathInv, DirectIsProven, Peer
<1> QED BY <1>1, <1>2, <1>3, <1>4, <1>5, <1>6, <1>7, <1>8 DEF Next

\* A node sends past the relay only where its peer was heard or advertised itself
\* (spawn_rx, on_rendezvous): no rendezvous, burst, roaming or rebuilt leg moves traffic
\* to an address nobody proved.
THEOREM DirectPathsAreProven == Spec => []DirectIsProven
<1>1. PathInv => DirectIsProven
  BY DEF PathInv
<1> QED BY <1>1, PathInit, PathStep, PTL DEF Spec
=============================================================================
