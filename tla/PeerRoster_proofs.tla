-------------------------- MODULE PeerRoster_proofs ---------------------------
(***************************************************************************)
(* Proofs about PeerRoster, for any finite set of nodes, any number of     *)
(* keypairs and changes, and with or without lost events.                  *)
(***************************************************************************)
EXTENDS PeerRoster, TLAPS, FiniteSetTheorems, SequenceTheorems

Places == {"sync", "prune", "add", "status", "write", "subscribe", "stream"}
Events == [type : {"added"}, peer : AllPeers] \cup [type : {"removed"}, node : Nodes]

TypeInv ==
    /\ roster \subseteq [peer : AllPeers, index : Nat] /\ index \in Nat
    /\ pc \in Places /\ connected \in BOOLEAN
    /\ fetched \subseteq AllPeers
    /\ events \in Seq(Events)
    /\ registry \in [Nodes -> 0..MaxKeys] /\ lastKey \in [Nodes -> 1..MaxKeys]

-----------------------------------------------------------------------------
(* Numbers. *)

\* The roster's numbers were given by the counter.
NumberInv == OneTunnelPerPeer /\ \A e \in roster : e.index <= index

LEMMA PeersAreFinite == IsFiniteSet(AllPeers)
<1> DEFINE f == [x \in Nodes \X (1..MaxKeys) |-> [node |-> x[1], key |-> x[2]]]
<1>1. IsFiniteSet(Nodes \X (1..MaxKeys))
  <2>1. IsFiniteSet(1..MaxKeys)
    <3>1. 1 \in Int /\ MaxKeys \in Int
      BY BoundsAssumption
    <3> QED BY <3>1, FS_Interval
  <2> QED BY <2>1, BoundsAssumption, FS_Product
<1>2. f \in Surjection(Nodes \X (1..MaxKeys), AllPeers)
  <2>1. f \in [Nodes \X (1..MaxKeys) -> AllPeers]
    BY DEF AllPeers
  <2>2. \A p \in AllPeers : <<p.node, p.key>> \in Nodes \X (1..MaxKeys) /\ f[<<p.node, p.key>>] = p
    BY DEF AllPeers
  <2> QED BY <2>1, <2>2 DEF Surjection
<1> QED BY <1>1, <1>2, FS_Surjection

\* Numbers in turn: one for each peer, above the counter and not above what it becomes.
InTurn(peers, from, number) ==
    /\ from + Cardinality(peers) \in Nat /\ from <= from + Cardinality(peers)
    /\ DOMAIN number = peers
    /\ \A p \in peers : number[p] \in Nat /\ number[p] > from /\ number[p] <= from + Cardinality(peers)
    /\ \A p, q \in peers : number[p] = number[q] => p = q
    /\ Entries(number) \subseteq [peer : AllPeers, index : Nat]
    /\ PeersOf(Entries(number)) = peers

LEMMA NumbersInTurn ==
    ASSUME NEW peers, peers \subseteq AllPeers, NEW from \in Nat, NEW number \in Numberings(peers, from)
    PROVE  InTurn(peers, from, number)
<1>1. Cardinality(peers) \in Nat
  BY PeersAreFinite, FS_Subset, FS_CardinalityType
<1>2. /\ number \in [peers -> (from + 1)..(from + Cardinality(peers))]
      /\ \A p, q \in peers : number[p] = number[q] => p = q
  BY DEF Numberings, Bijection, Injection, IsInjective
<1>3. Entries(number) = {[peer |-> p, index |-> number[p]] : p \in peers}
  BY <1>2 DEF Entries, Entry
<1>4. \A p \in peers : number[p] \in Nat /\ number[p] > from /\ number[p] <= from + Cardinality(peers)
  BY <1>1, <1>2
<1>5. Entries(number) \subseteq [peer : AllPeers, index : Nat]
  BY <1>3, <1>4
<1>6. PeersOf(Entries(number)) = peers
  <2>1. \A e \in Entries(number) : e.peer \in peers
    BY <1>3
  <2>2. ASSUME NEW p \in peers PROVE \E e \in Entries(number) : e.peer = p
    <3>1. [peer |-> p, index |-> number[p]] \in Entries(number)
      BY <1>3
    <3> QED BY <3>1
  <2> QED BY <2>1, <2>2 DEF PeersOf
<1> QED BY <1>1, <1>2, <1>4, <1>5, <1>6 DEF InTurn

LEMMA AddKeepsNumbers ==
    ASSUME TypeInv, NumberInv, NEW list, list \subseteq AllPeers, AddTunnPeers(list)
    PROVE  /\ NumberInv'
           /\ roster' \subseteq [peer : AllPeers, index : Nat] /\ index' \in Nat
           /\ PeersOf(roster') = PeersOf(roster) \cup list
           /\ roster \subseteq roster'
<1> DEFINE new == NewPeers(roster, list)
<1>1. PICK number \in Numberings(new, index) : roster' = roster \cup Entries(number)
  BY DEF AddTunnPeers
<1>2. index' = index + Cardinality(new) /\ new \subseteq AllPeers /\ new = list \ PeersOf(roster)
  BY DEF AddTunnPeers, NewPeers
<1> HIDE DEF new
<1>3. /\ index + Cardinality(new) \in Nat /\ index <= index + Cardinality(new)
      /\ \A p \in new : number[p] \in Nat /\ number[p] > index /\ number[p] <= index + Cardinality(new)
      /\ \A p, q \in new : number[p] = number[q] => p = q
      /\ Entries(number) \subseteq [peer : AllPeers, index : Nat]
      /\ PeersOf(Entries(number)) = new
      /\ DOMAIN number = new
  <2>1. index \in Nat
    BY DEF TypeInv
  <2>2. InTurn(new, index, number)
    BY <1>1, <1>2, <2>1, NumbersInTurn
  <2> QED BY <2>2 DEF InTurn
<1>4. \A e \in Entries(number) : e.peer \in new /\ e.index = number[e.peer] /\ e = [peer |-> e.peer, index |-> e.index]
  BY <1>3 DEF Entries, Entry
<1>5. \A e \in roster : e.peer \notin new /\ e.index <= index /\ e.index \in Nat
  BY <1>2 DEF PeersOf, NumberInv, TypeInv
<1>6. \A d, e \in roster' : d.peer = e.peer \/ d.index = e.index => d = e
  <2> SUFFICES ASSUME NEW d \in roster', NEW e \in roster', d.peer = e.peer \/ d.index = e.index
               PROVE  d = e
    OBVIOUS
  <2>1. CASE d \in roster /\ e \in roster
    BY <2>1 DEF NumberInv, OneTunnelPerPeer
  <2>2. CASE d \in Entries(number) /\ e \in Entries(number)
    BY <2>2, <1>3, <1>4
  <2>3. CASE d \in roster /\ e \in Entries(number)
    BY <2>3, <1>3, <1>4, <1>5 DEF TypeInv
  <2>4. CASE d \in Entries(number) /\ e \in roster
    BY <2>4, <1>3, <1>4, <1>5 DEF TypeInv
  <2> QED BY <1>1, <2>1, <2>2, <2>3, <2>4
<1>7. \A e \in roster' : e.index <= index'
  <2>1. ASSUME NEW e \in roster PROVE e.index <= index'
    <3>1. e.index <= index /\ e.index \in Nat /\ index \in Nat
      BY <1>5 DEF TypeInv
    <3> QED BY <3>1, <1>2, <1>3
  <2>2. ASSUME NEW e \in Entries(number) PROVE e.index <= index'
    BY <2>2, <1>2, <1>3, <1>4
  <2> QED BY <1>1, <2>1, <2>2
<1>8. PeersOf(roster') = PeersOf(roster) \cup PeersOf(Entries(number))
  BY <1>1 DEF PeersOf
<1> QED BY <1>1, <1>2, <1>3, <1>6, <1>7, <1>8 DEF NumberInv, OneTunnelPerPeer, TypeInv

-----------------------------------------------------------------------------
(* Steps. *)

LEMMA ListedArePeers == Listed \subseteq AllPeers
BY DEF Listed

\* The steps by what they do to the state the proofs are about.
LEMMA Steps ==
    ASSUME TypeInv, [Next]_vars
    PROVE  \/ FetchServed \/ FetchFails \/ Prune \/ Add \/ WriteStatus
           \/ SnapshotStatus \/ Subscribe \/ SubscribeFails \/ Consume \/ StreamEnds
           \/ \E n \in Nodes, k \in 0..MaxKeys :
                \/ k \in 1..MaxKeys /\ k \in {lastKey[n], lastKey[n] + 1} /\ Change(n, k, <<Added(n, k)>>)
                \/ k \in 1..MaxKeys /\ k = lastKey[n] + 1 /\ Change(n, k, <<Removed(n), Added(n, k)>>)
                \/ k = 0 /\ Change(n, k, <<Removed(n)>>)
           \/ UNCHANGED <<roster, index, loopVars, events, cpVars, history>>
<1>1. ASSUME NEW n \in Nodes, Enrol(n)
      PROVE  \E k \in 1..MaxKeys : k \in {lastKey[n], lastKey[n] + 1} /\ Change(n, k, <<Added(n, k)>>)
  <2>1. lastKey[n] \in 1..MaxKeys /\ MaxKeys \in Nat
    BY BoundsAssumption DEF TypeInv
  <2> QED BY <1>1, <2>1 DEF Enrol
<1>2. ASSUME NEW n \in Nodes, Rekey(n)
      PROVE  \E k \in 1..MaxKeys : /\ k = lastKey[n] + 1
                                   /\ \/ Change(n, k, <<Added(n, k)>>)
                                      \/ Change(n, k, <<Removed(n), Added(n, k)>>)
  <2>1. lastKey[n] \in 1..MaxKeys /\ MaxKeys \in Nat
    BY BoundsAssumption DEF TypeInv
  <2>2. lastKey[n] + 1 \in 1..MaxKeys
    BY <1>2, <2>1 DEF Rekey
  <2> QED BY <1>2, <2>2 DEF Rekey
<1>3. ASSUME NEW n \in Nodes, Unlist(n) PROVE Change(n, 0, <<Removed(n)>>)
  BY <1>3 DEF Unlist
<1>4. HeartbeatSnapshot \/ HeartbeatWrite \/ UNCHANGED vars
        => UNCHANGED <<roster, index, loopVars, events, cpVars, history>>
  BY DEF HeartbeatSnapshot, HeartbeatWrite, vars
<1>5. 0 \in 0..MaxKeys /\ 1..MaxKeys \subseteq 0..MaxKeys
  BY BoundsAssumption
<1> QED BY <1>1, <1>2, <1>3, <1>4, <1>5 DEF Next, Loop

LEMMA TypeStep == TypeInv /\ NumberInv /\ [Next]_vars => TypeInv' /\ NumberInv'
<1> SUFFICES ASSUME TypeInv, NumberInv, [Next]_vars PROVE TypeInv' /\ NumberInv'
  OBVIOUS
<1>1. CASE FetchServed
  BY <1>1, ListedArePeers DEF FetchServed, Goto, cpVars, TypeInv, NumberInv, OneTunnelPerPeer, Places
<1>2. CASE FetchFails
  BY <1>2 DEF FetchFails, Goto, cpVars, TypeInv, NumberInv, OneTunnelPerPeer, Places
<1>3. CASE Prune
  BY <1>3 DEF Prune, Goto, cpVars, TypeInv, NumberInv, OneTunnelPerPeer, Places
<1>4. CASE Add
  <2>1. fetched \subseteq AllPeers /\ AddTunnPeers(fetched) /\ pc' = "status"
        /\ UNCHANGED <<fetched, connected, events, registry, lastKey>>
    BY <1>4 DEF TypeInv, Add, Goto, cpVars
  <2>2. NumberInv' /\ roster' \subseteq [peer : AllPeers, index : Nat] /\ index' \in Nat
    BY <2>1, AddKeepsNumbers
  <2> QED BY <2>1, <2>2 DEF TypeInv, Places
<1>5. CASE WriteStatus
  BY <1>5 DEF WriteStatus, Goto, cpVars, TypeInv, NumberInv, OneTunnelPerPeer, Places
<1>6. CASE SnapshotStatus
  BY <1>6 DEF SnapshotStatus, Goto, cpVars, TypeInv, NumberInv, OneTunnelPerPeer, Places
<1>7. CASE Subscribe
  BY <1>7 DEF Subscribe, Goto, cpVars, TypeInv, NumberInv, OneTunnelPerPeer, Places
<1>8. CASE SubscribeFails
  BY <1>8 DEF SubscribeFails, Goto, cpVars, TypeInv, NumberInv, OneTunnelPerPeer, Places
<1>9. CASE Consume
  <2>1. /\ pc' \in {"status", "stream"} /\ events' = Tail(events) /\ events # <<>>
        /\ UNCHANGED <<fetched, connected, registry, lastKey>>
    BY <1>9 DEF Consume, Goto, cpVars
  <2>2. Head(events) \in Events /\ events' \in Seq(Events)
    BY <2>1 DEF TypeInv
  <2>3. NumberInv' /\ roster' \subseteq [peer : AllPeers, index : Nat] /\ index' \in Nat
    <3>1. CASE Head(events).type = "added"
      <4>1. {Head(events).peer} \subseteq AllPeers
        BY <2>2, <3>1 DEF Events
      <4>2. AddTunnPeers({Head(events).peer})
        BY <1>9, <3>1 DEF Consume
      <4> QED BY <4>1, <4>2, AddKeepsNumbers
    <3>2. CASE Head(events).type # "added"
      BY <1>9, <3>2 DEF Consume, RemoveByNodeId, TypeInv, NumberInv, OneTunnelPerPeer
    <3> QED BY <3>1, <3>2
  <2> QED BY <2>1, <2>2, <2>3 DEF TypeInv, Places
<1>10. CASE StreamEnds
  <2>1. /\ UNCHANGED <<roster, index, fetched, registry, lastKey>>
        /\ pc' = "sync" /\ connected' = FALSE /\ events' = <<>>
    BY <1>10 DEF StreamEnds, Goto, cpVars
  <2>2. events' \in Seq(Events)
    BY <2>1
  <2> QED BY <2>1, <2>2 DEF TypeInv, NumberInv, OneTunnelPerPeer, Places
<1>11. ASSUME NEW n \in Nodes, NEW k \in 0..MaxKeys, NEW news \in Seq(Events), Change(n, k, news),
              k = 0 \/ k \in 1..MaxKeys
       PROVE  TypeInv' /\ NumberInv'
  <2>1. /\ UNCHANGED <<roster, index, pc, fetched, connected>>
        /\ registry' = [registry EXCEPT ![n] = k]
        /\ lastKey' = [lastKey EXCEPT ![n] = IF k = 0 THEN @ ELSE k]
        /\ events' \in {events, events \o news}
    BY <1>11 DEF Change, loopVars
  <2>2. events' \in Seq(Events)
    <3>1. events \in Seq(Events)
      BY DEF TypeInv
    <3> QED BY <2>1, <3>1, ConcatProperties
  <2>3. registry' \in [Nodes -> 0..MaxKeys] /\ lastKey' \in [Nodes -> 1..MaxKeys]
    BY <1>11, <2>1 DEF TypeInv
  <2> QED BY <2>1, <2>2, <2>3 DEF TypeInv, NumberInv, OneTunnelPerPeer
<1>12. ASSUME NEW n \in Nodes, NEW k \in 1..MaxKeys
       PROVE  <<Added(n, k)>> \in Seq(Events) /\ <<Removed(n)>> \in Seq(Events)
              /\ <<Removed(n), Added(n, k)>> \in Seq(Events)
  BY DEF Added, Removed, Events, AllPeers
<1>13. CASE UNCHANGED <<roster, index, loopVars, events, cpVars, history>>
  BY <1>13 DEF loopVars, cpVars, TypeInv, NumberInv, OneTunnelPerPeer
<1>14. ASSUME NEW n \in Nodes PROVE <<Removed(n)>> \in Seq(Events)
  BY DEF Removed, Events
<1> QED BY Steps, <1>1, <1>2, <1>3, <1>4, <1>5, <1>6, <1>7, <1>8, <1>9, <1>10, <1>11, <1>12, <1>13, <1>14

LEMMA NumbersInitially == Init => TypeInv /\ NumberInv
<1> SUFFICES ASSUME Init PROVE TypeInv /\ NumberInv
  OBVIOUS
<1>1. PICK number \in Numberings(Listed, 0) : roster = Entries(number)
  BY DEF Init
<1>2. InTurn(Listed, 0, number)
  BY ListedArePeers, NumbersInTurn
<1>3. /\ DOMAIN number = Listed /\ Cardinality(Listed) \in Nat
      /\ \A p \in Listed : number[p] \in Nat /\ number[p] <= Cardinality(Listed)
      /\ \A p, q \in Listed : number[p] = number[q] => p = q
      /\ Entries(number) \subseteq [peer : AllPeers, index : Nat]
  <2>1. Cardinality(Listed) \in Nat
    BY ListedArePeers, PeersAreFinite, FS_Subset, FS_CardinalityType
  <2> QED BY <1>2, <2>1 DEF InTurn
<1>4. \A e \in roster : e.peer \in Listed /\ e.index = number[e.peer] /\ e = [peer |-> e.peer, index |-> e.index]
  BY <1>1, <1>3 DEF Entries, Entry
<1>5. NumberInv
  <2>1. \A e \in roster : e.index <= index
    BY <1>3, <1>4 DEF Init
  <2>2. \A d, e \in roster : d.peer = e.peer \/ d.index = e.index => d = e
    BY <1>3, <1>4
  <2> QED BY <2>1, <2>2 DEF NumberInv, OneTunnelPerPeer
<1>6. registry \in [Nodes -> 0..MaxKeys] /\ lastKey \in [Nodes -> 1..MaxKeys]
  BY BoundsAssumption DEF Init
<1>7. <<>> \in Seq(Events)
  OBVIOUS
<1> QED BY <1>1, <1>3, <1>5, <1>6, <1>7 DEF Init, TypeInv, Places

\* Two ways to add a peer, the list and the stream, never give it two tunnels, and no two
\* tunnels the same number, for any finite set of nodes (add_tunn_peers).
THEOREM OneTunnelForAPeer == Spec => []OneTunnelPerPeer
<1>1. NumberInv => OneTunnelPerPeer
  BY DEF NumberInv
<1> QED BY <1>1, NumbersInitially, TypeStep, PTL DEF Spec

-----------------------------------------------------------------------------
(* Events. *)

\* The peers that a stream holds as added.
AddedPeers(s) == {s[i].peer : i \in {j \in 1..Len(s) : s[j].type = "added"}}

LEMMA AppendedPeers ==
    ASSUME NEW s \in Seq(Events), NEW e \in Events
    PROVE  AddedPeers(Append(s, e)) = AddedPeers(s) \cup (IF e.type = "added" THEN {e.peer} ELSE {})
<1>1. Len(Append(s, e)) = Len(s) + 1 /\ Append(s, e)[Len(s) + 1] = e
      /\ \A i \in 1..Len(s) : Append(s, e)[i] = s[i]
  OBVIOUS
<1>2. 1..(Len(s) + 1) = 1..Len(s) \cup {Len(s) + 1}
  OBVIOUS
<1>3. ASSUME NEW p \in AddedPeers(Append(s, e))
      PROVE  p \in AddedPeers(s) \cup (IF e.type = "added" THEN {e.peer} ELSE {})
  <2>1. PICK i \in 1..(Len(s) + 1) : Append(s, e)[i].type = "added" /\ p = Append(s, e)[i].peer
    BY <1>1, <1>3 DEF AddedPeers
  <2> QED BY <1>1, <1>2, <2>1 DEF AddedPeers
<1>4. ASSUME NEW p \in AddedPeers(s) \cup (IF e.type = "added" THEN {e.peer} ELSE {})
      PROVE  p \in AddedPeers(Append(s, e))
  <2>1. \E i \in 1..(Len(s) + 1) : Append(s, e)[i].type = "added" /\ p = Append(s, e)[i].peer
    BY <1>1, <1>2, <1>4 DEF AddedPeers
  <2> QED BY <1>1, <2>1 DEF AddedPeers
<1> QED BY <1>3, <1>4

LEMMA AddedPeersOf ==
    ASSUME NEW s \in Seq(Events)
    PROVE  /\ AddedPeers(<<>>) = {}
           /\ s # <<>> => AddedPeers(Tail(s)) \subseteq AddedPeers(s)
           /\ s # <<>> /\ Head(s).type = "added" => Head(s).peer \in AddedPeers(s)
<1>1. AddedPeers(<<>>) = {}
  BY DEF AddedPeers
<1>2. ASSUME s # <<>> PROVE AddedPeers(Tail(s)) \subseteq AddedPeers(s)
  <2> SUFFICES ASSUME NEW i \in 1..Len(Tail(s)), Tail(s)[i].type = "added"
               PROVE  Tail(s)[i].peer \in AddedPeers(s)
    BY DEF AddedPeers
  <2>1. i + 1 \in 1..Len(s) /\ Tail(s)[i] = s[i + 1]
    BY <1>2
  <2> QED BY <2>1 DEF AddedPeers
<1>3. ASSUME s # <<>>, Head(s).type = "added" PROVE Head(s).peer \in AddedPeers(s)
  <2>1. 1 \in 1..Len(s) /\ Head(s) = s[1]
    BY <1>3
  <2> QED BY <1>3, <2>1 DEF AddedPeers
<1> QED BY <1>1, <1>2, <1>3

\* What each kind of news adds.
LEMMA NewsOf ==
    ASSUME NEW s \in Seq(Events), NEW n \in Nodes
    PROVE  /\ AddedPeers(s \o <<Removed(n)>>) = AddedPeers(s)
           /\ \A k \in 1..MaxKeys :
                /\ AddedPeers(s \o <<Added(n, k)>>) = AddedPeers(s) \cup {[node |-> n, key |-> k]}
                /\ AddedPeers(s \o <<Removed(n), Added(n, k)>>) = AddedPeers(s) \cup {[node |-> n, key |-> k]}
<1>1. ASSUME NEW k \in 1..MaxKeys
      PROVE  /\ Added(n, k) \in Events /\ Added(n, k).type = "added"
             /\ Added(n, k).peer = [node |-> n, key |-> k]
  BY DEF Added, Events, AllPeers
<1>2. Removed(n) \in Events /\ Removed(n).type # "added"
  BY DEF Removed, Events
<1>3. ASSUME NEW d \in Events, NEW e \in Events
      PROVE  /\ s \o <<e>> = Append(s, e) /\ Append(s, d) \in Seq(Events)
             /\ s \o <<d, e>> = Append(Append(s, d), e)
  OBVIOUS
<1>4. AddedPeers(s \o <<Removed(n)>>) = AddedPeers(s)
  BY <1>2, <1>3, AppendedPeers
<1>5. ASSUME NEW k \in 1..MaxKeys
      PROVE  /\ AddedPeers(s \o <<Added(n, k)>>) = AddedPeers(s) \cup {[node |-> n, key |-> k]}
             /\ AddedPeers(s \o <<Removed(n), Added(n, k)>>) = AddedPeers(s) \cup {[node |-> n, key |-> k]}
  <2> DEFINE d == Removed(n)
             e == Added(n, k)
  <2>1. /\ d \in Events /\ d.type # "added"
        /\ e \in Events /\ e.type = "added" /\ e.peer = [node |-> n, key |-> k]
    BY <1>1, <1>2
  <2> HIDE DEF d, e
  <2>2. s \o <<e>> = Append(s, e) /\ s \o <<d, e>> = Append(Append(s, d), e) /\ Append(s, d) \in Seq(Events)
    BY <1>3, <2>1
  <2>3. AddedPeers(Append(s, d)) = AddedPeers(s)
    BY <2>1, AppendedPeers
  <2>4. AddedPeers(Append(s, e)) = AddedPeers(s) \cup {e.peer}
    BY <2>1, AppendedPeers
  <2>5. AddedPeers(Append(Append(s, d), e)) = AddedPeers(Append(s, d)) \cup {e.peer}
    BY <2>1, <2>2, AppendedPeers
  <2>6. AddedPeers(s \o <<e>>) = AddedPeers(s) \cup {e.peer} /\ AddedPeers(s \o <<d, e>>) = AddedPeers(s) \cup {e.peer}
    BY <2>2, <2>3, <2>4, <2>5
  <2> QED BY <2>1, <2>6 DEF d, e
<1> QED BY <1>4, <1>5

-----------------------------------------------------------------------------
(* Nothing older than the last fetch. *)

\* Events are there in a session only, and no list is fetched in one.
SessionInv ==
    /\ connected => pc \in {"stream", "status", "write"}
    /\ ~connected => events = <<>>
    /\ pc = "stream" => connected

\* What is about to be added was listed since the last fetch, from wherever it comes.
FreshInv ==
    /\ Listed \subseteq advertised
    /\ pc \in {"prune", "add"} => fetched \subseteq advertised
    /\ AddedPeers(events) \subseteq advertised
    /\ NothingOlderThanTheFetch

\* No peer has a key its node has not had yet.
Young(peers) == \A p \in peers : p.key <= lastKey[p.node]

YoungInv ==
    /\ Young(Listed) /\ Young(PeersOf(roster)) /\ Young(AddedPeers(events))
    /\ pc \in {"prune", "add"} => Young(fetched)

\* A removal on its way is of peers that were off the list, or that are not in the roster
\* nor on their way to it before the removal.
Justified(s, i) == \A p \in AllPeers : p.node = s[i].node =>
    \/ p \in absent
    \/ p \notin PeersOf(roster) /\ \A j \in 1..(i - 1) : s[j].type = "added" => s[j].peer # p

AbsentInv ==
    /\ AllPeers \ Listed \subseteq absent
    /\ pc \in {"prune", "add"} => AllPeers \ fetched \subseteq absent
    /\ \A i \in 1..Len(events) : events[i].type = "removed" => Justified(events, i)

RosterInv == TypeInv /\ NumberInv /\ SessionInv /\ FreshInv /\ YoungInv /\ AbsentInv

\* A step of the loop or the heartbeat that neither reads a list nor changes the roster.
Quiet ==
    /\ UNCHANGED <<roster, fetched, registry, lastKey, advertised, absent>>
    /\ events' \in {events, <<>>}
    /\ pc' = pc \/ (pc # "prune" /\ pc' \notin {"prune", "add"})

\* A change of the list by one of the three calls, its news on their way or lost.
Changes(n, k, news) ==
    /\ Change(n, k, news)
    /\ \/ k \in 1..MaxKeys /\ k \in {lastKey[n], lastKey[n] + 1} /\ news = <<Added(n, k)>>
       \/ k \in 1..MaxKeys /\ k = lastKey[n] + 1 /\ news = <<Removed(n), Added(n, k)>>
       \/ k = 0 /\ news = <<Removed(n)>>

LEMMA QuietSteps ==
    ASSUME TypeInv, [Next]_vars
    PROVE  \/ FetchServed \/ Prune \/ Add \/ Consume \/ Quiet
           \/ \E n \in Nodes, k \in 0..MaxKeys : \E news : Changes(n, k, news)
<1>1. FetchFails => Quiet
  BY DEF FetchFails, Quiet, Goto, cpVars, history
<1>2. WriteStatus => Quiet
  BY DEF WriteStatus, Quiet, Goto, cpVars, history
<1>3. SnapshotStatus => Quiet
  BY DEF SnapshotStatus, Quiet, Goto, cpVars, history
<1>4. Subscribe => Quiet
  BY DEF Subscribe, Quiet, Goto, cpVars, history
<1>5. SubscribeFails => Quiet
  BY DEF SubscribeFails, Quiet, Goto, cpVars, history
<1>6. StreamEnds => Quiet
  BY DEF StreamEnds, Quiet, Goto, cpVars, history
<1>7. UNCHANGED <<roster, index, loopVars, events, cpVars, history>> => Quiet
  BY DEF Quiet, loopVars, cpVars, history
<1> QED BY Steps, <1>1, <1>2, <1>3, <1>4, <1>5, <1>6, <1>7 DEF Changes

LEMMA SessionStep == TypeInv /\ SessionInv /\ [Next]_vars => SessionInv'
<1> SUFFICES ASSUME TypeInv, SessionInv, [Next]_vars PROVE SessionInv'
  OBVIOUS
<1>1. FetchServed \/ FetchFails \/ Prune \/ Add => SessionInv'
  BY DEF FetchServed, FetchFails, Prune, Add, Goto, SessionInv
<1>2. WriteStatus \/ SnapshotStatus => SessionInv'
  BY DEF WriteStatus, SnapshotStatus, Goto, SessionInv
<1>3. Subscribe \/ SubscribeFails \/ StreamEnds => SessionInv'
  BY DEF Subscribe, SubscribeFails, StreamEnds, Goto, SessionInv
<1>4. Consume => SessionInv'
  BY DEF Consume, Goto, SessionInv
<1>5. UNCHANGED <<roster, index, loopVars, events, cpVars, history>> => SessionInv'
  BY DEF loopVars, SessionInv
<1>6. ASSUME NEW n, NEW k, NEW news, Change(n, k, news) PROVE SessionInv'
  <2>1. /\ UNCHANGED <<pc, connected>>
        /\ events' \in (IF connected THEN {events \o news} ELSE {events}) \cup {events}
    BY <1>6 DEF Change, loopVars
  <2> QED BY <2>1 DEF SessionInv
<1> QED BY Steps, <1>1, <1>2, <1>3, <1>4, <1>5, <1>6

\* What the stream holds after a change.
LEMMA ChangedEvents ==
    ASSUME TypeInv, NEW n \in Nodes, NEW k \in 0..MaxKeys, NEW news, Changes(n, k, news)
    PROVE  /\ AddedPeers(events') \subseteq AddedPeers(events) \cup {p \in Listed' : p.node = n}
           /\ UNCHANGED <<roster, pc, fetched>>
           /\ registry' = [registry EXCEPT ![n] = k]
           /\ \A m \in Nodes : lastKey'[m] \in Nat /\ lastKey[m] \in Nat /\ lastKey[m] <= lastKey'[m]
           /\ k <= lastKey'[n]
           /\ advertised' = advertised \cup Listed' /\ absent' = absent \cup (AllPeers \ Listed')
<1>1. /\ UNCHANGED <<roster, pc, fetched>>
      /\ registry' = [registry EXCEPT ![n] = k]
      /\ lastKey' = [lastKey EXCEPT ![n] = IF k = 0 THEN @ ELSE k]
      /\ events' \in {events, events \o news}
      /\ advertised' = advertised \cup Listed' /\ absent' = absent \cup (AllPeers \ Listed')
  BY DEF Changes, Change, loopVars
<1>2. registry \in [Nodes -> 0..MaxKeys] /\ lastKey \in [Nodes -> 1..MaxKeys] /\ MaxKeys \in Nat
  BY BoundsAssumption DEF TypeInv
<1>3. k = 0 \/ (k \in 1..MaxKeys /\ k \in {lastKey[n], lastKey[n] + 1})
  BY DEF Changes
<1>4. lastKey'[n] \in Nat /\ lastKey[n] <= lastKey'[n] /\ k <= lastKey'[n]
  BY <1>1, <1>2, <1>3
<1>5. \A m \in Nodes : lastKey'[m] \in Nat /\ lastKey[m] \in Nat /\ lastKey[m] <= lastKey'[m]
  BY <1>1, <1>2, <1>4
<1>6. k \in 1..MaxKeys => [node |-> n, key |-> k] \in {p \in Listed' : p.node = n}
  BY <1>1, <1>2 DEF Listed, AllPeers
<1>7. AddedPeers(events') \subseteq AddedPeers(events) \cup {p \in Listed' : p.node = n}
  <2>1. events \in Seq(Events)
    BY DEF TypeInv
  <2>2. CASE news = <<Removed(n)>>
    <3>1. AddedPeers(events \o <<Removed(n)>>) = AddedPeers(events)
      BY <2>1, NewsOf
    <3> QED BY <1>1, <2>2, <3>1
  <2>3. CASE k \in 1..MaxKeys /\ news \in {<<Added(n, k)>>, <<Removed(n), Added(n, k)>>}
    <3>1. AddedPeers(events \o news) = AddedPeers(events) \cup {[node |-> n, key |-> k]}
      <4>1. /\ AddedPeers(events \o <<Added(n, k)>>) = AddedPeers(events) \cup {[node |-> n, key |-> k]}
            /\ AddedPeers(events \o <<Removed(n), Added(n, k)>>) = AddedPeers(events) \cup {[node |-> n, key |-> k]}
        <5>1. k \in 1..MaxKeys
          BY <2>3
        <5> QED BY <2>1, <5>1, NewsOf
      <4> QED BY <2>3, <4>1
    <3> QED BY <1>1, <1>6, <2>3, <3>1
  <2> QED BY <2>2, <2>3 DEF Changes
<1> QED BY <1>1, <1>4, <1>5, <1>7

LEMMA AddedArePeers == TypeInv => AddedPeers(events) \subseteq AllPeers
BY DEF TypeInv, AddedPeers, Events

\* What one event does to the roster and the stream.
LEMMA ConsumedEvent ==
    ASSUME TypeInv, NumberInv, Consume
    PROVE  /\ UNCHANGED <<fetched, registry, lastKey, advertised, absent>>
           /\ pc = "stream" /\ pc' \in {"status", "stream"}
           /\ events # <<>> /\ events' = Tail(events) /\ Head(events) = events[1]
           /\ AddedPeers(events') \subseteq AddedPeers(events)
           /\ \/ /\ Head(events).type = "added" /\ Head(events).peer \in AddedPeers(events)
                 /\ PeersOf(roster') = PeersOf(roster) \cup {Head(events).peer} /\ roster \subseteq roster'
              \/ /\ Head(events).type = "removed"
                 /\ roster' = {e \in roster : e.peer.node # Head(events).node}
                 /\ PeersOf(roster') \subseteq PeersOf(roster)
<1>1. /\ UNCHANGED <<fetched, registry, lastKey, advertised, absent>>
      /\ pc = "stream" /\ pc' \in {"status", "stream"}
      /\ events # <<>> /\ events' = Tail(events)
  BY DEF Consume, Goto, cpVars, history
<1>2. events \in Seq(Events)
  BY DEF TypeInv
<1>3. Head(events) = events[1] /\ Head(events) \in Events
  BY <1>1, <1>2
<1>4. AddedPeers(events') \subseteq AddedPeers(events)
  BY <1>1, <1>2, AddedPeersOf
<1>5. CASE Head(events).type = "added"
  <2>1. {Head(events).peer} \subseteq AllPeers
    BY <1>3, <1>5 DEF Events
  <2>2. AddTunnPeers({Head(events).peer})
    BY <1>5 DEF Consume
  <2>3. PeersOf(roster') = PeersOf(roster) \cup {Head(events).peer} /\ roster \subseteq roster'
    BY <2>1, <2>2, AddKeepsNumbers
  <2>4. Head(events).peer \in AddedPeers(events)
    BY <1>1, <1>2, <1>5, AddedPeersOf
  <2> QED BY <1>1, <1>3, <1>4, <1>5, <2>3, <2>4
<1>6. CASE Head(events).type # "added"
  <2>1. Head(events).type = "removed"
    BY <1>3, <1>6 DEF Events
  <2>2. roster' = {e \in roster : e.peer.node # Head(events).node}
    BY <1>6 DEF Consume, RemoveByNodeId
  <2>3. PeersOf(roster') \subseteq PeersOf(roster)
    BY <2>2 DEF PeersOf
  <2> QED BY <1>1, <1>3, <1>4, <2>1, <2>2, <2>3
<1> QED BY <1>5, <1>6

LEMMA FreshStep ==
    TypeInv /\ NumberInv /\ SessionInv /\ FreshInv /\ [Next]_vars => FreshInv'
<1> SUFFICES ASSUME TypeInv, NumberInv, SessionInv, FreshInv, [Next]_vars PROVE FreshInv'
  OBVIOUS
<1>0. AddedPeers(<<>>) = {}
  BY DEF AddedPeers
<1>1. CASE FetchServed
  <2>1. /\ pc' = "prune" /\ fetched' = Listed /\ advertised' = Listed
        /\ UNCHANGED <<registry, events>> /\ events = <<>>
    BY <1>1 DEF FetchServed, Goto, cpVars, SessionInv
  <2>2. Listed' = Listed
    BY <2>1 DEF Listed
  <2> QED BY <1>0, <2>1, <2>2 DEF FreshInv, NothingOlderThanTheFetch
<1>2. CASE Prune
  <2>1. /\ pc = "prune" /\ pc' = "add" /\ roster' = {e \in roster : e.peer \in fetched}
        /\ UNCHANGED <<fetched, events, registry, advertised>>
    BY <1>2 DEF Prune, Goto, cpVars, history
  <2>2. Listed' = Listed
    BY <2>1 DEF Listed
  <2>3. PeersOf(roster') \subseteq fetched
    BY <2>1 DEF PeersOf
  <2> QED BY <2>1, <2>2, <2>3 DEF FreshInv, NothingOlderThanTheFetch
<1>3. CASE Add
  <2>1. /\ pc = "add" /\ pc' = "status" /\ UNCHANGED <<events, registry, advertised>>
        /\ AddTunnPeers(fetched) /\ fetched \subseteq AllPeers
    BY <1>3 DEF Add, Goto, cpVars, history, TypeInv
  <2>2. Listed' = Listed
    BY <2>1 DEF Listed
  <2>3. PeersOf(roster') = PeersOf(roster) \cup fetched
    BY <2>1, AddKeepsNumbers
  <2> QED BY <2>1, <2>2, <2>3 DEF FreshInv, NothingOlderThanTheFetch
<1>4. CASE Consume
  <2>1. Listed' = Listed
    BY <1>4, ConsumedEvent DEF Listed
  <2>2. PeersOf(roster') \subseteq PeersOf(roster) \cup AddedPeers(events)
    BY <1>4, ConsumedEvent
  <2>3. /\ pc = "stream" /\ pc' \in {"status", "stream"} /\ advertised' = advertised
        /\ AddedPeers(events') \subseteq AddedPeers(events)
    BY <1>4, ConsumedEvent
  <2> QED BY <2>1, <2>2, <2>3 DEF FreshInv, NothingOlderThanTheFetch
<1>5. CASE Quiet
  <2>1. Listed' = Listed
    BY <1>5 DEF Listed, Quiet
  <2> QED BY <1>0, <1>5, <2>1 DEF Quiet, FreshInv, NothingOlderThanTheFetch
<1>6. ASSUME NEW n \in Nodes, NEW k \in 0..MaxKeys, NEW news, Changes(n, k, news) PROVE FreshInv'
  BY <1>6, ChangedEvents DEF FreshInv, NothingOlderThanTheFetch
<1> QED BY QuietSteps, <1>1, <1>2, <1>3, <1>4, <1>5, <1>6

LEMMA YoungStep ==
    TypeInv /\ NumberInv /\ SessionInv /\ YoungInv /\ [Next]_vars => YoungInv'
<1> SUFFICES ASSUME TypeInv, NumberInv, SessionInv, YoungInv, [Next]_vars PROVE YoungInv'
  OBVIOUS
<1>0. AddedPeers(<<>>) = {}
  BY DEF AddedPeers
<1>1. CASE FetchServed
  BY <1>1 DEF FetchServed, Goto, cpVars, YoungInv, Young, Listed
<1>2. CASE Prune
  <2>1. /\ pc = "prune" /\ roster' = {e \in roster : e.peer \in fetched}
        /\ UNCHANGED <<fetched, events, registry, lastKey>>
    BY <1>2 DEF Prune, Goto, cpVars, history
  <2>2. PeersOf(roster') \subseteq PeersOf(roster)
    BY <2>1 DEF PeersOf
  <2> QED BY <2>1, <2>2 DEF YoungInv, Young, Listed
<1>3. CASE Add
  <2>1. /\ pc = "add" /\ pc' = "status" /\ UNCHANGED <<events, registry, lastKey>>
        /\ AddTunnPeers(fetched) /\ fetched \subseteq AllPeers
    BY <1>3 DEF Add, Goto, cpVars, history, TypeInv
  <2>2. PeersOf(roster') = PeersOf(roster) \cup fetched
    BY <2>1, AddKeepsNumbers
  <2> QED BY <2>1, <2>2 DEF YoungInv, Young, Listed
<1>4. CASE Consume
  <2>1. PeersOf(roster') \subseteq PeersOf(roster) \cup AddedPeers(events)
    BY <1>4, ConsumedEvent
  <2>2. /\ pc' \in {"status", "stream"} /\ UNCHANGED <<registry, lastKey>>
        /\ AddedPeers(events') \subseteq AddedPeers(events)
    BY <1>4, ConsumedEvent
  <2> QED BY <2>1, <2>2 DEF YoungInv, Young, Listed
<1>5. CASE Quiet
  BY <1>0, <1>5 DEF Quiet, YoungInv, Young, Listed
<1>6. ASSUME NEW n \in Nodes, NEW k \in 0..MaxKeys, NEW news, Changes(n, k, news) PROVE YoungInv'
  <2>1. Young(Listed)'
    <3> SUFFICES ASSUME NEW p \in Listed' PROVE p.key <= lastKey'[p.node]
      BY DEF Young
    <3>1. p \in AllPeers /\ p.node \in Nodes /\ p.key \in Nat /\ p.key = registry'[p.node]
      BY BoundsAssumption DEF Listed, AllPeers
    <3>2. CASE p.node = n
      BY <1>6, <3>1, <3>2, ChangedEvents DEF TypeInv
    <3>3. CASE p.node # n
      <4>1. p.key = registry[p.node]
        BY <1>6, <3>1, <3>3, ChangedEvents DEF TypeInv
      <4>2. p.key <= lastKey[p.node]
        BY <3>1, <4>1 DEF YoungInv, Young, Listed
      <4>3. lastKey[p.node] \in Nat /\ lastKey'[p.node] \in Nat /\ lastKey[p.node] <= lastKey'[p.node]
        BY <1>6, <3>1, ChangedEvents
      <4> QED BY <3>1, <4>2, <4>3
    <3> QED BY <3>2, <3>3
  <2>2. ASSUME NEW S, S \subseteq AllPeers, Young(S) PROVE \A p \in S : p.key <= lastKey'[p.node]
    <3> SUFFICES ASSUME NEW p \in S PROVE p.key <= lastKey'[p.node]
      OBVIOUS
    <3>1. p.node \in Nodes /\ p.key \in Nat /\ p.key <= lastKey[p.node]
      BY <2>2, BoundsAssumption DEF Young, AllPeers
    <3>2. lastKey[p.node] \in Nat /\ lastKey'[p.node] \in Nat /\ lastKey[p.node] <= lastKey'[p.node]
      BY <1>6, <3>1, ChangedEvents
    <3> QED BY <3>1, <3>2
  <2>3. PeersOf(roster) \subseteq AllPeers /\ AddedPeers(events) \subseteq AllPeers /\ fetched \subseteq AllPeers
    BY AddedArePeers DEF TypeInv, PeersOf
  <2>4. /\ AddedPeers(events') \subseteq AddedPeers(events) \cup Listed'
        /\ UNCHANGED <<roster, pc, fetched>>
    BY <1>6, ChangedEvents
  <2>5. Young(PeersOf(roster))' /\ (pc \in {"prune", "add"} => Young(fetched))'
    BY <2>2, <2>3, <2>4 DEF YoungInv, Young
  <2>6. Young(AddedPeers(events))'
    <3>1. \A p \in AddedPeers(events) : p.key <= lastKey'[p.node]
      BY <2>2, <2>3 DEF YoungInv
    <3> QED BY <2>1, <2>4, <3>1 DEF Young
  <2> QED BY <2>1, <2>5, <2>6 DEF YoungInv
<1> QED BY QuietSteps, <1>1, <1>2, <1>3, <1>4, <1>5, <1>6

LEMMA AbsentStep ==
    TypeInv /\ NumberInv /\ SessionInv /\ YoungInv /\ AbsentInv /\ [Next]_vars => AbsentInv'
<1> SUFFICES ASSUME TypeInv, NumberInv, SessionInv, YoungInv, AbsentInv, [Next]_vars PROVE AbsentInv'
  OBVIOUS
<1>0. events \in Seq(Events)
  BY DEF TypeInv
<1>1. CASE FetchServed
  <2>1. /\ pc' = "prune" /\ fetched' = Listed /\ absent' = AllPeers \ Listed
        /\ UNCHANGED <<registry, events>> /\ events = <<>>
    BY <1>1 DEF FetchServed, Goto, cpVars, SessionInv
  <2>2. Listed' = Listed
    BY <2>1 DEF Listed
  <2> QED BY <2>1, <2>2 DEF AbsentInv
<1>2. CASE Prune \/ Add
  <2>1. /\ pc \in {"prune", "add"} /\ UNCHANGED <<fetched, registry, events, absent>> /\ events = <<>>
    BY <1>2 DEF Prune, Add, Goto, cpVars, history, SessionInv
  <2>2. Listed' = Listed
    BY <2>1 DEF Listed
  <2> QED BY <2>1, <2>2 DEF AbsentInv
<1>3. CASE Consume
  <2>1. /\ UNCHANGED <<registry, absent>> /\ pc' \in {"status", "stream"}
        /\ events # <<>> /\ events' = Tail(events) /\ Head(events) = events[1]
        /\ \/ Head(events).type = "added" /\ PeersOf(roster') = PeersOf(roster) \cup {Head(events).peer}
           \/ PeersOf(roster') \subseteq PeersOf(roster)
    BY <1>3, ConsumedEvent
  <2>2. Listed' = Listed
    BY <2>1 DEF Listed
  <2>3. ASSUME NEW i \in 1..Len(events'), events'[i].type = "removed",
               NEW p \in AllPeers, p.node = events'[i].node, p \notin absent
        PROVE  p \notin PeersOf(roster') /\ \A j \in 1..(i - 1) : events'[j].type = "added" => events'[j].peer # p
    <3>1. /\ i + 1 \in 1..Len(events) /\ events'[i] = events[i + 1]
          /\ \A j \in 1..(i - 1) : j + 1 \in 1..((i + 1) - 1) /\ events'[j] = events[j + 1]
          /\ 1 \in 1..((i + 1) - 1)
      BY <1>0, <2>1
    <3>2. p \notin PeersOf(roster) /\ \A j \in 1..((i + 1) - 1) : events[j].type = "added" => events[j].peer # p
      BY <2>3, <3>1 DEF AbsentInv, Justified
    <3>3. p \notin PeersOf(roster')
      BY <2>1, <3>1, <3>2
    <3> QED BY <3>1, <3>2, <3>3
  <2> QED BY <2>1, <2>2, <2>3 DEF AbsentInv, Justified
<1>4. CASE Quiet
  <2>1. /\ UNCHANGED <<roster, fetched, absent>> /\ events' \in {events, <<>>}
        /\ pc' = pc \/ (pc # "prune" /\ pc' \notin {"prune", "add"})
        /\ Listed' = Listed
    BY <1>4 DEF Quiet, Listed
  <2>2. ASSUME NEW i \in 1..Len(events'), events'[i].type = "removed" PROVE Justified(events, i)'
    <3>1. events' = events
      BY <2>1, <2>2
    <3> QED BY <2>1, <2>2, <3>1 DEF AbsentInv, Justified
  <2> QED BY <2>1, <2>2 DEF AbsentInv
<1>5. ASSUME NEW n \in Nodes, NEW k \in 0..MaxKeys, NEW news, Changes(n, k, news) PROVE AbsentInv'
  <2>1. /\ UNCHANGED <<roster, pc, fetched>>
        /\ registry' = [registry EXCEPT ![n] = k]
        /\ absent' = absent \cup (AllPeers \ Listed')
    BY <1>5, ChangedEvents
  <2>2. events' \in {events, events \o news}
    BY <1>5 DEF Changes, Change
  <2>3. ASSUME NEW i \in 1..Len(events), events[i].type = "removed",
               NEW p \in AllPeers, p.node = events[i].node, p \notin absent'
        PROVE  p \notin PeersOf(roster) /\ \A j \in 1..(i - 1) : events[j].type = "added" => events[j].peer # p
    BY <2>1, <2>3 DEF AbsentInv, Justified
  <2>4. CASE events' = events
    <3>1. \A i \in 1..Len(events') : events'[i].type = "removed" => Justified(events, i)'
      BY <2>1, <2>3, <2>4 DEF Justified
    <3> QED BY <2>1, <3>1 DEF AbsentInv
  <2>5. CASE events' = events \o news /\ news # <<Removed(n), Added(n, k)>> /\ news # <<Removed(n)>>
    <3>1. news = <<Added(n, k)>> /\ Added(n, k).type = "added"
      BY <1>5, <2>5 DEF Changes, Added
    <3>2. /\ \A i \in 1..Len(events') : i \in 1..Len(events) \/ events'[i] = Added(n, k)
          /\ \A i \in 1..Len(events) : events'[i] = events[i]
      BY <1>0, <2>5, <3>1
    <3>3. \A i \in 1..Len(events') : events'[i].type = "removed" => Justified(events, i)'
      <4> SUFFICES ASSUME NEW i \in 1..Len(events'), events'[i].type = "removed" PROVE Justified(events, i)'
        OBVIOUS
      <4>1. i \in 1..Len(events) /\ events[i].type = "removed" /\ events'[i] = events[i]
        BY <3>1, <3>2
      <4>2. \A j \in 1..(i - 1) : j \in 1..Len(events) /\ events'[j] = events[j]
        BY <1>0, <3>2, <4>1
      <4> QED BY <2>1, <2>3, <4>1, <4>2 DEF Justified
    <3> QED BY <2>1, <3>3 DEF AbsentInv
  <2>6. CASE events' = events \o news /\ news \in {<<Removed(n), Added(n, k)>>, <<Removed(n)>>}
    <3>1. ASSUME NEW p \in AllPeers, p.node = n, p \notin absent'
          PROVE  p \notin PeersOf(roster) /\ p \notin AddedPeers(events)
      <4>1. p.key = k /\ k # 0
        BY <2>1, <3>1, BoundsAssumption DEF Listed, AllPeers, TypeInv
      <4>2. k = lastKey[n] + 1 /\ lastKey[n] \in Nat
        BY <1>5, <2>6, <4>1, BoundsAssumption DEF Changes, Added, Removed, TypeInv
      <4> QED BY <3>1, <4>1, <4>2 DEF YoungInv, Young
    <3>2. /\ \A i \in 1..Len(events') : \/ i \in 1..Len(events)
                                        \/ i = Len(events) + 1 /\ events'[i] = Removed(n)
                                        \/ events'[i] = Added(n, k)
          /\ \A i \in 1..Len(events) : events'[i] = events[i]
      <4>1. CASE events' = events \o <<Removed(n)>>
        BY <1>0, <4>1
      <4>2. CASE events' = events \o <<Removed(n), Added(n, k)>>
        BY <1>0, <4>2
      <4> QED BY <2>6, <4>1, <4>2
    <3>3. Removed(n).node = n /\ Added(n, k).type # "removed"
      BY DEF Removed, Added
    <3>4. ASSUME NEW i \in 1..Len(events'), events'[i].type = "removed" PROVE Justified(events, i)'
      <4>1. CASE i \in 1..Len(events)
        BY <1>0, <2>1, <2>3, <3>2, <3>4, <4>1 DEF Justified
      <4>2. CASE i = Len(events) + 1 /\ events'[i] = Removed(n)
        <5>1. ASSUME NEW p \in AllPeers, p.node = n, p \notin absent', NEW j \in 1..(i - 1), events'[j].type = "added"
              PROVE  events'[j].peer # p
          <6>1. j \in 1..Len(events) /\ events'[j] = events[j]
            BY <1>0, <3>2, <4>2
          <6>2. events[j].peer \in AddedPeers(events)
            BY <5>1, <6>1 DEF AddedPeers
          <6> QED BY <3>1, <5>1, <6>1, <6>2
        <5> QED BY <2>1, <3>1, <3>3, <4>2, <5>1 DEF Justified
      <4> QED BY <3>2, <3>3, <3>4, <4>1, <4>2
    <3> QED BY <2>1, <3>4 DEF AbsentInv
  <2> QED BY <2>2, <2>4, <2>5, <2>6
<1> QED BY QuietSteps, <1>1, <1>2, <1>3, <1>4, <1>5

LEMMA RosterInitially == Init => SessionInv /\ FreshInv /\ YoungInv /\ AbsentInv
<1> SUFFICES ASSUME Init PROVE SessionInv /\ FreshInv /\ YoungInv /\ AbsentInv
  OBVIOUS
<1>1. PeersOf(roster) = Listed
  <2>1. PICK number \in Numberings(Listed, 0) : roster = Entries(number)
    BY DEF Init
  <2> QED BY <2>1, ListedArePeers, NumbersInTurn DEF InTurn
<1>2. AddedPeers(events) = {}
  BY DEF Init, AddedPeers
<1>3. Young(Listed)
  BY DEF Init, Young, Listed, AllPeers
<1> QED BY <1>1, <1>2, <1>3 DEF Init, SessionInv, FreshInv, NothingOlderThanTheFetch, YoungInv, Young, AbsentInv

LEMMA RosterInvariant == Spec => []RosterInv
<1>1. Init => TypeInv /\ NumberInv
  BY NumbersInitially
<1>2. TypeInv /\ NumberInv /\ SessionInv /\ FreshInv /\ YoungInv /\ AbsentInv /\ [Next]_vars
        => TypeInv' /\ NumberInv' /\ SessionInv' /\ FreshInv' /\ YoungInv' /\ AbsentInv'
  BY TypeStep, SessionStep, FreshStep, YoungStep, AbsentStep
<1> QED BY <1>1, <1>2, RosterInitially, PTL DEF Spec, RosterInv

\* With a list and a stream read at different moments, in every order of losses, failed
\* fetches and ended sessions, no peer is brought back that had left the list before the last
\* fetch (serve_dataplane, consume_peer_sse).
THEOREM NoPeerIsBroughtBack == Spec => []NothingOlderThanTheFetch
<1>1. RosterInv => NothingOlderThanTheFetch
  BY DEF RosterInv, FreshInv
<1> QED BY <1>1, RosterInvariant, PTL

\* No step drops the tunnel of a peer that has been on the list ever since the last fetch
\* (reconcile_peers, remove_peer_by_node_id).
THEOREM NoTunnelIsDroppedForNothing == Spec => OnlyUnlistedAreDropped
<1>1. RosterInv /\ [Next]_vars => [\A e \in roster : e \in roster' \/ e.peer \in absent]_vars
  <2> SUFFICES ASSUME TypeInv, NumberInv, SessionInv, AbsentInv, [Next]_vars, NEW e \in roster, e \notin roster'
               PROVE  e.peer \in absent
    BY DEF RosterInv
  <2>1. e.peer \in AllPeers /\ e.peer \in PeersOf(roster)
    BY DEF TypeInv, PeersOf
  <2>2. CASE Prune
    BY <2>1, <2>2 DEF Prune, AbsentInv
  <2>3. CASE Add
    <3>1. fetched \subseteq AllPeers /\ AddTunnPeers(fetched)
      BY <2>3 DEF Add, TypeInv
    <3> QED BY <3>1, AddKeepsNumbers
  <2>4. CASE Consume
    <3>1. /\ events # <<>> /\ Head(events) = events[1]
          /\ \/ roster \subseteq roster'
             \/ /\ Head(events).type = "removed"
                /\ roster' = {d \in roster : d.peer.node # Head(events).node}
      BY <2>4, ConsumedEvent
    <3>2. events[1].type = "removed" /\ e.peer.node = events[1].node
      BY <3>1
    <3>3. 1 \in 1..Len(events)
      BY <3>1 DEF TypeInv
    <3> QED BY <2>1, <3>2, <3>3 DEF AbsentInv, Justified
  <2>5. FetchServed \/ Quiet \/ (\E n, k, news : Changes(n, k, news)) => UNCHANGED roster
    BY DEF FetchServed, Quiet, Changes, Change
  <2> QED BY QuietSteps, <2>2, <2>3, <2>4, <2>5
<1> QED BY <1>1, RosterInvariant, PTL DEF Spec, OnlyUnlistedAreDropped

=============================================================================
