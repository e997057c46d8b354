------------------------------ MODULE PeerRoster ------------------------------
(***************************************************************************)
(* The roster of peers a node runs tunnels with (agent-core/src/pump.rs)   *)
(* and the loop that keeps it equal to the control plane's list            *)
(* (agent-daemon/src/up.rs, serve_dataplane and consume_peer_sse).         *)
(*                                                                         *)
(* Each cycle fetches the list, prunes and adds in two locked sections,    *)
(* writes the status file, subscribes to events and applies them until the *)
(* session ends.  A heartbeat thread writes the status file as well        *)
(* (agent-core/src/status.rs).                                             *)
(***************************************************************************)
EXTENDS Integers, Sequences, FiniteSets, Functions

CONSTANTS
    Nodes,       \* the tenant's other nodes, one overlay address each
    MaxKeys,     \* bound: keypairs a node goes through
    MaxChanges,  \* bound: changes of the control plane's list
    Lossy        \* whether an event may get lost within a session

ASSUME BoundsAssumption ==
    /\ IsFiniteSet(Nodes)
    /\ MaxKeys \in Nat \ {0} /\ MaxChanges \in Nat /\ Lossy \in BOOLEAN

VARIABLES
    roster,      \* Peers: a PeerEntry has the peer and its tunnel's number
    index,       \* the counter that numbers tunnels
    pc,          \* where the refresh loop is
    fetched,     \* local `list`
    connected,   \* an event stream is open
    events,      \* what the stream holds for the loop
    buf,         \* per writer: the snapshot it is about to write
    status,      \* peers in the status file
    registry,    \* control plane: key of each node, 0 when it has none
    lastKey,     \* control plane: the youngest key of each node
    changes,
    advertised,  \* history: peers listed at some time since the last fetch
    absent       \* history: peers unlisted at some time since the last fetch

loopVars == <<pc, fetched, connected>>
cpVars   == <<registry, lastKey, changes>>
history  == <<advertised, absent>>
vars     == <<roster, index, loopVars, events, buf, status, cpVars, history>>

AllPeers == [node : Nodes, key : 1..MaxKeys]
Listed   == {p \in AllPeers : registry[p.node] = p.key}
Writers  == {"loop", "heartbeat"}

PeersOf(r) == {e.peer : e \in r}

-----------------------------------------------------------------------------
(* add_tunn_peers and remove_peer_by_node_id (pump.rs). *)

\* Mistaken variant: nothing tells which peers have a tunnel.
NewPeersBlind(r, list) == list

\* The peers of `list` no entry has the key of.
NewPeers(r, list) == list \ PeersOf(r)

\* A PeerEntry: the peer and the index its session is known by.
Entry(peer, i) == [peer |-> peer, index |-> i]

\* Each peer takes the next number, in the order of the list.
Numberings(peers, from) == Bijection(peers, (from + 1)..(from + Cardinality(peers)))
Entries(number)         == {Entry(p, number[p]) : p \in DOMAIN number}

AddTunnPeers(list) ==
    LET new == NewPeers(roster, list) IN
    /\ \E number \in Numberings(new, index) : roster' = roster \cup Entries(number)
    /\ index' = index + Cardinality(new)

RemoveByNodeId(n) ==
    /\ roster' = {e \in roster : e.peer.node # n}
    /\ UNCHANGED index

-----------------------------------------------------------------------------
(* The refresh loop (up.rs). *)

Goto(there) == pc' = there

\* The list as the control plane has it when it answers.
FetchServed ==
    /\ pc = "sync" /\ Goto("prune")
    /\ fetched' = Listed
    /\ advertised' = Listed /\ absent' = AllPeers \ Listed
    /\ UNCHANGED <<roster, index, connected, events, buf, status, cpVars>>

\* Mistaken variant: a failed fetch is taken for an empty list.
FetchFailsEmpty ==
    /\ pc = "sync" /\ Goto("prune")
    /\ fetched' = {}
    /\ UNCHANGED <<roster, index, connected, events, buf, status, cpVars, history>>

\* Transport error, timeout, refused token: the last known roster is kept.
FetchFails ==
    /\ pc = "sync" /\ Goto("status")
    /\ UNCHANGED <<roster, index, fetched, connected, events, buf, status, cpVars, history>>

\* Mistaken variant: entries are told apart by their node.
PruneByNode ==
    /\ pc = "prune" /\ Goto("add")
    /\ roster' = {e \in roster : \E p \in fetched : p.node = e.peer.node}
    /\ UNCHANGED <<index, fetched, connected, events, buf, status, cpVars, history>>

\* reconcile_peers, first locked section: entries whose key is not listed go.
Prune ==
    /\ pc = "prune" /\ Goto("add")
    /\ roster' = {e \in roster : e.peer \in fetched}
    /\ UNCHANGED <<index, fetched, connected, events, buf, status, cpVars, history>>

\* Second locked section: add_tunn_peers.
Add ==
    /\ pc = "add" /\ Goto("status")
    /\ AddTunnPeers(fetched)
    /\ UNCHANGED <<fetched, connected, events, buf, status, cpVars, history>>

\* write_status: a snapshot under the lock, then the file.
SnapshotStatus ==
    /\ pc = "status" /\ Goto("write")
    /\ buf' = [buf EXCEPT !["loop"] = PeersOf(roster)]
    /\ UNCHANGED <<roster, index, fetched, connected, events, status, cpVars, history>>

WriteStatus ==
    /\ pc = "write" /\ Goto(IF connected THEN "stream" ELSE "subscribe")
    /\ status' = buf["loop"]
    /\ UNCHANGED <<roster, index, fetched, connected, events, buf, cpVars, history>>

Subscribe ==
    /\ pc = "subscribe" /\ Goto("stream")
    /\ connected' = TRUE /\ events' = <<>>
    /\ UNCHANGED <<roster, index, fetched, buf, status, cpVars, history>>

\* Error or 30 s cap; then the sleep, and the loop goes on.
SubscribeFails ==
    /\ pc = "subscribe" /\ Goto("sync")
    /\ UNCHANGED <<roster, index, fetched, connected, events, buf, status, cpVars, history>>

\* consume_peer_sse: peer_added, peer_removed; the status follows a change.
Consume ==
    /\ pc = "stream" /\ events # <<>>
    /\ events' = Tail(events)
    /\ LET e == Head(events) IN
        IF e.type = "added" THEN AddTunnPeers({e.peer}) ELSE RemoveByNodeId(e.node)
    /\ Goto(IF roster' # roster THEN "status" ELSE "stream")
    /\ UNCHANGED <<fetched, connected, buf, status, cpVars, history>>

\* Mistaken variant: what the old session left is read in the next one.
StreamEndsLeavingEvents ==
    /\ pc = "stream" /\ Goto("sync")
    /\ UNCHANGED <<roster, index, fetched, connected, events, buf, status, cpVars, history>>

\* Closed by the server, a read error, or the 60 s cap.
StreamEnds ==
    /\ pc = "stream" /\ Goto("sync")
    /\ connected' = FALSE /\ events' = <<>>
    /\ UNCHANGED <<roster, index, fetched, buf, status, cpVars, history>>

-----------------------------------------------------------------------------
(* spawn_status_heartbeat. *)

\* Mistaken variant: a snapshot is taken once.
HeartbeatSnapshotOnce ==
    /\ buf' = [buf EXCEPT !["heartbeat"] = IF @ = {} THEN PeersOf(roster) ELSE @]
    /\ UNCHANGED <<roster, index, loopVars, events, status, cpVars, history>>

HeartbeatSnapshot ==
    /\ buf' = [buf EXCEPT !["heartbeat"] = PeersOf(roster)]
    /\ UNCHANGED <<roster, index, loopVars, events, status, cpVars, history>>

HeartbeatWrite ==
    /\ status' = buf["heartbeat"]
    /\ UNCHANGED <<roster, index, loopVars, events, buf, cpVars, history>>

-----------------------------------------------------------------------------
(* The control plane (external). *)

\* Node n gets key k (0: it is removed).  Subscribers are told, or the event
\* is lost on the way.
Change(n, k, news) ==
    /\ changes < MaxChanges /\ changes' = changes + 1
    /\ registry' = [registry EXCEPT ![n] = k]
    /\ lastKey' = [lastKey EXCEPT ![n] = IF k = 0 THEN @ ELSE k]
    /\ advertised' = advertised \cup Listed'
    /\ absent' = absent \cup (AllPeers \ Listed')
    /\ events' \in (IF connected THEN {events \o news} ELSE {events})
                    \cup (IF Lossy THEN {events} ELSE {})
    /\ UNCHANGED <<roster, index, loopVars, buf, status>>

Added(n, k) == [type |-> "added", peer |-> [node |-> n, key |-> k]]
Removed(n)  == [type |-> "removed", node |-> n]

\* A node comes (back), with its last keypair or a new one.
Enrol(n) ==
    /\ registry[n] = 0
    /\ \E k \in {lastKey[n], lastKey[n] + 1} :
        k <= MaxKeys /\ Change(n, k, <<Added(n, k)>>)

\* A machine whose agent.json was rebuilt rotates its key in place.
Rekey(n) ==
    /\ registry[n] \in 1..(MaxKeys - 1)
    /\ LET k == lastKey[n] + 1 IN
        k <= MaxKeys /\ \E news \in {<<Added(n, k)>>, <<Removed(n), Added(n, k)>>} :
            Change(n, k, news)

Unlist(n) == registry[n] # 0 /\ Change(n, 0, <<Removed(n)>>)

-----------------------------------------------------------------------------
\* The initial roster is a first fetch and add_new_peers.
Init ==
    /\ registry \in [Nodes -> 0..1] /\ lastKey = [n \in Nodes |-> 1]
    /\ \E number \in Numberings(Listed, 0) : roster = Entries(number)
    /\ index = Cardinality(Listed)
    /\ pc = "sync" /\ fetched = {} /\ connected = FALSE /\ events = <<>>
    /\ buf = [w \in Writers |-> Listed] /\ status = Listed
    /\ changes = 0
    /\ advertised = Listed /\ absent = AllPeers \ Listed

Loop ==
    \/ FetchServed \/ FetchFails \/ Prune \/ Add
    \/ SnapshotStatus \/ WriteStatus
    \/ Subscribe \/ SubscribeFails \/ Consume \/ StreamEnds

Next ==
    \/ Loop
    \/ HeartbeatSnapshot \/ HeartbeatWrite
    \/ \E n \in Nodes : Enrol(n) \/ Rekey(n) \/ Unlist(n)

Spec == Init /\ [][Next]_vars

\* The loop never stops: every await in it has a cap, and a fetch that is
\* tried for ever succeeds for ever (the control plane is not gone).
Fairness ==
    /\ WF_vars(Loop) /\ WF_vars(StreamEnds) /\ SF_vars(FetchServed)
    /\ WF_vars(HeartbeatSnapshot) /\ WF_vars(HeartbeatWrite)

FairSpec == Spec /\ Fairness

-----------------------------------------------------------------------------
(* Properties. *)

\* Two ways to add a peer, the list and the stream, never give it two tunnels,
\* and no two tunnels the same number, which tells their sessions apart.
OneTunnelPerPeer ==
    \A d, e \in roster : d.peer = e.peer \/ d.index = e.index => d = e

\* Outside a resync the roster holds no peer that had left the list before the
\* last fetch: no event of an older session brings it back.
NothingOlderThanTheFetch == pc # "prune" => PeersOf(roster) \subseteq advertised

\* A tunnel is dropped only when its peer was off the list at some time since
\* the last fetch: failed fetches and repeated resyncs keep the sessions.
OnlyUnlistedAreDropped ==
    [][\A e \in roster : e \in roster' \/ e.peer \in absent]_vars

\* Whatever events were lost between a fetch and a subscription or within a
\* session, the roster becomes the control plane's list.
Converges == <>[](PeersOf(roster) = Listed)

\* A removed peer disappears from the status file, though two threads write
\* snapshots that may be old (reconcile_peers: a revoked peer's address must
\* not stay in agent-status.json for ever).
StatusConverges == <>[](status = Listed)

=============================================================================
