# Ankayma open client: TLA+ models, checks and proofs

The repository is the client side of a mesh VPN: a node daemon (Rust) that
enrols with a closed control plane, runs WireGuard tunnels to its peers, serves
SSH to those the control plane allows, reports what was run, and relays traffic
when peers cannot reach each other; a desktop application (Tauri) that signs in,
enrols the device and drives the daemon through a service of the system; an iOS
packet tunnel; and a userspace tunnel for deploys from CI. This directory holds
TLA+ modules of their concurrent parts, TLC configurations that check them on
small instances, and proofs checked by TLAPS. Paths below are relative to
`src/crates/` unless they begin with `gui/` or `frontend/`, which are under
`src/`.

## 1. The system

| Component | State it keeps | Operations | What is hard | Module |
|---|---|---|---|---|
| Command outcome reporting (`agent-core/src/exec_outcome.rs`, `adapters.rs` `deliver_outcomes`) | bounded in-memory queue, drained batch, captured token | push, drain, post, requeue | pushes between the steps of a delivery; answers lost; overflow; token rotation | `OutcomeDelivery`, `OutcomeReporting` |
| Identity file (`agent-daemon/src/up.rs`) | agent.json, token in memory | enrol, renew, refresh the CRL, crash, start | read-modify-write by two tasks; truncate then write, either of which may fail; answers lost, or not stored, after the server rotated | `AgentFile` |
| Peer roster (`up.rs` `serve_dataplane`, `pump.rs`, `status.rs`) | peer list, tunnel index, status file | fetch and reconcile, events, heartbeat | list and events from different moments; two writers of a file | `PeerRoster` |
| Embedded SSH server (`agent-core/src/ssh_server.rs`) | per connection: pending and active grants, child, writer; per channel: threads, task, timer | env, exec, shell, data, eof, output, deadline, drop | blocking threads and async tasks on one run; children that leave descendants or close their output; slots shared by channels; disconnects | `SshConnection` |
| Paths (`pump.rs`, `relay_transport.rs`, `disco.rs`) | endpoint per peer, relay leg, reflexive address, debounce | send, receive, rendezvous, burst, reconnect | two nodes that must act at the same time; roaming; half-dead connections | `PeerPath` |
| Application (`gui/src-tauri/src/lib.rs`) | session and node in memory and on disk, base URL, daemon | sign in, check, re-authenticate, connect, join, start, sign out | async commands that read state, wait for the control plane and write it; writes that fail; regions | `AppSession` |
| Step-up (`frontend/app-gui/src/lib/stepup.ts`, `lib.rs`, `webauthn_apple.rs`) | one dialog, one slot for the security key, a key in the enclave and on the account | run an action, sign, ask for a code, cancel; make, register, remove the key | flows that share the dialog; two stores of one key, whose deletion may fail | `StepUp` |
| Control-plane client (`agent-core/src/adapters.rs`, `lib.rs`) | none; the export and the demo keep a position | one request per function, export of the ledger, sample demo | demands hidden in refusals; silence; headers that are missing; retries of what was done or is still on its way | `CpCalls` |
| Private names (`agent-daemon/src/tls_relay.rs`, `resolver.rs`) | resolver, route and certificate tables, key and certificate files, attempted names | resync, request, poll, event, listen | a certificate that arrives by poll or by event; torn and unreadable files; restarts; renewals | `Subdomains` |
| DNS in the tunnel (`agent-core/src/dns.rs`, `pump.rs`, `agent-ios-ptp/src/lib.rs`) | parked queries by token, upstreams | answer, forward, relay, fail, reap | every query needs an answer, on every way to fail | `TunnelDns` |
| CI deploy (`agent-daemon/src/netstack.rs`) | bridges, buffers, TCP sockets | accept, read, poll, move, flush, reap | order within a tick; the end of either side | `Netstack` |
| Windows service (`win_supervisor.rs`, `win_ipc.rs`, `win_service*.rs`) | the child and its credentials | connect, disconnect, status, stop | several clients; children that exit; a stop reported while the pipe is served | `WinSupervisor` |
| macOS helper (`gui/src-tauri/macos/PrivilegedHelper/src/main.rs`, `lib.rs`) | last spawned agent, pid file, copy of agent.json | register, start, stop | restarts of the helper; process numbers; an identity with two owners, enrolled again and renewed | `MacHelper` |
| Grant verification, ledger client, agent identities, SSH client, command-line sign-in, STUN and frame codecs, rate limit, cryptography, TUN devices, entry points, VPN glue | - | - | sequential flows, pure functions, codecs, platform glue | not modelled (section 5) |

How they interact. `up::run` loads or enrols (`AgentFile`), starts the pump
threads and the relay leg (`PeerPath`), then loops over fetch, reconcile and
events (`PeerRoster`); each pass resyncs the private names (`Subdomains`). The
SSH server runs commands under grants (`SshConnection`) and pushes one outcome
for each on the queue that the delivery task drains (`OutcomeDelivery`). The
renewal task rotates the service token, which others use: the refresh loop
follows the shared cell; the delivery task, the relay leg and the owner tasks of
names keep the one they started with. That staleness is in `OutcomeDelivery`
(`heldToken`), `PeerPath` (`auth`) and `Subdomains` (`task.stale`). The
application (`AppSession`) makes requests (`CpCalls`), some of which need a proof
(`StepUp`), and starts the agent through `WinSupervisor` or `MacHelper`; the
latter seeds the file of `AgentFile`.

What makes each correct, in a sentence. Reporting: an outcome is in one place
until the control plane decided about it. Identity: the node is locked out only
by the few events that cannot be avoided. Roster: it becomes the control
plane's list, and no live session is dropped on the way. SSH: what the client
and the ledger are told of a run is true, and an elevated command is killed. Paths: traffic
moves where the peer is heard, and pairs get there. Application: signing out
leaves nothing but what it could not remove, and only a refusal signs out. Step-up: every caller is answered.
Requests: a demand is heard, silence ends. Names: the right certificate, the
latest one. DNS: every exit answers. Deploy: no byte is lost at an end. Supervisors:
one agent, with credentials that work.

The hazards of the code, each at its line, are in `PROJECT.json`; the smaller
ones are in section 6.

## 2. The modules and the code

**OutcomeDelivery.** `queue` is `OutcomeQueue.inner`; `pending` and `sending`
are the locals of `deliver_outcomes`. `Tick` drains, `Post` sends the first,
`Delivered`, `Refused` and `RequeueFailed` are the three arms of the answer,
`RequeueLeft` the loop that puts the rest back one by one, each under its own
lock; `Push` may come in between. Requests may be lost, time out and still
arrive later. `fate` is a history variable: "evicted" is an overflow the node
reports (push), "forgotten" one it does not (requeue).
**OutcomeReporting** is the abstract promise: an outcome is held, then
acknowledged or let go; the ledger has it at most once, and before any
acknowledgement. `Promise` in `OutcomeDelivery` is the refinement mapping. A
4xx counts as letting go, the one for a token that was rotated included.

**AgentFile.** `persist_state` is two steps, `Truncate` and `Write`, because
`fs::write` is; `Load` is the read of `persist_service_token` and of
`refresh_crl_once`. A write over what another writer wrote since the truncation
may leave a tail: a torn file. `PersistFails` is the error of any of the three: a
task logs it and goes on (up.rs:1614), with an empty or torn file where it was the
write that failed; an enrolment ends the start. The control plane is external: `Rotate`
invalidates the presented token at once. `causes` is a history variable that
names what went wrong so far.

**PeerRoster.** `roster` is `Peers`, as the set of its entries: nothing depends on
their order, and the number of its tunnel tells an entry from another. `Prune` and
`Add` are the two locked sections of `reconcile_peers`, where `Add` numbers the new
peers in the order of the list, whatever that is (`Numberings`); `Consume` is one
event of `consume_peer_sse`;
`WriteStatus` and the two heartbeat steps are the snapshot under the lock and
the write after it. `Loop` is the loop's own control (fetch failed, subscribe
failed, stream ended).

**SshConnection.** `session` is the task that runs the handlers one at a time:
waiting, blocked in `write_all` (in `data`), or over. Children, reader threads,
the forwarder task and the deadline timer of each channel take their own steps.
The end of a process and the end of its output are different things: `held` is who
of the child and its descendants (`kin`) has a stream open, and a reader ends
(`ReaderEof`) when nobody has. The child may fork (`ChildForks`), close a stream
and live on (`StreamCloses`), and its descendants write, read and end after it.
`Killed` is one signal to one process: descendants stay, and what the library of
the terminal does to a shell is not looked at, so the shell may live on.
`writer`, `shell`, `pending` and `active` belong to the connection as in
`ConnHandler`, whatever channel a request is for. Whether a key or a token
verifies is a choice of the handler that looks at it. Output is counted in
chunks, over all streams of a channel (`wrote`); a pipe holds one, the channel
between threads `Capacity` (64 in the code), and the session takes one message at
a time. `MCSshConnection` adds the symmetry of the second run.

**PeerPath.** `endpoint` is `PeerEntry.endpoint` (0 for `None`), `leg` the
relay connection with its supervisor, `recent`, `punch` and `reflexive` the
state of `disco.rs`. WireGuard is external: every datagram of the peer
authenticates, initiations are answered. A NAT lets in what comes from an
address the node sent to. The network may lose, delay and reorder.

**AppSession.** `session`, `base`, `node` and `pending` are the locked cells of
`AppState`, `sessionFile` and `agentFile` what is on disk. Each command is an
async function; `op` says at which await it is and what it read before. What
it does between two awaits is one step: `CheckStart`, `CheckValid`,
`CheckInvalid`, `TryReauth`, `Refreshed`, `Reauthed`, `ReauthRefused` and
`ReauthInconclusive` are `check_auth_state` with the two awaits of
`try_reauth_via_device_key`, each of which may refuse or fail; `ConnectStart`, `Enrolled`,
`Persisted`, `PersistFails`, `Rollback` are `connect_inner`, shared where the
code is with `join_enroll_node`; `SignOutStart`, `Retire`, `ClearSession`,
`ForgetNode` are `sign_out` at its awaits. A tenant of another region is not
known to the gateway (`foreign`), which a cold start asks. `Save`, `Clear` and
`ForgetNode` may fail to write or to remove a file, which the code passes over. A
deep link may arrive at any time; `sign_out` does not drop one that is held.
`raced`, `left` and `astray` are history variables for what the properties exclude:
`left` is what the last `sign_out` could not remove, or did not.

**StepUp.** A flow is one call of `runWithStepUp`; `at` is the await it is in,
`settled` whether its promise is. `modal` is the one `stepUp` store, `ceremony`
the thread-local slot `IN_FLIGHT`, whose replacement drops a delegate and so
answers its worker. `enclave` and `account` are the two places of a platform
key; `EnrollStart`, `Probed` and `Registered` are `platform_key_enroll`,
`RemoveKey` and `DropLocal` are `platform_key_remove`. A deletion whose result is
not looked at may fail (`DeleteKeyUnseen`), and the application may end between the
two stores (`AppQuits`); `parted` is the history of what may have parted them since
a key was last enrolled.

**CpCalls.** Every request function is a member of `Endpoints`: its credential,
whether it has a place for a proof, whether it has a timeout, and what becomes
of a refusal (its status only, or a typed error). `Send`, `Served`, `TimesOut`,
`Break` and `Told` are the life of one request. `ExportStart`, `PageRead`, `Capped`,
`PageFails` and `Exported` are `export_ledger`, whose pages the ledger grows under:
a page is the last when the control plane says so or when it has no cursor, and a
cursor that is missing or not a number counts as none (`cut`). `PublishStart`,
`Listed` and `RegisterLabel` are `publish_sample_demo`; a registration that timed
out at the client is still on its way (`late`) and may arrive at any time
(`LateArrival`).

**Subdomains.** `Resync` is one pass of the loop in `up.rs`: the resolver's table
(`SetTable`), routes (`EnsureHttpListener`), owner tasks (`SpawnOwnerTasks`),
certificates (`EnsureListener`). `Submit`, `PollHit` and `PollMiss` are an
owner task, `Push` is the `cert_issued` event. `sni` holds the pair the listener
read from disk, which is what may disagree. Files are written in place: a write may
fail and leave a torn file, which counts as present but is not usable; a chain torn
behind its leaf would still parse and is counted as torn here, since clients refuse
it. `ensure_listener` leaves its table as it is where a file cannot be read or
parsed (`Loaded`); a key that cannot be read when a request is made is replaced
(`LoadOrGenerate`, history `replaced`). The listener is bound once, and its end by an
error is final (`ListenerEnds`).

**TunnelDns.** `Ask` is the responder in the transmit loop: an own name is
answered, another one parked (`Park`, with the reaping of what the window left
behind) and given to the hook. `Relay`, `Pin` and `RelayEnds` are the thread of
the iOS extension. An answer or a failure takes the parked request back first
(`Replied`), and its write to the tunnel may fail (`Written`), which is logged only.

**Netstack.** `at` is where `engine_loop` is in its tick: `Top`, `Accept`,
`Read`, `Poll`, `Move`, `Flush`, `Reap`, in the order of the code. The TCP stack
is what the engine sees of smoltcp: the state of the socket and two buffers.
One bridge; several share nothing but the tick.

**WinSupervisor.** `state` is `State` behind the supervisor's lock, so `Connect`,
`SupervisorDisconnect` and `SupervisorStatus` are one step each. `pipe` is one
named-pipe connection per client, served until the runtime is dropped
(`PipeServed`). The end of `run_service` has its steps: `Stop` takes the tunnel down,
`ReportStopped` reports SERVICE_STOPPED, `CloseRuntime` drops the pipe,
`DropSupervisor` disconnects once more; once stopped is reported the process may end
before the last two (`ProcessEnds`). `headless` is the other service, which restarts
its agent.

**MacHelper.** The helper handles one connection at a time: `asked` is the
request in hand and the one behind it. `StartOwn`, `Evict`, `Seed`, `Spawn` and
`Record` are `start_agent` in its order, so that `Crash` may fall between any
two; `StopAgent` has the three fallbacks of `stop_agent`. A recorded number may
be another program's (`Reuse`); an agent may be slow to die ("stubborn"), and
SIGKILL is taken to end it at once, though the helper does not wait for it. An
identity is a node with its WireGuard key, and a generation of service tokens.
`EnrolAgain` is an enrolment on the same key, which gets the same node and a new
token (lib.rs:623-628), `EnrolAnew` one on another key or tenant; whether the control
plane ends the tokens given before is its choice (`Accepts`). The agent's renewal is
in two steps, `Rotates` at the control plane, whose answer may be lost, and
`Persists`, which may never come; `Tears` is a write of the agent that is cut off.
Every start carries the application's copy, as those of the application do.

**MCApplication, MCServices** put parts that share no state
into one run: `part` says which one moves, the others stay as they began. The
reachable states are those of the parts one after the other, not their product.
They extend the modules there are theorems about, so that a run and a theorem are of
the same definition; `StepUp`, `Netstack`, `CpCalls`, `WinSupervisor` and `MacHelper`
therefore call their specifications `StepSpec`, `NetSpec`, `CallSpec`, `WinSpec` and
`MacSpec`.

**The `_proofs` modules** extend one or several components' modules with their theorems
(section 4): `Application_proofs` is about `AppSession` and `StepUp`, `Services_proofs`
about `Subdomains`, `Netstack` and `CpCalls`, `Supervisors_proofs` about
`WinSupervisor` and `MacHelper`, each of the others about the module of its name.

Every definition that stands for code is listed with its lines in
`PROJECT.json` (`map`). Definitions commented "Mistaken variant" are not part
of any specification: they are the mistakes against which the properties were
tried (`mutants`).

## 3. What the runs show

| Run | Bounds | Properties and what they show |
|---|---|---|
| outcome | 3 outcomes, queue of 2, 1 failure, 1 rotation, 1 restart | `HeldExactlyOnce`: never doubled or mislaid on the node. `BoundedMemory`: queue and batch stay within the limit. `AckedIsRecorded`: what is dropped as delivered is in the ledger. `OnlyFailedAreOvertaken`: only an outcome whose own post failed is overtaken. `EverySettled`: each leaves the node in the end. `KeepsPromise`: the refinement of OutcomeReporting |
| agentfile | 3 tokens, 2 CRLs, 2 crashes or failures of the file, 2 enrolments | `QuietFileIsWhole`: unless writers overlapped or a write was cut off the file holds what was last stored. `LockoutHasACause`, `FileNeverAhead`: a lockout has one of the causes listed, memory is never older than the file. `FileKeyIsRegistered`: the file's key is the registered one. `CrlArrives`: a CRL lost to the other writer arrives later |
| roster | 2 nodes, 2 keys each, 3 changes, lossy events | `OneTunnelPerPeer`, `NothingOlderThanTheFetch`: no double tunnel, no resurrected peer. `OnlyUnlistedAreDropped`: no session dropped for nothing. `Converges`, `StatusConverges`: roster and status file become the list |
| ssh_one | 1 channel with descendants of its child, 2 streams, 2 chunks of output, 2 of input | `ExitAfterOutput`: the exit status follows the whole output, that of a command also the end of its process. `RunsEnd`: runs whose descendants end, end. `ElevatedEnds`: elevated commands end, whatever became of the rest |
| ssh_two | 2 channels, 2 grants, 1 stream, 1 chunk on each channel, no descendants | `ReportsAreTrue`: an outcome names the grant, the end and the bytes of its own command, once |
| peerpath | 2 nodes, 2 addresses each, 1 datagram on its way, 1 fault | `DirectIsProven`: direct traffic only where the peer was heard. `PairUpgrades`: pairs behind NATs get a direct path. `RoamingIsFollowed`: a node with a public address follows its peer |
| app | session: 2 commands at a time, 2 sessions, 2 keys, 1 fault; dialog: 2 flows, 1 key made on the device; keys: 2 keys, no flow; windows: 2 clients, 2 credentials, 3 agents; processes: 2 tokens, 3 processes, 1 crash; identity: 2 processes, 2 nodes, 4 service tokens, 1 crash | `SignedOutStaysOut`: signing out leaves no session, node or daemon but what it could not remove. `KeysAgree`: the node's key is the one on disk and in memory. `VouchedStaysIn`: no logout without a refusal. `SomeoneAnswers`, `NoCodeAfterKey`: every step-up is answered, by its own failure. `StatusMeansRegistered`: a key reported usable is on the account. `OneWindowsAgent`, `OneMacAgent`: one agent at a time, of the last connect, none once the supervisor is dropped. `LivingCredential`: the agent's file has a token the control plane accepts |
| calls | 5 rows, pages of 2, at most 2 pages; 1 name, 2 certificates, 2 polls, 1 restart; 3 queries, window of 1; 2 bytes each way, buffers of 1 | `DemandIsHeard`: what the control plane demands reaches the caller. `CompleteMeansAll`: an export called complete lacks no row. `OneDemo`: no second demo. `CallsEnd`: silence ends in a timeout. `KeyMatchesCert`, `RenewalIsServed`: certificates with their keys, renewals served. `EveryExitAnswers`: every query that was asked is answered, whatever becomes of its relay. `NothingLost`: no byte lost at the end of a bridge |

Four runs end in a counterexample on purpose: they state what a comment says and
show what the code does (`findings`).

| Run | The comment | What happens |
|---|---|---|
| outcome_LedgerInOrder | `adapters.rs`: outcomes reach the ledger in the order they happened | the failed outcome is put back first, so the rest of its batch ends up before it |
| agentfile_RenewalKeepsCrl | `up.rs`: a renewal never drops the CRL a concurrent path just wrote | it writes back the state it read before |
| ssh_RootEndsWithGrant | `ssh_server.rs`: root never outlives the grant | the timer signals one process: what an elevated command left in the background lives on |
| app_ReauthRespectsSignOut | `lib.rs`: a re-authentication does not resurrect a deliberate sign-out | one that waits for its answer during the sign-out stores its session afterwards |

**Bounds.** Each is a CONSTANT. The queue of `outcome` is one shorter than the
number of outcomes, so that pushes overflow it while a full batch is out. Three
tokens allow two rotations, one on each side of a crash. Two peers are what a
key change of one and the removal of another need. In ssh_one two chunks are one
on each stream, or two on one, so that a reader holds one while the next is in the
pipe, and one chunk may be written by the child and one by what it left behind. The
standstill of a child that writes before it reads needs six chunks, more than all
that lies between a stream and the client holds (pipe, reader, channel, forwarder,
session: one each), and is not reached; a session that stays blocked is, where a
descendant keeps the input open and does not read. ssh_two
gives up one stream, the descendants and the input for a second channel, with symmetry on channels
and grants: it is about the slots channels share. A connection that fails, a node
that roams, UDP that stops and a token that rotates are the faults of peerpath,
one in a behaviour. Two commands at a time are what a race needs: one that waits
and one that changes what it read. The one fault of the session is an expiry, a
revocation, a restart, or a file that could not be written or removed. Two flows are what the one dialog and the one
slot can be taken by. The ledger has one row more than the pages an export may
read, so the cap is reached with and without rows left, and it grows by the reads
themselves. One name suffices because names share only the bind of the listener;
two certificates make a renewal; two polls a task that gives up. Three queries over
a window of one reap one whose relay is still under way; one of them cannot be
read. Two bytes over buffers of one leave one behind in every place a byte may be
when an end arrives. Three agents are two replacements, as are three processes
with one restart of the helper in between. Four service tokens over two nodes are
an enrolment on another key and two more of either an enrolment on the same key or a
renewal; a second process is what reads the file the first one left.
`app` has 4.8 million distinct states, `ssh_two` 1.4 million, the others fewer than
0.3 million each.

**Deadlock.** It is checked but in the runs whose system may stop: SSH
connections end with all that belongs to them; sessions, keys, rows and processes
run out at their bounds; a deploy is over at its end. What must not hang is stated:
`RunsEnd`, `SomeoneAnswers`, `CallsEnd`, `EveryExitAnswers`.

**Fairness, and why the code justifies it.**
- `OutcomeDelivery`: the delivery task runs on (a tokio interval); a request
  it awaits arrives, since failures are bounded by `MaxFailures`: the control
  plane answers again in the end.
- `AgentFile`: the service manager restarts the daemon, tasks run on, the CRL
  timer fires again. Nothing is assumed of renewals, crashes or errors of the file;
  `CrlArrives` speaks of a file that can be read.
- `PeerRoster`: the loop runs on, sessions end (60 s cap, `up.rs`), the
  heartbeat ticks; a fetch that can be served again and again is served at some
  time (strong fairness). Events may all be lost.
- `SshConnection`: threads, tasks and timers run on; a child goes on until it
  exits and its client ends its input, which is the least a command needs to
  end. Its descendants need not do anything, nor need a child fork or close a
  stream; `RunsEnd` speaks of channels whose descendants end. `ElevatedEnds` needs none of that for a child that waits for input for
  ever: the timer ends it.
- `PeerPath`: threads run on (weak fairness); traffic, keepalives and the
  initiator's five-second timer come again and again, the network does not
  lose every datagram it could deliver, and bursts send something again and
  again (strong fairness). The last one is an assumption on boringtun, which sends no
  second initiation while a handshake is under way. A NAT's mapping does not
  expire within the model, where in reality both bursts must overlap.
- `CpCalls`: a timer that is set fires, and what is known is told. Nothing is
  assumed of the control plane.
- `Subdomains`: the loop of the daemon resyncs at least once a minute (the cap of
  an event session, or the wait after a failure), with files that can be read again at some time; the property speaks of
  whole files and a listener that has not failed. Polls and events may all fail.
- `TunnelDns`: the thread of a query runs, and its receive has a timeout
  (`FORWARD_TIMEOUT`). Nothing is assumed of upstreams.

`PairUpgrades` and `RoamingIsFollowed` are conditional on what no node controls:
UDP gets through, tokens stay valid, nodes stay where they are.

**What properties exclude, in their own text.**
- `QuietFileIsWhole`: overlapping writers, and a crash or an error in a write.
  `LockoutHasACause` lists the causes: a lost answer, an overlap, a crash in a
  renewal or a write, a failed write, a renewed token that could not be stored.
- `ExitAfterOutput`: a shell cut off at its deadline; the forwarder of a shell does not
  wait for its process. `RunsEnd`: a session that is over or stays blocked, a
  descendant that stays. `ElevatedEnds` is about commands, and about the process
  itself: a shell may survive the signal its library sends.
- `SignedOutStaysOut`: commands that ran while `sign_out` did (the counterexample
  above), a daemon that could not be stopped, a file that could not be removed, and a
  link received before and still held, which the next check adopts: there the user
  is signed in again without having asked for it.
- `KeysAgree`: two enrolments at a time, a lost answer, a rollback that was refused.
- `VouchedStaysIn`: tenants of another region, whom a cold start asks for at the
  gateway, and a refusal by the second call of a re-authentication of the very
  session the first one was given.
- `SomeoneAnswers`: a dialog opened over another's, so that the overlap itself is not
  covered.
- `StatusMeansRegistered`: since the last enrolment that succeeded, a registration or
  deletion that failed, the end of the application in between, a removal elsewhere.
- `CompleteMeansAll`: a page short of the tail whose cursor is missing or not a number,
  which the code takes for the last page though the comment at `adapters.rs:1423`
  reads an absent header as "there is more".
- `OneDemo`: a registration given up that arrives between the list and the
  registration of a later try.
- `CallsEnd`: the event stream and the pages of the export, which have no timeout.
- `KeyMatchesCert`: a key that could not be read and was replaced. `RenewalIsServed`:
  files that are not whole, a listener that failed.
- `EveryExitAnswers`: a question that cannot be read, a stop, a write to the tunnel
  that fails, and a query reaped with its relay still waiting, where the comment at
  `pump.rs:392` says "NEVER silence".
- `OneWindowsAgent` says nothing of the time between the report of SERVICE_STOPPED and
  the drop of the supervisor, nor of a process that ends before it.
- `OneMacAgent`: an agent whose number did not reach the file. `LivingCredential`: that
  too, a renewed token that is not in the file, a lost answer, a write cut off, and an
  enrolment that ended the token of the node, which `seed_state` keeps.

## 4. What is proved

Every invariant and every safety action property of the passing runs, and the
refinement of `OutcomeReporting`, is a theorem of the specification, for every
value of the constants. The theorem modules need no more of the constants than is
said below; each bound (messages, faults, sessions, restarts) may be any natural.

### Outcome delivery (`OutcomeDelivery_proofs`)

| Theorem | Says |
|---|---|
| TypeCorrect | `Spec => []TypeOK` |
| MemoryIsBounded | `Spec => []BoundedMemory` |
| NothingLostOrDoubled | `Spec => []HeldExactlyOnce` |
| AcknowledgedOutcomesAreRecorded | `Spec => []AckedIsRecorded` |
| OnlyFailedFallBehind | `Spec => []OnlyFailedAreOvertaken` |
| PromiseKept | `Spec => KeepsPromise`: OutcomeDelivery implements OutcomeReporting |

The assumptions are those of the module: the capacity is a positive natural, the
bounds are naturals, `None` is no outcome and no status.

The argument. `BoundInv` adds to types and bounds that the task awaits a post
exactly while it has an outcome in hand and holds nothing between ticks
(`PhaseInv`); without it a drain could find an earlier batch still there and
exceed the bound. The requeue step needs both operators to keep a queue a queue
(`PushBounds`, `RequeueFrontBounds`). `HeldExactlyOnce` is inductive together
with `BoundInv`; its proof rests on lemmas that say which elements a tail, a
front, an append, a push and a requeue leave, and that they leave each once.
`RequestInv` ties requests under way and answers to the outcome they are about;
with it an acknowledgement finds the outcome in the ledger, and each step maps to one
of `OutcomeReporting` or a stutter. The order of the ledger alone is not inductive,
for the ledger is the end of a line: `OrderInv` says of each stretch of it (queue,
batch, outcome in hand, requests on their way, ledger) and of each two stretches that
an outcome none of whose posts failed is behind no younger one. The failed one that
jumps the line is exempt from then on.

### The node's file (`AgentFile_proofs`)

| Theorem | Says |
|---|---|
| TypeCorrect | `Spec => []TypeOK` |
| MemoryIsNeverOlder | `Spec => []FileNeverAhead` |
| KeyStaysRegistered | `Spec => []FileKeyIsRegistered` |
| LockoutIsCaused | `Spec => []LockoutHasACause` |
| QuietWritesKeepBoth | `Spec => []QuietFileIsWhole` |
| RenewalKeepsCrlUnlessOverlapped | a renewal drops a newer CRL only where writers overlapped or a crash or an error cut a write off |

The assumption is that the bounds are naturals. The argument. Types need that
every keypair but the first costs an enrolment (`KeyBudget`). `PhaseInv`: the
tasks run while the daemon is up, an enrolment writes before that. `KeyInv`:
whoever is about to write has the node's key in its buffer. `TokenInv` follows a
token from the reply through `fresh`, memory and a buffer to the file: a place
on this way never has an older one than the next. `LockInv`, needed because
`LockoutHasACause` says nothing of where the file's or a buffer's token comes from:
while nothing went wrong the accepted token is in memory or with a renewal, a
writer holds the token in memory unless the renewal has yet to read the
file, and the file of a daemon that is down has the accepted token or none.
`QuietInv`, with `PhaseInv`: while nothing overlapped at most one writer is past
its read, the file is whole whenever none is between truncation and write,
and the writer's buffer has the stored value of the field it does not write. The
last theorem is what is true of the comment the run agentfile_RenewalKeepsCrl refutes.

### Peers (`PeerRoster_proofs`, `PeerPath_proofs`)

| Module | Theorem | Says |
|---|---|---|
| PeerRoster_proofs | OneTunnelForAPeer | `Spec => []OneTunnelPerPeer` |
| PeerRoster_proofs | NoPeerIsBroughtBack | `Spec => []NothingOlderThanTheFetch` |
| PeerRoster_proofs | NoTunnelIsDroppedForNothing | `Spec => OnlyUnlistedAreDropped` |
| PeerPath_proofs | DirectPathsAreProven | `Spec => []DirectIsProven` |

For any finite set of nodes (a numbering of the new peers must exist), keypairs and
changes; for two nodes in `PeerPath`.

- `NumberInv`: no number of the roster is above the counter. The lemma
  `NumbersInTurn` says what `Numberings` gives: each new peer a number of its own,
  above the counter and not above what the counter becomes.
- `SessionInv`: events exist in a session only, and a list is fetched between
  sessions. `FreshInv` extends the property to what is not yet in the roster: the
  list in hand and the additions in the stream name nobody who was not listed since
  the fetch. `YoungInv`: keys are used once, so that a key the list has not had
  is nowhere. `AbsentInv` is what makes a removal harmless: each removal in the stream
  is of peers that were off the list since the fetch, or that are neither in the
  roster nor added by an event before it. That "before it" is why the property
  needs the order of the stream, and why a lost event does not break it.
- `PathInv` is the property with the shapes it needs. Only a received datagram
  changes an endpoint, and it proves the address in the same step; every other
  action leaves endpoints and proofs alone.

### The SSH server (`SshConnection_proofs`)

| Theorem | Says |
|---|---|
| TheEndIsToldLast | `Spec => []ExitAfterOutput` |
| LedgerIsToldTheTruth | `Spec => []ReportsAreTrue` |

For any channels and grants, any finite number of streams (at least one) and any
capacity; streams are not named like a state of the child. `SshInv` says of the
connection that one message at most is on its way to the session (`OutboxInv`) and that
none but a connection that was shown a command grant has an active one (`GrantInv`), and
of each channel:
`FlowInv`, that a chunk written is in a pipe, with a reader, in the channel or
with the forwarder, and that a reader ends after an empty pipe of a stream nobody
has open; `EndInv`, that once the forwarder saw the end of the channel everything was
handed over and no stream is open, and that a command is reported after its process
ended; `ToldInv`, that the exit status goes out after that;
`RunInv`, that a channel runs one command, with the grant it was authorised by;
`ReportInv`, that a report is of the grant and the bytes counted by that forwarder,
and that there is no second. `ReportsAreTrue` needs `FlowInv` for the bytes and
`RunInv` for the grant, since `active` belongs to the connection and the next request
changes it.

### The application (`Application_proofs`)

| Component | Theorem | Says |
|---|---|---|
| AppSession | SigningOutIsLasting | `Spec => []SignedOutStaysOut` |
| AppSession | TheKeysAgree | `Spec => []KeysAgree` |
| AppSession | VouchedDevicesStayIn | `Spec => VouchedStaysIn` |
| AppSession | ReauthRespectsUnracedSignOut | a re-authentication undoes a sign-out only where a command raced it |
| StepUp | CallersAreAnswered | `StepSpec => []SomeoneAnswers` |
| StepUp | KeysAreFinal | `StepSpec => []NoCodeAfterKey` |
| StepUp | StatusIsTrue | `StepSpec => []StatusMeansRegistered` |

For any number of sessions, keys, commands, faults and flows; no flow is the value
that stands for nobody.

- `SignOutInv`: while no command raced, a `sign_out` under way is alone, has
  cleared the session when it comes to forget the node, unless the file would not
  go, and leaves, when nothing but a daemon is `left`, nothing that
  could bring it back: no link is held, after it no check, connect, join or start is under way, and
  none can begin one that stores anything, for they need a session, a node or an
  invite. The lemma `OtherStep` does this once for every step of another command.
  The last theorem of `AppSession` follows, and is what is true of the comment that
  the run app_ReauthRespectsSignOut refutes.
- `KeyInv`: `KeysAgree` is about moments at which no enrolment is under way and
  is not inductive. Between the control plane's answer and the file the new key
  is the one the enrolment at its await still holds; while nothing went astray
  at most one of connect and join is under way, and connect began without a node.
- `VouchedStaysIn` needs the types only, among them that no session issued is 0,
  which stands for none: of the steps that delete the session file one is `sign_out`'s, the others need a
  refusal that a vouching control plane does not give, to the first call of a
  re-authentication or to the second, whose session it issued just now. A write
  that fails leaves the session in memory.
- `FlowInv` says who owns the dialog and the system's sheet: the flow that is at
  it, and while no two flows overlapped no other. `SomeoneAnswers` alone is not
  inductive: it does not say whom the one store's answer would reach.
- `StoresInv`: while a key is being enrolled the secure enclave has that key or
  none, and otherwise the key it has is on the account, unless something came between
  the two stores (`parted`).

### Names, calls, tunnel of a deploy (`Services_proofs`)

| Component | Theorem | Says |
|---|---|---|
| Subdomains | CertificatesMatchTheirKeys | `Spec => []KeyMatchesCert` |
| CpCalls | DemandsReachTheCaller | `CallSpec => []DemandIsHeard` |
| CpCalls | CompleteExportsHaveAll | `CallSpec => []CompleteMeansAll` |
| CpCalls | PublishingAgainMintsNone | `CallSpec => []OneDemo` |
| Netstack | TunnelLosesNothing | `NetSpec => []NothingLost` |

For any names, ledgers, page sizes and numbers of bytes; the socket's buffer is a
natural.

- `KeyInv` says of each name whose key was not replaced (`OneKeyOf`): the key on disk
  is none, torn or the first one, and every order at the control plane, every whole
  certificate on disk and every row of the listener is for that first one. An issued
  certificate can therefore be stored, whole or torn, and a whole one loaded, at any
  time.
- `DemandInv`: nothing is known of a refusal before the answer; what an endpoint does
  with one follows from the table of endpoints, which the proof goes through.
- `WalkInv`: an export that goes on has every row up to its cursor and has not been
  called complete; one that is called complete, not for want of a cursor, has every
  row there was at its beginning.
- `DemoInv`: unless one was overtaken, all demos have one and the same label, no other
  is on its way, and there is none while a registration is tried.
- `TunnelInv`: bytes are conserved in each direction (written = in the stream + in
  the bridge + in the socket + received), and an end of file passes each place
  only after the bytes before it. The second half is what the closing states need.

### Supervisors (`Supervisors_proofs`)

| Component | Theorem | Says |
|---|---|---|
| WinSupervisor | OneAgentOnWindows | `WinSpec => []OneWindowsAgent` |
| MacHelper | TokenStaysAlive | `MacSpec => []LivingCredential` |
| MacHelper | OneAgentOnMac | `MacSpec => []OneMacAgent` |

For any clients, processes and tokens; `TokenStaysAlive` for a positive bound on
identities and any natural one on processes (`MacBounds`).

- `OwnerInv`: the living agents are at most the supervisor's child, with the
  credentials last asked for; whoever kills it leaves none.
- `TokenInv`: while none of the excluded things happened, the application's token is
  accepted as long as it may be seeded (`SeedLives`), a living agent goes on with an
  accepted token of the node in the file (`AgentLives`), and the file has it unless a
  renewed one is on its way there (`FileLives`). The middle one carries the argument:
  what the renewal ends is the token of the only agent there is, by `AgentInv`.
- `AgentInv`: a living agent's number is in the helper's hand between spawn and
  record and in the pid file otherwise, unless it was lost (a crash in between,
  a failed write); what an eviction reads therefore names the one there is.

### Only model-checked

What must happen in the end, under fairness: `EverySettled`, `CrlArrives`,
`Converges`, `StatusConverges`, `RunsEnd`, `ElevatedEnds`, `PairUpgrades`,
`RoamingIsFollowed`, `CallsEnd`, `RenewalIsServed` and `EveryExitAnswers`, all beyond the
prover (they need ENABLED). They hold of the instances of section 3. `TunnelDns`
has only such a property and no theorem. That the four comments are wrong is shown by
counterexamples, not by proof.

## 5. Not modelled

The wording of messages, logging, HTTP details, back-off lengths and the byte
formats; cryptography (a signature verifies or not); the control plane, the
relay, WireGuard, TCP stacks and the system's services beyond what the client
sees of them.

Whole parts, with the reason:
- Grant verification (`cmd_grant.rs`, `ssh_grant.rs`, `session_grant.rs`): pure
  checks of signed tokens. `SshConnection` takes the verdict as a choice.
- Ledger client: inclusion and consistency proofs over hashes; pure recursion
  whose claims are about every tree.
- SSH client and `ssh` command, OIDC sign-in of the command line, agent
  identities, tokens, policies and the enrolment of a deploy: one sequential flow
  per invocation. Their requests are in `CpCalls`.
- STUN, relay frames, rate limit: byte work on one datagram, and a limit that only
  the relay server uses, which is not in the repository.
- Cryptography, domain types, TUN devices, entry points, VPN glue and diagnostics
  of the application: calls into libraries and systems.
- The pump's idle teardown and counters: `PeerPath` takes a session as one that
  can always be set up again, which a torn down one is.

Within modelled parts: process numbers after `kill_pid` and pseudo-terminal sizes
(`SshConnection`); endpoints (`PeerRoster`); WireGuard sessions, more than two
nodes, several entries of the relay map, a first connect to the relay that
fails, mid-frame timeouts (`PeerPath`); invite links held for the window
(`AppSession`); the resend cooldown (`StepUp`); the contents of requests
(`CpCalls`); several bridges (`Netstack`); a crash of the service
(`WinSupervisor`); a thread that cannot be started (`TunnelDns`).

## 6. Hazards without a property

Seen in the code, and either in a module without a promise to check against or
outside the modules. Two more are in `PROJECT.json` (`ssh_server.rs:756`,
`relay_transport.rs:226`).

- `up.rs:998`: the delivery task keeps its token while the renewal rotates it; the
  401 that follows drops outcomes whose grants are open. In the model; counted as
  let go, as the comment at `adapters.rs:1095` reads every 4xx.
- `exec_outcome.rs:116`: a requeue makes room by dropping the newest outcome, a push
  the oldest. In the model ("forgotten"); no component relies on either.
- `pump.rs:171`: an endpoint that changed under the same key is not replaced by a
  resync. No document says it should be.
- `pump.rs:351`: an endpoint is never forgotten: where the direct path dies and the
  peer does not move, traffic does not return to the relay.
- `ssh_server.rs:682`: a program that cannot be started under a verified grant leaves
  no outcome.
- `ssh_server.rs:697`: the deadline timer kills by process number, which may be
  another's by then.
- `ssh_server.rs:744`: a command that is not elevated runs on when its connection
  drops.
- `relay_transport.rs:203`: the supervisor dials with the token of the first connect;
  after a rotation the relay refuses it. In the model; `PairUpgrades` assumes a valid
  token.
- `pump.rs:871`: a handshake completed between the look at the idle time and the
  teardown is thrown away.
- `relay_transport.rs:134`: a send holds a lock during a blocking write; three
  threads stop behind a stalled relay.
- `gui/src-tauri/src/lib.rs:861`: a session of another region is validated at the
  gateway after a cold start. In the model (`foreign`).
- `gui/src-tauri/src/lib.rs:634`: a connect and an invite at a time leave different
  keys in file, memory and control plane. In the model (`astray`).
- `tls_relay.rs:315`: a name counts as attempted until a restart. In the model
  (`PollMiss`).
- `tls_relay.rs:281`: a withdrawn name keeps its route and certificate until a
  restart. In the model (`Remove`, `Resync`).
- `agent-ios-ptp/src/lib.rs:388`: the upstreams of a start that failed stay. In the
  model (`SetUpstreams`).
- `netstack.rs:472`: the end of the remote side is not passed on to the client. In the
  model (closeWait).
- `netstack.rs:196`: bytes in the bridges are dropped when the command ends. In the
  model ("torn").
- `win_supervisor.rs:104`: a service that crashed starts idle beside its old agent;
  whether the system ends its children is not in the code.
- `agent_state.rs:58`: two commands that save identities at a time may lose one.
- `ledger-client/src/lib.rs:78`: splits and proof lengths at sizes around powers of
  two.
