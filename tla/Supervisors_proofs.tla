-------------------------- MODULE Supervisors_proofs --------------------------
(***************************************************************************)
(* Proofs about the two supervisors of the agent: the service of Windows   *)
(* (WinSupervisor) and the helper of macOS (MacHelper), for any numbers of *)
(* clients, children, enrolments, tokens and restarts.                     *)
(***************************************************************************)
EXTENDS WinSupervisor, MacHelper, TLAPS, FiniteSetTheorems

-----------------------------------------------------------------------------
(* WinSupervisor: one agent, of the last connect. *)

\* The state names the one agent there may be and, while it lives, the credentials it was
\* asked for with; a supervisor that was dropped has none.
OwnerInv ==
    /\ agents \subseteq {state.child}
    /\ agents # {} => state.creds = wanted
    /\ service = "dropped" => agents = {}
    /\ headless = "stopped" => server.child # "alive"
    /\ server \in [child : {"none", "alive", "exited"}, stop : BOOLEAN]

\* The supervisor's part of it.
SupervisorInv == agents \subseteq {state.child} /\ (agents # {} => state.creds = wanted)

LEMMA OwnerInit == WinInit => OwnerInv
BY DEF WinInit, OwnerInv

\* kill_and_wait leaves nothing, whoever asks for it.
LEMMA KillLeavesNone ==
    ASSUME SupervisorInv
    PROVE  Killed = {} /\ Evicted = {}
BY DEF SupervisorInv, Killed, Evicted

LEMMA ConnectKeepsOne ==
    ASSUME SupervisorInv, NEW client, NEW creds, Connect(client, creds)
    PROVE  SupervisorInv'
<1>1. CASE Alive /\ state.creds = creds /\ wanted' = creds /\ UNCHANGED <<state, agents>>
  BY <1>1 DEF SupervisorInv
<1>2. CASE agents' = Evicted \cup {spawned'} /\ state' = Owns(spawned', creds) /\ wanted' = creds
  BY <1>2, KillLeavesNone DEF SupervisorInv, Owns
<1>3. CASE agents' = Evicted /\ UNCHANGED <<state, wanted>>
  BY <1>3, KillLeavesNone DEF SupervisorInv
<1> QED BY <1>1, <1>2, <1>3 DEF Connect

LEMMA StatusKeepsOne ==
    ASSUME SupervisorInv, NEW client, SupervisorStatus(client)
    PROVE  SupervisorInv'
<1>1. agents # {} => Alive
  BY DEF SupervisorInv, Alive
<1> QED BY <1>1 DEF SupervisorStatus, SupervisorInv, Alive, SupervisorIdle

LEMMA OwnerStep == OwnerInv /\ [WinNext]_winVars => OwnerInv'
<1> SUFFICES ASSUME OwnerInv, [WinNext]_winVars PROVE OwnerInv'
  OBVIOUS
<1>0. SupervisorInv
  BY DEF OwnerInv, SupervisorInv
<1>1. CASE Stop
  BY <1>0, <1>1, KillLeavesNone DEF Stop, SupervisorDisconnect, OwnerInv
<1>2. CASE ReportStopped \/ CloseRuntime \/ DropSupervisor \/ ProcessEnds
  <2>1. CASE DropSupervisor
    BY <1>0, <2>1, KillLeavesNone DEF DropSupervisor, SupervisorDisconnect, OwnerInv
  <2>2. CASE ReportStopped \/ CloseRuntime \/ ProcessEnds
    BY <2>2 DEF ReportStopped, CloseRuntime, ProcessEnds, OwnerInv
  <2> QED BY <1>2, <2>1, <2>2
<1>3. CASE SpawnServer \/ Watch \/ StopServer \/ ServerExits
  <2>1. UNCHANGED <<service, state, agents, wanted>>
    BY <1>3 DEF SpawnServer, Watch, StopServer, ServerExits
  <2>2. CASE SpawnServer
    BY <2>1, <2>2 DEF SpawnServer, OwnerInv
  <2>3. CASE Watch
    <3>1. \/ headless' = "stopped" /\ server' = [server EXCEPT !.child = "none"]
          \/ headless' = "restarting" /\ UNCHANGED server
      BY <2>3 DEF Watch
    <3>2. [server EXCEPT !.child = "none"] \in [child : {"none"}, stop : BOOLEAN]
      BY DEF OwnerInv
    <3>3. server' \in [child : {"none", "alive", "exited"}, stop : BOOLEAN]
          /\ (headless' = "stopped" => server'.child # "alive")
      BY <3>1, <3>2 DEF OwnerInv
    <3> QED BY <2>1, <3>3 DEF OwnerInv
  <2>4. CASE StopServer
    BY <2>1, <2>4 DEF StopServer, OwnerInv
  <2>5. CASE ServerExits
    BY <2>1, <2>5 DEF ServerExits, OwnerInv
  <2> QED BY <1>3, <2>2, <2>3, <2>4, <2>5
<1>4. ASSUME NEW client \in Clients, Request(client) \/ RefuseClient(client) PROVE OwnerInv'
  BY <1>4 DEF Request, RefuseClient, OwnerInv
<1>5. ASSUME NEW client \in Clients, Dispatch(client) PROVE OwnerInv'
  <2>1. service' \in {"running", "stopping", "reported"} /\ UNCHANGED <<headless, server>>
    BY <1>5 DEF Dispatch, PipeServed
  <2>2. SupervisorInv'
    <3>1. CASE Connect(client, pipe[client].creds)
      BY <1>0, <3>1, ConnectKeepsOne
    <3>2. CASE SupervisorDisconnect
      BY <1>0, <3>2, KillLeavesNone DEF SupervisorDisconnect, SupervisorInv
    <3>3. CASE SupervisorStatus(client)
      BY <1>0, <3>3, StatusKeepsOne
    <3> QED BY <1>5, <3>1, <3>2, <3>3 DEF Dispatch
  <2> QED BY <2>1, <2>2 DEF OwnerInv, SupervisorInv
<1>6. ASSUME NEW a \in agents, AgentExits(a) PROVE OwnerInv'
  BY <1>6 DEF AgentExits, OwnerInv
<1>7. CASE UNCHANGED winVars
  BY <1>7 DEF winVars, OwnerInv
<1> QED BY <1>1, <1>2, <1>3, <1>4, <1>5, <1>6, <1>7 DEF WinNext

\* However connects, exits, failed spawns and stops follow each other, one agent at most
\* is alive, with the credentials last asked for, and none when the supervisor is dropped
\* (Supervisor::connect, kill_and_wait, Drop).
THEOREM OneAgentOnWindows == WinSpec => []OneWindowsAgent
<1>1. ASSUME OwnerInv PROVE Cardinality(agents) <= 1
  <2>1. agents = {} \/ agents = {state.child}
    BY <1>1 DEF OwnerInv
  <2>2. Cardinality({}) = 0 /\ Cardinality({state.child}) = 1
    BY FS_EmptySet, FS_Singleton
  <2> QED BY <2>1, <2>2
<1>2. OwnerInv => OneWindowsAgent
  BY <1>1 DEF OwnerInv, OneWindowsAgent, Alive
<1> QED BY <1>2, OwnerInit, OwnerStep, PTL DEF WinSpec

-----------------------------------------------------------------------------
(* MacHelper: the agents. *)

\* Where the number of a living agent is to be found: nowhere while it is spawned, in
\* the helper's hand until it is recorded, on disk otherwise.
AgentInv ==
    /\ ~lost /\ helper \in {"seed", "spawn"} => Agents = {}
    /\ ~lost /\ helper = "record" => Agents \subseteq {pids}
    /\ ~lost /\ helper \in {"down", "idle", "evict"} => Agents \subseteq {pidFile}
    /\ helper \in {"down", "idle", "evict", "seed", "spawn", "record"}
    /\ job \in {"unregistered", "approval"} => helper = "down"
    /\ pids \in Nat /\ 0 \notin DOMAIN procs

LEMMA AgentInit == MacInit => AgentInv
BY DEF MacInit, AgentInv, Agents

\* Processes that end, and numbers that go to other programs, leave no new agent.
LEMMA FewerAgents ==
    ASSUME AgentInv, Agents' \subseteq Agents, 0 \notin DOMAIN procs',
           UNCHANGED <<job, helper, pids, pidFile, lost>>
    PROVE  AgentInv'
BY DEF AgentInv

\* What terminate_verified leaves.
LEMMA WithoutAgents ==
    ASSUME NEW ps
    PROVE  {p \in DOMAIN Without(ps) : Without(ps)[p] \in {"agent", "stubborn"}} = Agents \ ps
BY DEF Without, Agents

LEMMA AgentStep == AgentInv /\ [MacNext]_macVars => AgentInv'
<1> SUFFICES ASSUME AgentInv, [MacNext]_macVars PROVE AgentInv'
  OBVIOUS
<1>1. CASE EnsureRegistered \/ Approve
  <2>1. UNCHANGED <<procs, pids, pidFile, lost>> /\ Agents' = Agents
    BY <1>1 DEF EnsureRegistered, Approve, Agents
  <2>2. helper = "down" /\ helper' \in {"down", "idle"}
    BY <1>1 DEF EnsureRegistered, Approve, Listens, AgentInv
  <2>3. job' \in {"unregistered", "approval"} => helper' = "down"
    BY <1>1, <2>2 DEF EnsureRegistered, Approve, Listens
  <2> QED BY <2>1, <2>2, <2>3 DEF AgentInv
<1>2. CASE SendRaw \/ EnrolAgain \/ EnrolAnew \/ UNCHANGED macVars
  BY <1>2 DEF SendRaw, EnrolAgain, EnrolAnew, macVars, request, children, AgentInv, Agents
<1>3. CASE Refuse
  BY <1>3 DEF Refuse, Done, AgentInv, Agents
<1>4. CASE StartOwn
  <2>1. Agents' \subseteq Agents /\ 0 \notin DOMAIN procs' /\ UNCHANGED <<job, pids, pidFile, lost>>
    BY <1>4, WithoutAgents DEF StartOwn, Done, Terminated, Without, Agents, AgentInv
  <2>2. helper = "idle" /\ helper' \in {"idle", "evict"}
    BY <1>4 DEF StartOwn, Done
  <2> QED BY <2>1, <2>2 DEF AgentInv
<1>5. CASE Evict
  <2>1. CASE pidFile \in Agents
    <3>1. pidFile # 0
      BY <2>1 DEF Agents, AgentInv
    <3>2. Agents' = Agents \ {pidFile} /\ 0 \notin DOMAIN procs'
      BY <1>5, <2>1, <3>1, WithoutAgents DEF Evict, Recorded, Terminated, Without, Agents, AgentInv
    <3> QED BY <1>5, <2>1, <3>2 DEF Evict, AgentInv
  <2>2. CASE pidFile \notin Agents
    BY <1>5, <2>2 DEF Evict, Recorded, AgentInv, Agents
  <2> QED BY <2>1, <2>2
<1>6. CASE Seed
  BY <1>6 DEF Seed, Done, AgentInv, Agents
<1>7. CASE Spawn
  BY <1>7 DEF Spawn, Done, AgentInv, Agents
<1>8. CASE Record
  BY <1>8 DEF Record, Done, AgentInv, Agents
<1>9. CASE StopAgent
  <2>1. (~lost => Agents' = {}) /\ 0 \notin DOMAIN procs'
    BY <1>9, WithoutAgents DEF StopAgent, Terminated, Without, AgentInv, Agents
  <2> QED BY <1>9, <2>1 DEF StopAgent, Done, AgentInv
<1>10. CASE Crash
  BY <1>10 DEF Crash, AgentInv, Agents
<1>11. CASE Reuse
  <2>1. Agents' \subseteq Agents /\ 0 \notin DOMAIN procs'
    BY <1>11 DEF Reuse, Agents, AgentInv
  <2> QED BY <1>11, <2>1, FewerAgents DEF Reuse, request
<1>12. ASSUME NEW p \in DOMAIN procs, WritesStatus(p) \/ Rotates(p) \/ Persists(p) \/ Tears(p)
       PROVE  AgentInv'
  BY <1>12 DEF WritesStatus, Rotates, Persists, Tears, request, children, AgentInv, Agents
<1>13. ASSUME NEW p \in DOMAIN procs, Exit(p) PROVE AgentInv'
  <2>1. Agents' \subseteq Agents /\ 0 \notin DOMAIN procs'
    BY <1>13, WithoutAgents DEF Exit, Without, Agents, AgentInv
  <2> QED BY <1>13, <2>1, FewerAgents DEF Exit, request
<1> QED BY <1>1, <1>2, <1>3, <1>4, <1>5, <1>6, <1>7, <1>8, <1>9, <1>10, <1>11, <1>12, <1>13 DEF MacNext

\* Starts and stops in any order, with any tokens, across restarts of the helper, leave
\* one agent at most while every spawned number reached the file (start_agent).
THEOREM OneAgentOnMac == MacSpec => []OneMacAgent
<1>1. ASSUME NEW x, Agents \subseteq {x} PROVE Cardinality(Agents) <= 1
  <2>1. CASE Agents = {}
    BY <2>1, FS_EmptySet
  <2>2. CASE Agents = {x}
    BY <2>2, FS_Singleton
  <2> QED BY <1>1, <2>1, <2>2
<1>2. AgentInv => OneMacAgent
  BY <1>1 DEF AgentInv, OneMacAgent
<1> QED BY <1>2, AgentInit, AgentStep, PTL DEF MacSpec

-----------------------------------------------------------------------------
(* MacHelper: the identity of the agent. *)

Identities == [node : 0 .. MaxNodes, gen : Nat]

TokenTypes ==
    /\ identity \in Identities /\ stateFile \in Identities
    /\ identity.node \in 1 .. MaxNodes /\ stateFile.node <= identity.node
    /\ issued \in [1 .. MaxNodes -> Nat] /\ accepted \in [1 .. MaxNodes -> SUBSET Nat]
    /\ carried \in [1 .. MaxPids -> Identities]
    /\ pids \in Nat /\ pids <= MaxPids /\ unsaved \subseteq 1 .. pids /\ Agents \subseteq 1 .. pids

\* Nothing happened yet that may leave the agent a dead token; a renewed one may be on
\* its way to the file.
Clean == ~lost /\ ~cut /\ ~superseded /\ unsaved \subseteq Agents

\* What is seeded in place of another identity, what an agent goes on with, and what is in
\* the file once it is written.
SeedLives  == stateFile.node # identity.node => identity.gen \in accepted[identity.node]
AgentLives == \A p \in Agents :
    /\ carried[p].node = stateFile.node
    /\ carried[p].node # 0 => carried[p].gen \in accepted[carried[p].node]
FileLives  == unsaved = {} => stateFile.node = 0 \/ stateFile.gen \in accepted[stateFile.node]

TokenInv == TokenTypes /\ (Clean => SeedLives /\ AgentLives /\ FileLives)

MacBounds == MaxNodes \in Nat \ {0} /\ MaxPids \in Nat

LEMMA TokenInit == MacBounds /\ MacInit => TokenInv
<1> SUFFICES ASSUME MacBounds, MacInit PROVE TokenInv
  OBVIOUS
<1>1. Agents = {} /\ unsaved = {} /\ pids = 0
  BY DEF MacInit, Agents
<1>2. NoState \in Identities /\ NoState.node = 0
  BY DEF NoState, Identities, MacBounds
<1>3. identity \in Identities /\ identity.node = 1 /\ identity.gen = 1 /\ stateFile = NoState
  BY DEF MacInit, Identities, MacBounds
<1>4. accepted \in [1 .. MaxNodes -> SUBSET Nat] /\ accepted[1] = {1} /\ issued \in [1 .. MaxNodes -> Nat]
  BY DEF MacInit, MacBounds
<1>5. carried \in [1 .. MaxPids -> Identities]
  BY <1>2 DEF MacInit
<1> QED BY <1>1, <1>2, <1>3, <1>4, <1>5 DEF TokenInv, TokenTypes, SeedLives, AgentLives, FileLives, MacBounds

\* What ends an agent, or loses its number, leaves the rest as it was.
LEMMA FewerLive ==
    ASSUME TokenInv, Agents' \subseteq Agents, UNCHANGED <<data, pids>>, lost => lost'
    PROVE  TokenInv'
<1>1. TokenTypes'
  BY DEF TokenInv, TokenTypes, data, tokens
<1>2. Clean' => Clean
  BY DEF Clean, data, tokens
<1>3. SeedLives /\ AgentLives /\ FileLives => SeedLives' /\ AgentLives' /\ FileLives'
  BY DEF SeedLives, AgentLives, FileLives, data, tokens
<1> QED BY <1>1, <1>2, <1>3 DEF TokenInv

\* No two agents, while every number reached the file.
LEMMA AgentsAlike ==
    ASSUME AgentInv, ~lost, NEW p \in Agents, NEW q \in Agents
    PROVE  p = q
BY DEF AgentInv

LEMMA EnrolAgainKeeps == ASSUME TokenInv, MacBounds, EnrolAgain PROVE TokenInv'
<1> DEFINE n == identity.node
<1>1. /\ n \in 1 .. MaxNodes /\ UNCHANGED <<stateFile, carried, unsaved, cut, lost, pids>> /\ Agents' = Agents
      /\ identity'.node = n /\ identity' \in Identities /\ issued' \in [1 .. MaxNodes -> Nat]
  <2>1. n \in 1 .. MaxNodes /\ issued[n] + 1 \in Nat /\ issued' = [issued EXCEPT ![n] = issued[n] + 1]
    BY DEF EnrolAgain, TokenInv, TokenTypes
  <2>2. identity' \in {identity, [identity EXCEPT !.gen = issued[n] + 1]}
    BY DEF EnrolAgain
  <2>3. identity'.node = n /\ identity' \in Identities
    BY <2>1, <2>2 DEF TokenInv, TokenTypes, Identities
  <2>4. UNCHANGED <<stateFile, carried, unsaved, cut, lost, pids, procs>>
    BY DEF EnrolAgain, children
  <2> QED BY <2>1, <2>3, <2>4 DEF Agents, TokenInv, TokenTypes
<1>2. PICK some : some \in SUBSET Nat /\ Accepts(n, some) /\ (identity' = identity \/ identity'.gen \in some)
  <2>1. issued[n] + 1 \in Nat /\ accepted[n] \in SUBSET Nat
    BY <1>1 DEF TokenInv, TokenTypes
  <2>2. CASE UNCHANGED identity /\ \E s \in {{}, accepted[n] \cup {issued[n] + 1}} : Accepts(n, s)
    BY <2>1, <2>2
  <2>3. CASE /\ identity' = [identity EXCEPT !.gen = issued[n] + 1]
             /\ \E kept \in {{}, accepted[n]} : Accepts(n, kept \cup {issued[n] + 1})
    <3>1. identity'.gen = issued[n] + 1
      BY <2>3 DEF TokenInv, TokenTypes, Identities
    <3>2. PICK kept \in {{}, accepted[n]} : Accepts(n, kept \cup {issued[n] + 1})
      BY <2>3
    <3>3. kept \cup {issued[n] + 1} \in SUBSET Nat
      BY <2>1, <3>2
    <3> QED BY <3>1, <3>2, <3>3
  <2> QED BY <2>2, <2>3 DEF EnrolAgain
<1> HIDE DEF n
<1>3. /\ accepted' \in [1 .. MaxNodes -> SUBSET Nat] /\ accepted'[n] = some
      /\ \A m \in 1 .. MaxNodes \ {n} : accepted'[m] = accepted[m]
  BY <1>1, <1>2 DEF Accepts, TokenInv, TokenTypes
<1>4. TokenTypes'
  BY <1>1, <1>3 DEF TokenInv, TokenTypes, n
<1>5. ASSUME Clean' PROVE SeedLives' /\ AgentLives' /\ FileLives'
  <2>1. Clean /\ accepted[n] \subseteq some
    BY <1>1, <1>2, <1>5 DEF Clean, Accepts
  <2>2. SeedLives /\ AgentLives /\ FileLives
    BY <2>1 DEF TokenInv
  <2>3. \A m \in 1 .. MaxNodes : accepted[m] \subseteq accepted'[m]
    BY <1>3, <2>1
  <2>4. stateFile.node \in 0 .. MaxNodes
    BY DEF TokenInv, TokenTypes, Identities, MacBounds
  <2>5. SeedLives'
    BY <1>1, <1>2, <1>3, <2>1, <2>2 DEF SeedLives, n
  <2>6. AgentLives'
    BY <1>1, <2>2, <2>3, <2>4 DEF AgentLives
  <2>7. FileLives'
    BY <1>1, <2>2, <2>3, <2>4 DEF FileLives
  <2> QED BY <2>5, <2>6, <2>7
<1> QED BY <1>4, <1>5 DEF TokenInv

LEMMA EnrolAnewKeeps == ASSUME TokenInv, MacBounds, EnrolAnew PROVE TokenInv'
<1> DEFINE n == identity.node + 1
<1>1. /\ n \in 1 .. MaxNodes /\ n - 1 \in 1 .. MaxNodes /\ n - 1 # n /\ stateFile.node \in 0 .. (n - 1)
      /\ n - 1 = identity.node
  BY DEF EnrolAnew, TokenInv, TokenTypes, Identities
<1>2. /\ UNCHANGED <<stateFile, carried, unsaved, cut, lost, pids, procs>> /\ Agents' = Agents
      /\ identity' = [node |-> n, gen |-> 1] /\ issued' = [issued EXCEPT ![n] = 1]
  BY DEF EnrolAnew, children, Agents
<1>3. PICK kept \in {{}, accepted[n - 1]} :
        /\ accepted' = [accepted EXCEPT ![n] = {1}, ![n - 1] = kept]
        /\ superseded' = (superseded \/ kept # accepted[n - 1])
  BY DEF EnrolAnew
<1> HIDE DEF n
<1>4. /\ accepted' \in [1 .. MaxNodes -> SUBSET Nat] /\ accepted'[n] = {1} /\ accepted'[n - 1] = kept
      /\ \A m \in 1 .. MaxNodes \ {n, n - 1} : accepted'[m] = accepted[m]
  <2>1. kept \in SUBSET Nat /\ {1} \in SUBSET Nat
    BY <1>1, <1>3 DEF TokenInv, TokenTypes
  <2> QED BY <1>1, <1>3, <2>1 DEF TokenInv, TokenTypes
<1>5. TokenTypes'
  <2>1. identity' \in Identities /\ identity'.node = n /\ issued' \in [1 .. MaxNodes -> Nat]
    BY <1>1, <1>2 DEF TokenInv, TokenTypes, Identities
  <2>2. stateFile'.node <= identity'.node
    BY <1>1, <1>2, <2>1
  <2> QED BY <1>1, <1>2, <1>4, <2>1, <2>2 DEF TokenInv, TokenTypes
<1>6. ASSUME Clean' PROVE SeedLives' /\ AgentLives' /\ FileLives'
  <2>1. Clean /\ kept = accepted[n - 1]
    BY <1>2, <1>3, <1>6 DEF Clean
  <2>2. AgentLives /\ FileLives
    BY <2>1 DEF TokenInv
  <2>3. \A m \in 1 .. (n - 1) : accepted'[m] = accepted[m]
    BY <1>1, <1>4, <2>1 DEF MacBounds
  <2>4. SeedLives'
    BY <1>2, <1>4 DEF SeedLives
  <2>5. AgentLives'
    BY <1>1, <1>2, <2>2, <2>3 DEF AgentLives
  <2>6. FileLives'
    BY <1>1, <1>2, <2>2, <2>3 DEF FileLives
  <2> QED BY <2>4, <2>5, <2>6
<1> QED BY <1>5, <1>6 DEF TokenInv

\* seed_state keeps the agent's copy, or takes one the control plane accepts.
LEMMA SeedKeeps == ASSUME TokenInv, AgentInv, MacBounds, Seed PROVE TokenInv'
<1>1. UNCHANGED <<identity, issued, accepted, carried, unsaved, cut, superseded, lost, pids>> /\ Agents' = Agents
  BY DEF Seed, tokens, Agents
<1>2. \/ stateFile' = stateFile
      \/ stateFile.node # identity.node /\ stateFile' \in {identity, NoState}
  BY DEF Seed, Seeded
<1>3. NoState \in Identities /\ NoState.node = 0
  BY DEF NoState, Identities, MacBounds
<1>4. TokenTypes'
  <2>1. stateFile' \in Identities /\ stateFile'.node <= identity.node
    BY <1>2, <1>3 DEF TokenInv, TokenTypes
  <2> QED BY <1>1, <2>1 DEF TokenInv, TokenTypes
<1>5. ASSUME Clean' PROVE SeedLives' /\ AgentLives' /\ FileLives'
  <2>1. Clean /\ Agents = {}
    BY <1>1, <1>5 DEF Clean, AgentInv, Seed
  <2>2. SeedLives /\ FileLives
    BY <2>1 DEF TokenInv
  <2>3. SeedLives'
    BY <1>1, <1>2, <2>2 DEF SeedLives
  <2>4. FileLives'
    BY <1>1, <1>2, <1>3, <2>2 DEF SeedLives, FileLives
  <2>5. AgentLives'
    BY <1>1, <2>1 DEF AgentLives
  <2> QED BY <2>3, <2>4, <2>5
<1> QED BY <1>4, <1>5 DEF TokenInv

\* An agent starts with what is in the file.
LEMMA SpawnKeeps == ASSUME TokenInv, AgentInv, MacBounds, Spawn PROVE TokenInv'
<1>1. CASE UNCHANGED <<pids, procs, carried>>
  <2>1. Agents' = Agents /\ UNCHANGED <<data, pids, lost>>
    BY <1>1 DEF Spawn, Agents, data, tokens
  <2> QED BY <2>1, FewerLive
<1>2. CASE pids < MaxPids /\ pids' = pids + 1 /\ carried' = [carried EXCEPT ![pids'] = stateFile]
           /\ \E kind \in {"agent", "stubborn"} :
                procs' = [p \in DOMAIN procs \cup {pids'} |-> IF p = pids' THEN kind ELSE procs[p]]
  <2>1. UNCHANGED <<identity, stateFile, issued, accepted, unsaved, cut, superseded, lost>>
    BY DEF Spawn
  <2>2. Agents' \subseteq Agents \cup {pids'}
    BY <1>2 DEF Agents
  <2>3. pids' \in 1 .. MaxPids /\ pids' \notin 1 .. pids /\ 1 .. pids \subseteq 1 .. pids'
    BY <1>2 DEF TokenInv, TokenTypes, MacBounds
  <2>4. carried' \in [1 .. MaxPids -> Identities] /\ carried'[pids'] = stateFile
    BY <1>2, <2>3 DEF TokenInv, TokenTypes
  <2>5. TokenTypes'
    BY <1>2, <2>1, <2>2, <2>3, <2>4 DEF TokenInv, TokenTypes, MacBounds
  <2>6. ASSUME Clean' PROVE SeedLives' /\ AgentLives' /\ FileLives'
    <3>1. Clean
      BY <2>1, <2>2, <2>3, <2>6 DEF Clean, TokenInv, TokenTypes
    <3>2. Agents = {} /\ unsaved = {}
      BY <3>1 DEF Clean, AgentInv, Spawn
    <3>3. SeedLives /\ FileLives
      BY <3>1 DEF TokenInv
    <3>4. Agents' \subseteq {pids'}
      BY <2>2, <3>2
    <3>5. AgentLives'
      BY <2>1, <2>4, <3>2, <3>3, <3>4 DEF AgentLives, FileLives
    <3>6. SeedLives' /\ FileLives'
      BY <2>1, <3>3 DEF SeedLives, FileLives
    <3> QED BY <3>5, <3>6
  <2> QED BY <2>5, <2>6 DEF TokenInv
<1> QED BY <1>1, <1>2 DEF Spawn

\* A renewal ends the token in the file, and the agent has the new one.
LEMMA RotatesKeeps ==
    ASSUME TokenInv, AgentInv, MacBounds, NEW p \in DOMAIN procs, Rotates(p)
    PROVE  TokenInv'
<1> DEFINE n == carried[p].node  gen == issued[n] + 1
<1>1. /\ p \in Agents /\ n # 0 /\ issued' = [issued EXCEPT ![n] = gen]
      /\ accepted' = [accepted EXCEPT ![n] = (@ \ {carried[p].gen}) \cup {gen}]
      /\ UNCHANGED <<identity, stateFile, superseded, lost, pids>> /\ Agents' = Agents
  BY DEF Rotates, children, Agents
<1>2. \/ carried' = [carried EXCEPT ![p].gen = gen] /\ unsaved' = unsaved \cup {p} /\ UNCHANGED cut
      \/ cut' = TRUE /\ UNCHANGED <<carried, unsaved>>
  BY DEF Rotates
<1>3. p \in 1 .. pids /\ p \in 1 .. MaxPids /\ n \in 1 .. MaxNodes /\ gen \in Nat
  <2>1. p \in 1 .. pids /\ pids \in Nat /\ pids <= MaxPids
    BY <1>1 DEF TokenInv, TokenTypes
  <2>2. p \in 1 .. MaxPids
    BY <2>1 DEF MacBounds
  <2>3. carried[p] \in Identities
    BY <2>2 DEF TokenInv, TokenTypes
  <2>4. carried[p].node \in 0 .. MaxNodes
    BY <2>3 DEF Identities
  <2>5. n \in 1 .. MaxNodes
    BY <1>1, <2>4 DEF MacBounds
  <2>6. issued[n] \in Nat
    BY <2>5 DEF TokenInv, TokenTypes
  <2> QED BY <2>1, <2>2, <2>5, <2>6
<1>4. /\ accepted' \in [1 .. MaxNodes -> SUBSET Nat] /\ issued' \in [1 .. MaxNodes -> Nat]
      /\ gen \in accepted'[n] /\ \A m \in 1 .. MaxNodes \ {n} : accepted'[m] = accepted[m]
  BY <1>1, <1>3 DEF TokenInv, TokenTypes
<1>5. carried' \in [1 .. MaxPids -> Identities]
  <2>1. CASE carried' = [carried EXCEPT ![p].gen = gen]
    <3>1. carried[p] \in Identities
      BY <1>3 DEF TokenInv, TokenTypes
    <3>3. [carried[p] EXCEPT !.gen = gen] \in Identities
      BY <1>3, <3>1 DEF Identities
    <3>2. carried' = [carried EXCEPT ![p] = [carried[p] EXCEPT !.gen = gen]]
      BY <2>1
    <3> QED BY <1>3, <3>2, <3>3 DEF TokenInv, TokenTypes
  <2> QED BY <1>2, <2>1 DEF TokenInv, TokenTypes
<1> HIDE DEF n, gen
<1>6. TokenTypes'
  BY <1>1, <1>2, <1>3, <1>4, <1>5 DEF TokenInv, TokenTypes
<1>7. ASSUME Clean' PROVE SeedLives' /\ AgentLives' /\ FileLives'
  <2>1. carried' = [carried EXCEPT ![p].gen = gen] /\ unsaved' = unsaved \cup {p}
    BY <1>2, <1>7 DEF Clean
  <2>2. Clean
    BY <1>1, <1>2, <1>7 DEF Clean
  <2>3. SeedLives /\ AgentLives
    BY <2>2 DEF TokenInv
  <2>4. n = stateFile.node
    BY <1>1, <2>3 DEF AgentLives, n
  <2>5. SeedLives'
    BY <1>1, <1>4, <2>3, <2>4 DEF SeedLives, TokenInv, TokenTypes
  <2>6. ASSUME NEW q \in Agents' PROVE carried'[q].node = stateFile'.node /\ carried'[q].gen \in accepted'[carried'[q].node]
    <3>1. q = p
      BY <1>1, <2>2, <2>6, AgentsAlike DEF Clean
    <3>2. carried'[p].node = n /\ carried'[p].gen = gen
      BY <1>3, <2>1 DEF TokenInv, TokenTypes, Identities, n
    <3> QED BY <1>1, <1>4, <2>4, <3>1, <3>2
  <2>7. AgentLives'
    BY <2>6 DEF AgentLives
  <2>8. FileLives'
    BY <2>1 DEF FileLives
  <2> QED BY <2>5, <2>7, <2>8
<1> QED BY <1>6, <1>7 DEF TokenInv

\* The file comes to hold what its agent goes on with.
LEMMA PersistsKeeps ==
    ASSUME TokenInv, MacBounds, NEW p \in DOMAIN procs, Persists(p)
    PROVE  TokenInv'
<1>1. /\ p \in Agents /\ stateFile.node # 0 /\ Agents' = Agents
      /\ stateFile' = [stateFile EXCEPT !.gen = carried[p].gen] /\ unsaved' = unsaved \ {p}
      /\ UNCHANGED <<identity, issued, accepted, carried, cut, superseded, lost, pids>>
  BY DEF Persists, children, Agents
<1>2. p \in 1 .. MaxPids /\ carried[p] \in Identities
  <2>1. p \in 1 .. pids /\ pids \in Nat /\ pids <= MaxPids
    BY <1>1 DEF TokenInv, TokenTypes
  <2>2. p \in 1 .. MaxPids
    BY <2>1 DEF MacBounds
  <2> QED BY <2>2 DEF TokenInv, TokenTypes
<1>3. stateFile' \in Identities /\ stateFile'.node = stateFile.node /\ stateFile'.gen = carried[p].gen
  BY <1>1, <1>2 DEF TokenInv, TokenTypes, Identities
<1>4. TokenTypes'
  BY <1>1, <1>3 DEF TokenInv, TokenTypes
<1>5. ASSUME Clean' PROVE SeedLives' /\ AgentLives' /\ FileLives'
  <2>1. Clean
    BY <1>1, <1>5 DEF Clean
  <2>2. SeedLives /\ AgentLives
    BY <2>1 DEF TokenInv
  <2>3. carried[p].node = stateFile.node /\ carried[p].gen \in accepted[stateFile.node]
    BY <1>1, <2>2 DEF AgentLives
  <2> QED BY <1>1, <1>3, <2>2, <2>3 DEF SeedLives, AgentLives, FileLives
<1> QED BY <1>4, <1>5 DEF TokenInv

LEMMA TokenStep == MacBounds /\ AgentInv /\ TokenInv /\ [MacNext]_macVars => TokenInv'
<1> SUFFICES ASSUME MacBounds, AgentInv, TokenInv, [MacNext]_macVars PROVE TokenInv'
  OBVIOUS
<1>1. CASE EnrolAgain
  BY <1>1, EnrolAgainKeeps
<1>2. CASE EnrolAnew
  BY <1>2, EnrolAnewKeeps
<1>3. CASE Seed
  BY <1>3, SeedKeeps
<1>4. CASE Spawn
  BY <1>4, SpawnKeeps
<1>5. CASE EnsureRegistered \/ Approve \/ SendRaw \/ Refuse \/ Record \/ Crash \/ UNCHANGED macVars
  <2>1. UNCHANGED <<procs, data, pids>> /\ (lost => lost')
    <3>1. CASE EnsureRegistered \/ Approve \/ SendRaw \/ Refuse
      BY <3>1 DEF EnsureRegistered, Approve, SendRaw, Refuse
    <3>2. CASE Record \/ Crash
      <4>1. UNCHANGED <<procs, data, pids>>
        BY <3>2 DEF Record, Crash
      <4>2. lost => lost'
        BY <3>2, Zenon DEF Record, Crash
      <4> QED BY <4>1, <4>2
    <3>3. CASE UNCHANGED macVars
      BY <3>3 DEF macVars, children
    <3> QED BY <1>5, <3>1, <3>2, <3>3
  <2>2. Agents' = Agents
    BY <2>1 DEF Agents
  <2> QED BY <2>1, <2>2, FewerLive
<1>6. CASE StartOwn \/ Evict \/ StopAgent
  <2>1. Agents' \subseteq Agents
    BY <1>6, WithoutAgents DEF StartOwn, Evict, StopAgent, Terminated, Agents
  <2>2. UNCHANGED <<data, pids, lost>>
    BY <1>6 DEF StartOwn, Evict, StopAgent
  <2> QED BY <2>1, <2>2, FewerLive
<1>7. CASE Reuse
  <2>1. Agents' \subseteq Agents
    BY <1>7 DEF Reuse, Agents
  <2> QED BY <1>7, <2>1, FewerLive DEF Reuse
<1>8. ASSUME NEW p \in DOMAIN procs, WritesStatus(p) \/ Exit(p) PROVE TokenInv'
  <2>1. Agents' \subseteq Agents
    BY <1>8, WithoutAgents DEF WritesStatus, Exit, Agents
  <2>2. UNCHANGED <<data, pids, lost>>
    BY <1>8 DEF WritesStatus, Exit
  <2> QED BY <2>1, <2>2, FewerLive
<1>9. ASSUME NEW p \in DOMAIN procs, Rotates(p) PROVE TokenInv'
  BY <1>9, RotatesKeeps
<1>10. ASSUME NEW p \in DOMAIN procs, Persists(p) PROVE TokenInv'
  BY <1>10, PersistsKeeps
<1>11. ASSUME NEW p \in DOMAIN procs, Tears(p) PROVE TokenInv'
  <2>1. /\ cut' = TRUE /\ stateFile' = NoState /\ Agents' = Agents
        /\ UNCHANGED <<identity, issued, accepted, carried, unsaved, pids>>
    BY <1>11 DEF Tears, children, Agents
  <2>2. NoState \in Identities /\ NoState.node = 0
    BY DEF NoState, Identities, MacBounds
  <2>3. stateFile'.node <= identity'.node
    BY <2>1, <2>2 DEF TokenInv, TokenTypes
  <2> QED BY <2>1, <2>2, <2>3 DEF TokenInv, TokenTypes, Clean
<1> QED BY <1>1, <1>2, <1>3, <1>4, <1>5, <1>6, <1>7, <1>8, <1>9, <1>10, <1>11 DEF MacNext

\* Whatever restarts, enrolments, renewals and failed writes come between, the agent's copy
\* of its identity is accepted by the control plane (seed_state): the application's older
\* copy never replaces a token the agent has renewed, and what else may leave a dead one is
\* a renewal or a write that was cut off, an enrolment, or an agent at large.
THEOREM TokenStaysAlive == ASSUME MacBounds PROVE MacSpec => []LivingCredential
<1>1. TokenInv => LivingCredential
  BY DEF TokenInv, Clean, FileLives, LivingCredential
<1> QED BY <1>1, AgentInit, AgentStep, TokenInit, TokenStep, PTL DEF MacSpec
=============================================================================
