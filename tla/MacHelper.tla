------------------------------ MODULE MacHelper ------------------------------
(***************************************************************************)
(* The privileged helper of macOS (PrivilegedHelper/src/main.rs) and the   *)
(* application's side of its socket (helper_ipc of lib.rs).  The helper    *)
(* handles one request at a time, starts and stops the agent, outlives and *)
(* is outlived by it, and hands it the identity the application enrolled.  *)
(***************************************************************************)
EXTENDS Integers, FiniteSets

CONSTANTS
    Tokens,      \* sessions an agent is started with
    MaxPids,     \* bound: processes
    MaxNodes,    \* bound: identities, each a node and its WireGuard key
    MaxGen,      \* bound: service tokens of an identity
    MaxCrashes   \* bound: restarts of the helper

VARIABLES
    job,       \* the job in the system: unregistered, approval, enabled
    helper,    \* down, idle, or the step of the request it handles
    asked,     \* the request in hand and the one that waits behind it
    last,      \* LAST_SPAWNED: pid and token, pid 0: none
    pidFile,   \* the recorded pid, 0: no file
    status,    \* the pid the agent's own status file names
    procs,     \* live processes: pid -> agent, stubborn agent, other
    pids,      \* process numbers used
    identity,  \* agent.json of the application: node and token generation
    stateFile,   \* agent.json of the agent, node 0: none or torn
    issued,    \* per node, service tokens given out
    accepted,  \* per node, those the control plane accepts
    carried,    \* per pid, the identity its agent read and the token it goes on with
    unsaved,   \* agents whose renewed token is not in the file: not yet, or never
    crashes,
    lost,      \* history: an agent was spawned and its number did not reach the file
    cut,       \* history: the answer to a renewal was lost, or a write of the agent cut off
    superseded \* history: by an enrolment, the control plane refuses what it gave before

tokens  == <<issued, accepted, carried, unsaved, cut, superseded>>
data    == <<identity, stateFile, tokens>>
request == <<job, helper, asked>>
children == <<last, pidFile, status, procs, pids, lost>>
macVars == <<request, children, data, crashes>>

NoRequest == [cmd |-> "none", token |-> "none"]
NotSpawned == [pid |-> 0, token |-> "none"]
NoState == [node |-> 0, gen |-> 0]

Agents == {p \in DOMAIN procs : procs[p] \in {"agent", "stubborn"}}
Without(ps) == [p \in DOMAIN procs \ ps |-> procs[p]]

MacInit ==
    /\ job = "unregistered" /\ helper = "down" /\ asked = <<NoRequest, NoRequest>>
    /\ last = NotSpawned /\ pidFile = 0 /\ status = 0
    /\ procs = [p \in {} |-> "agent"] /\ pids = 0
    /\ identity = [node |-> 1, gen |-> 1] /\ stateFile = NoState
    /\ issued = [n \in 1 .. MaxNodes |-> IF n = 1 THEN 1 ELSE 0]
    /\ accepted = [n \in 1 .. MaxNodes |-> IF n = 1 THEN {1} ELSE {}]
    /\ carried = [p \in 1 .. MaxPids |-> NoState] /\ unsaved = {}
    /\ crashes = 0 /\ lost = FALSE /\ cut = FALSE /\ superseded = FALSE

-----------------------------------------------------------------------------
(* The application. *)

\* The helper binds its socket and serves.
Listens == helper' = "idle"

Asks(cmd, token) == [cmd |-> cmd, token |-> IF cmd = "start" THEN token ELSE "none"]

\* A socket that answers is enough; else the job is registered, or registered again if
\* it is enabled and nothing answers; the switch in the settings is the user's.
EnsureRegistered ==
    /\ helper = "down"
    /\ \/ job = "unregistered" /\ job' = "approval" /\ UNCHANGED helper
       \/ job = "enabled" /\ Listens /\ UNCHANGED job
    /\ UNCHANGED <<asked, last, pidFile, status, procs, pids, data, crashes, lost>>

Approve ==
    /\ job = "approval" /\ job' = "enabled" /\ Listens
    /\ UNCHANGED <<asked, last, pidFile, status, procs, pids, data, crashes, lost>>

\* A request; the application waits five seconds for the answer and may then send
\* another behind it.
SendRaw ==
    /\ helper # "down" /\ asked[2] = NoRequest
    /\ \E cmd \in {"start", "stop", "logs"}, t \in Tokens :
        asked' = IF asked[1] = NoRequest THEN <<Asks(cmd, t), NoRequest>> ELSE <<asked[1], Asks(cmd, t)>>
    /\ UNCHANGED <<job, helper, last, pidFile, status, procs, pids, data, crashes, lost>>

\* What the control plane accepts of node n from now on; whether that ends the tokens the
\* agent may have is its decision.
Accepts(n, some) ==
    /\ accepted' = [accepted EXCEPT ![n] = some]
    /\ superseded' = (superseded \/ ~(accepted[n] \subseteq some))

\* connect_inner, join_enroll_node: enrolment is idempotent on the key.  The same key
\* gets the same node and a new token; if that cannot be kept, the node is removed again.
EnrolAgain ==
    LET n == identity.node  gen == issued[n] + 1 IN
    /\ gen <= MaxGen /\ issued' = [issued EXCEPT ![n] = gen]
    /\ \/ identity' = [identity EXCEPT !.gen = gen] /\ \E kept \in {{}, accepted[n]} : Accepts(n, kept \cup {gen})
       \/ UNCHANGED identity /\ \E some \in {{}, accepted[n] \cup {gen}} : Accepts(n, some)
    /\ UNCHANGED <<request, children, stateFile, carried, unsaved, cut, crashes>>

\* A new key, or a tenant that does not know this one.
EnrolAnew ==
    LET n == identity.node + 1 IN
    /\ n <= MaxNodes /\ identity' = [node |-> n, gen |-> 1] /\ issued' = [issued EXCEPT ![n] = 1]
    /\ \E kept \in {{}, accepted[n - 1]} :
        /\ accepted' = [accepted EXCEPT ![n] = {1}, ![n - 1] = kept]
        /\ superseded' = (superseded \/ kept # accepted[n - 1])
    /\ UNCHANGED <<request, children, stateFile, carried, unsaved, cut, crashes>>

-----------------------------------------------------------------------------
(* The helper. *)

Done == asked' = <<asked[2], NoRequest>> /\ helper' = "idle"

\* terminate_verified: a first signal, and a second for those it does not end.
Terminated(p) == Without({p})

\* The caller must own the home directory it names; the logs are only read.
Refuse ==
    /\ helper = "idle" /\ asked[1] # NoRequest /\ Done
    /\ UNCHANGED <<job, last, pidFile, status, procs, pids, data, crashes, lost>>

\* The agent this helper spawned: kept if it lives and the token is the same, ended if
\* it lives and the token is not.
StartOwn ==
    /\ helper = "idle" /\ asked[1].cmd = "start"
    /\ IF last.pid \in Agents /\ last.token = asked[1].token
       THEN Done /\ UNCHANGED <<last, procs>>
       ELSE /\ helper' = "evict" /\ last' = NotSpawned
            /\ procs' = IF last.pid \in Agents THEN Terminated(last.pid) ELSE procs
            /\ UNCHANGED asked
    /\ UNCHANGED <<job, pidFile, status, pids, data, crashes, lost>>

\* Mistaken variant: only the agent this helper spawned is looked for.
NotOurs == 0

\* recorded_live_agent_pid: the recorded process, if it is an agent.
Recorded == IF pidFile \in Agents THEN pidFile ELSE 0

\* An agent left by an earlier helper.
Evict ==
    /\ helper = "evict" /\ helper' = "seed"
    /\ IF Recorded # 0 THEN procs' = Terminated(Recorded) /\ pidFile' = 0 ELSE UNCHANGED <<procs, pidFile>>
    /\ UNCHANGED <<job, asked, last, status, pids, data, crashes, lost>>

\* Mistaken variant: the application's copy is always taken.
SeededAlways == identity

\* seed_state: the agent's copy stays if it is of the same node; the agent renews it.
Seeded == IF stateFile.node = identity.node THEN stateFile ELSE identity

\* Failing to write it, or to open the log, fails the request.
Seed ==
    /\ helper = "seed"
    /\ \/ stateFile' = Seeded /\ helper' = "spawn" /\ UNCHANGED asked
       \/ stateFile' = (IF stateFile.node = identity.node THEN stateFile ELSE NoState) /\ Done
    /\ UNCHANGED <<job, last, pidFile, status, procs, pids, identity, tokens, crashes, lost>>

Spawn ==
    /\ helper = "spawn"
    /\ \/ /\ pids < MaxPids /\ pids' = pids + 1
          /\ \E kind \in {"agent", "stubborn"} :
              procs' = [p \in DOMAIN procs \cup {pids'} |-> IF p = pids' THEN kind ELSE procs[p]]
          /\ carried' = [carried EXCEPT ![pids'] = stateFile]
          /\ helper' = "record" /\ UNCHANGED asked
       \/ Done /\ UNCHANGED <<pids, procs, carried>>
    /\ UNCHANGED <<job, last, pidFile, status, identity, stateFile, issued, accepted, unsaved, cut,
                   superseded, crashes, lost>>

\* The number is recorded on disk, if that works, and in memory.
Record ==
    /\ helper = "record" /\ Done
    /\ last' = [pid |-> pids, token |-> asked[1].token]
    /\ \/ pidFile' = pids /\ UNCHANGED lost
       \/ lost' = TRUE /\ UNCHANGED pidFile
    /\ UNCHANGED <<job, status, procs, pids, data, crashes>>

\* stop_agent: the recorded process, else the one the status file names, each only if it
\* is an agent; with neither, every agent gets a first signal.
StopAgent ==
    /\ helper = "idle" /\ asked[1].cmd = "stop" /\ Done
    /\ procs' = IF pidFile \in Agents THEN Terminated(pidFile)
                ELSE IF status \in Agents THEN Terminated(status)
                ELSE Without({p \in Agents : procs[p] = "agent"})
    /\ pidFile' = 0 /\ last' = NotSpawned
    /\ UNCHANGED <<job, status, pids, data, crashes, lost>>

\* The helper ends anywhere and is started again; so does its log request.
Crash ==
    /\ helper # "down" /\ crashes < MaxCrashes /\ crashes' = crashes + 1
    /\ helper' = "down" /\ asked' = <<NoRequest, NoRequest>> /\ last' = NotSpawned
    /\ lost' = (lost \/ helper = "record")
    /\ UNCHANGED <<job, pidFile, status, procs, pids, data>>

-----------------------------------------------------------------------------
(* The agent and its machine. *)

WritesStatus(p) ==
    /\ p \in Agents /\ status # p /\ status' = p
    /\ UNCHANGED <<job, helper, asked, last, pidFile, procs, pids, data, crashes, lost>>

\* renew_service_token: the control plane ends the token it is shown and gives a new one,
\* which the agent goes on with, unless the answer is lost.
Rotates(p) ==
    LET n == carried[p].node  gen == issued[n] + 1 IN
    /\ p \in Agents /\ n # 0 /\ carried[p].gen \in accepted[n] /\ gen <= MaxGen
    /\ issued' = [issued EXCEPT ![n] = gen]
    /\ accepted' = [accepted EXCEPT ![n] = (@ \ {carried[p].gen}) \cup {gen}]
    /\ \/ carried' = [carried EXCEPT ![p].gen = gen] /\ unsaved' = unsaved \cup {p} /\ UNCHANGED cut
       \/ cut' = TRUE /\ UNCHANGED <<carried, unsaved>>
    /\ UNCHANGED <<request, children, identity, stateFile, superseded, crashes>>

\* persist_service_token: the file is read and written with the new token; it may never
\* be, and the agent goes on.
Persists(p) ==
    /\ p \in Agents \cap unsaved /\ stateFile.node # 0
    /\ stateFile' = [stateFile EXCEPT !.gen = carried[p].gen] /\ unsaved' = unsaved \ {p}
    /\ UNCHANGED <<request, children, identity, issued, accepted, carried, cut, superseded, crashes>>

\* A write of the agent (persist_state) is cut off by an error or its end.
Tears(p) ==
    /\ p \in Agents /\ stateFile # NoState /\ stateFile' = NoState /\ cut' = TRUE
    /\ UNCHANGED <<request, children, identity, issued, accepted, carried, unsaved, superseded, crashes>>

Exit(p) ==
    /\ p \in DOMAIN procs
    /\ procs' = Without({p})
    /\ UNCHANGED <<request, last, pidFile, status, pids, data, crashes, lost>>

\* Once it exited and no helper holds it as a child its number may go to another program.
Reuse ==
    /\ pidFile \notin {0, last.pid} /\ pidFile \notin DOMAIN procs
    /\ procs' = [p \in DOMAIN procs \cup {pidFile} |-> IF p = pidFile THEN "other" ELSE procs[p]]
    /\ UNCHANGED <<request, last, pidFile, status, pids, data, crashes, lost>>

MacNext ==
    \/ EnsureRegistered \/ Approve \/ SendRaw \/ EnrolAgain \/ EnrolAnew
    \/ Refuse \/ StartOwn \/ Evict \/ Seed \/ Spawn \/ Record \/ StopAgent \/ Crash
    \/ Reuse
    \/ \E p \in DOMAIN procs : WritesStatus(p) \/ Rotates(p) \/ Persists(p) \/ Tears(p) \/ Exit(p)

MacSpec == MacInit /\ [][MacNext]_macVars

-----------------------------------------------------------------------------
(* Properties. *)

\* Starts that arrive twice, with other tokens, or after the helper was restarted never
\* leave two agents, unless the number of one was lost on its way to the file.
OneMacAgent == ~lost => Cardinality(Agents) <= 1

\* The agent's copy of its identity holds a token the control plane accepts, however often
\* the application sends its own, older copy: unless a renewed token has not reached the
\* file or its answer was lost, a write was cut off, an enrolment ended the token the agent
\* had (of the same node, seed_state keeps it all the same), or an agent is at large.
LivingCredential ==
    unsaved = {} /\ ~cut /\ ~superseded /\ ~lost =>
        stateFile.node = 0 \/ stateFile.gen \in accepted[stateFile.node]
=============================================================================
