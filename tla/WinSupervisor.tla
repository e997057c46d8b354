---------------------------- MODULE WinSupervisor ----------------------------
(***************************************************************************)
(* The Windows service: clients of the application ask over a named pipe,  *)
(* a supervisor owns at most one `agent up` (win_supervisor.rs, win_ipc.rs,*)
(* win_service.rs of agent-daemon, win_service_client.rs of the desktop    *)
(* application), and the service of a server without an application, which *)
(* restarts its agent (win_service_headless.rs).                           *)
(***************************************************************************)
EXTENDS Integers, FiniteSets

CONSTANTS
    Clients,     \* connections to the pipe
    Creds,       \* token and control plane of a connect
    MaxChildren  \* bound: agents spawned by either service

VARIABLES
    service,   \* running, stopping (torn down), reported (SERVICE_STOPPED), closing (its
               \* runtime is dropped), dropped (the supervisor too), exited before that
    state,     \* the supervisor: the child it owns and its credentials; 0: idle
    agents,    \* the agents that are alive
    spawned,   \* agents spawned so far
    pipe,      \* per client: closed, the request it sent, or the answer
    wanted,    \* the credentials of the last connect that was answered well
    headless,  \* the other service: watching, restarting, stopped, failed
    server     \* its agent: none, alive, exited, and whether a stop is asked for

winVars == <<service, state, agents, spawned, pipe, wanted, headless, server>>

NoCreds == "none"
SupervisorIdle == [child |-> 0, creds |-> NoCreds]
Closed == [cmd |-> "closed", creds |-> NoCreds]
Answer(a) == [cmd |-> a, creds |-> NoCreds]

WinInit ==
    /\ service = "running" /\ state = SupervisorIdle /\ agents = {} /\ spawned = 0 /\ wanted = NoCreds
    /\ pipe = [c \in Clients |-> Closed]
    /\ headless = "restarting" /\ server = [child |-> "none", stop |-> FALSE]

-----------------------------------------------------------------------------
(* The supervisor: each entry point holds its lock throughout. *)

Alive == state.child \in agents

\* kill_and_wait of the child in the state, if there is one.
Killed == agents \ {state.child}

\* Mistaken variant: the old agent is left to find out for itself.
EvictedDead == agents

\* What a connect leaves alive before it spawns.
Evicted == Killed

\* State::Connected.
Owns(child, creds) == [child |-> child, creds |-> creds]

SupervisorDisconnect == agents' = Killed /\ state' = SupervisorIdle

\* The same credentials and a live child: nothing to do.  Otherwise the old child is
\* killed, and if no other can be spawned the state keeps it, dead.
Connect(client, creds) ==
    \/ /\ Alive /\ state.creds = creds
       /\ wanted' = creds /\ pipe' = [pipe EXCEPT ![client] = Answer("ok")]
       /\ UNCHANGED <<state, agents, spawned>>
    \/ /\ ~(Alive /\ state.creds = creds)
       /\ \/ /\ spawned < MaxChildren /\ spawned' = spawned + 1
             /\ agents' = Evicted \cup {spawned'}
             /\ state' = Owns(spawned', creds)
             /\ wanted' = creds /\ pipe' = [pipe EXCEPT ![client] = Answer("ok")]
          \/ /\ agents' = Evicted /\ pipe' = [pipe EXCEPT ![client] = Answer("error")]
             /\ UNCHANGED <<state, spawned, wanted>>

\* The question heals the state: a child that exited is forgotten.
SupervisorStatus(client) ==
    /\ state' = IF Alive THEN state ELSE SupervisorIdle
    /\ pipe' = [pipe EXCEPT ![client] = Answer(IF Alive THEN "connected" ELSE "idle")]
    /\ UNCHANGED <<agents, spawned, wanted>>

-----------------------------------------------------------------------------
(* The pipe and its clients. *)

\* The pipe is served until the runtime is dropped.
PipeServed == service \in {"running", "stopping", "reported"}

\* A client opens the pipe and writes one request; it needs a service to answer.
Request(client) ==
    /\ PipeServed /\ pipe[client].cmd \notin {"connect", "disconnect", "status"}
    /\ \E cmd \in {"connect", "disconnect", "status"}, creds \in Creds :
        pipe' = [pipe EXCEPT ![client] = [cmd |-> cmd, creds |-> IF cmd = "connect" THEN creds ELSE NoCreds]]
    /\ UNCHANGED <<service, state, agents, spawned, wanted, headless, server>>

\* Before a byte is read the session of the caller is looked at; one that is not active
\* finds its pipe dropped.
RefuseClient(client) ==
    /\ PipeServed /\ pipe[client].cmd \in {"connect", "disconnect", "status"}
    /\ pipe' = [pipe EXCEPT ![client] = Closed]
    /\ UNCHANGED <<service, state, agents, spawned, wanted, headless, server>>

Dispatch(client) ==
    /\ PipeServed
    /\ \/ pipe[client].cmd = "connect" /\ Connect(client, pipe[client].creds)
       \/ /\ pipe[client].cmd = "disconnect" /\ SupervisorDisconnect
          /\ pipe' = [pipe EXCEPT ![client] = Answer("ok")] /\ UNCHANGED <<spawned, wanted>>
       \/ pipe[client].cmd = "status" /\ SupervisorStatus(client)
    /\ UNCHANGED <<service, headless, server>>

-----------------------------------------------------------------------------
(* The service. *)

\* Stop: the tunnel is taken down while the pipe is still served.
Stop ==
    /\ service = "running" /\ service' = "stopping" /\ SupervisorDisconnect
    /\ UNCHANGED <<spawned, pipe, wanted, headless, server>>

\* Stopped is reported, and the pipe is served on.
ReportStopped ==
    /\ service = "stopping" /\ service' = "reported"
    /\ UNCHANGED <<state, agents, spawned, pipe, wanted, headless, server>>

\* The end of run_service drops the runtime with its connections.
CloseRuntime ==
    /\ service = "reported" /\ service' = "closing" /\ pipe' = [c \in Clients |-> Closed]
    /\ UNCHANGED <<state, agents, spawned, wanted, headless, server>>

\* Then the supervisor, whose drop disconnects once more, for what was connected meanwhile.
DropSupervisor ==
    /\ service = "closing" /\ service' = "dropped" /\ SupervisorDisconnect
    /\ UNCHANGED <<spawned, pipe, wanted, headless, server>>

\* Once stopped is reported the dispatcher returns and the process may end before that.
ProcessEnds ==
    /\ service \in {"reported", "closing"} /\ service' = "exited"
    /\ pipe' = [c \in Clients |-> Closed]
    /\ UNCHANGED <<state, agents, spawned, wanted, headless, server>>

AgentExits(a) ==
    /\ a \in agents /\ agents' = agents \ {a}
    /\ UNCHANGED <<service, state, spawned, pipe, wanted, headless, server>>

-----------------------------------------------------------------------------
(* The service without an application. *)

\* Spawned again after the delay; if that fails the process exits for others to see.  A
\* stop asked for during the delay waits until then.
SpawnServer ==
    /\ headless = "restarting"
    /\ \/ spawned < MaxChildren /\ spawned' = spawned + 1
          /\ headless' = "watching" /\ server' = [server EXCEPT !.child = "alive"]
       \/ headless' = "failed" /\ UNCHANGED <<server, spawned>>
    /\ UNCHANGED <<service, state, agents, pipe, wanted>>

\* The watch: a stop first, then the child.
Watch ==
    /\ headless = "watching"
    /\ \/ server.stop /\ headless' = "stopped" /\ server' = [server EXCEPT !.child = "none"]
       \/ ~server.stop /\ server.child = "exited" /\ headless' = "restarting" /\ UNCHANGED server
    /\ UNCHANGED <<service, state, agents, spawned, pipe, wanted>>

StopServer ==
    /\ headless \in {"watching", "restarting"} /\ ~server.stop /\ server' = [server EXCEPT !.stop = TRUE]
    /\ UNCHANGED <<service, state, agents, spawned, pipe, wanted, headless>>

ServerExits ==
    /\ server.child = "alive" /\ server' = [server EXCEPT !.child = "exited"]
    /\ UNCHANGED <<service, state, agents, spawned, pipe, wanted, headless>>

WinNext ==
    \/ Stop \/ ReportStopped \/ CloseRuntime \/ DropSupervisor \/ ProcessEnds
    \/ SpawnServer \/ Watch \/ StopServer \/ ServerExits
    \/ \E client \in Clients : Request(client) \/ RefuseClient(client) \/ Dispatch(client)
    \/ \E a \in agents : AgentExits(a)

WinSpec == WinInit /\ [][WinNext]_winVars

-----------------------------------------------------------------------------
(* Properties. *)

\* Connects, exits, failed spawns and stops in any order leave one agent at most, with
\* the credentials last asked for, and none once the supervisor is dropped or the service
\* without an application has stopped.  The report of SERVICE_STOPPED promises less: a
\* connect after the teardown has an agent alive until that drop, and for good if the
\* process ends before it.
OneWindowsAgent ==
    /\ Cardinality(agents) <= 1
    /\ agents # {} => Alive /\ state.creds = wanted
    /\ service = "dropped" => agents = {}
    /\ headless = "stopped" => server.child # "alive"
=============================================================================
