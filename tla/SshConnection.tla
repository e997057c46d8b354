---------------------------- MODULE SshConnection ----------------------------
(***************************************************************************)
(* One connection to the embedded SSH server                               *)
(* (agent-core/src/ssh_server.rs): the session task that runs the handlers *)
(* one after the other, and for each channel a child process, a blocking   *)
(* reader thread per output stream, a forwarder task and, when the child   *)
(* is elevated, a timer that kills it.  The child may leave descendants    *)
(* that hold its streams open and write to them after it ended, and it may *)
(* close its streams and live on.                                          *)
(*                                                                         *)
(* Output and input are counted in chunks.  A pipe of the operating system *)
(* holds one chunk here, the channel between threads Capacity (64 in the   *)
(* code), and the session takes one message at a time from the tasks.      *)
(***************************************************************************)
EXTENDS Integers, Sequences, FiniteSets

CONSTANTS
    Channels,  \* channels a client opens on the connection
    Streams,   \* output streams of a child: stdout and stderr
    Grants,    \* command grants the client may present
    None,
    Capacity,  \* mpsc::channel(64) between readers and forwarder
    MaxOut,    \* bound: chunks written to the streams of a channel
    MaxKin,    \* bound: channels with descendants of their child at a time
    MaxIn      \* bound: chunks of input the client sends

ASSUME CapacityAssumption ==
    /\ Capacity \in Nat \ {0} /\ MaxOut \in Nat /\ MaxIn \in Nat /\ MaxKin \in Nat
    /\ None \notin Grants \cup Channels
    /\ IsFiniteSet(Streams) /\ Streams # {}
    /\ Streams \cap {"none", "running", "reading", "exited"} = {}

VARIABLES
    session,   \* session task: waiting, in a blocking write to stdin, or over
    pending,   \* ConnHandler.pending_cmd_grant
    active,    \* ConnHandler.active_grant
    writer,    \* ConnHandler.writer: the channel whose child has it as stdin
    shell,     \* ConnHandler.child: the channel whose shell it is
    outbox,    \* message a task handed to the session, if any
    sentIn,    \* chunks of input the client sent
    run,       \* per channel: none, failed, shell or exec; its grant; its
               \* timer: none, armed, closing (it killed), fired
    child,     \* per channel: state of the process
    stdin,     \* per channel: chunks in the pipe to the child
    kin,       \* per channel: whether descendants of the child live
    held,      \* per channel: the streams the child or a descendant has open
    pipe,      \* per channel and stream: chunks in the pipe from the child
    wrote,     \* per channel: chunks written, by whom and to which stream ever
    reader,    \* per channel and stream: the reader thread
    mpsc,      \* per channel: chunks in the channel to the forwarder
    fwd,       \* per channel: the forwarder task
    bytesOut,  \* per channel: local bytes_out
    client,    \* per channel: chunks the client received, and the exit status
    reported,  \* outcomes pushed to the queue
    authorised \* history: the grant each channel's command came from

sessionVars == <<session, pending, active, writer, shell, sentIn>>
procVars    == <<child, kin, held, stdin, pipe, wrote>>
taskVars    == <<reader, mpsc, fwd, bytesOut>>
vars == <<sessionVars, outbox, run, procVars, taskVars, client, reported, authorised>>

Unused == [kind |-> "none", grant |-> None, elevated |-> FALSE, timer |-> "none"]

Init ==
    /\ session = "select"
    /\ pending = None /\ active = None /\ writer = None /\ shell = None
    /\ outbox = {} /\ sentIn = 0
    /\ run = [c \in Channels |-> Unused]
    /\ child = [c \in Channels |-> "none"] /\ stdin = [c \in Channels |-> 0]
    /\ kin = [c \in Channels |-> FALSE] /\ held = [c \in Channels |-> {}]
    /\ pipe = [c \in Channels |-> [s \in Streams |-> 0]]
    /\ wrote = [c \in Channels |-> 0]
    /\ reader = [c \in Channels |-> [s \in Streams |-> "none"]]
    /\ mpsc = [c \in Channels |-> 0]
    /\ fwd = [c \in Channels |-> "none"] /\ bytesOut = [c \in Channels |-> 0]
    /\ client = [c \in Channels |-> [chunks |-> 0, told |-> FALSE]]
    /\ reported = <<>>
    /\ authorised = [c \in Channels |-> None]

Alive(c) == child[c] \notin {"none", "exited"}

\* A shell has one stream, its terminal.
Tty           == CHOOSE s \in Streams : TRUE
StreamsOf(c)  == IF run[c].kind = "shell" THEN {Tty} ELSE Streams

\* The process of channel c is gone; its descendants keep what they have open.
Gone(c) ==
    /\ child' = [child EXCEPT ![c] = "exited"]
    /\ held' = [held EXCEPT ![c] = IF kin[c] THEN @ ELSE {}]

\* kill_pid signals the one process.  What the terminal's library does to its
\* child is not looked at: the shell may live on.
Killed(c) ==
    \/ Gone(c)
    \/ run[c].kind = "shell" /\ UNCHANGED <<child, held>>

-----------------------------------------------------------------------------
(* The handlers.  The session task runs one at a time, to its end. *)

Waiting == session = "select"

\* env_request with a command grant.  The other two tokens, and whether they
\* verify, are a choice of the actions that look at them.
EnvRequest ==
    /\ Waiting
    /\ pending' \in Grants
    /\ UNCHANGED <<session, active, writer, shell, sentIn, outbox, run, procVars, taskVars,
                   client, reported, authorised>>

\* channel_failure: nothing runs on channel c.
Fail(c) == run' = [run EXCEPT ![c].kind = "failed"]

\* Mistaken variant: only an elevated shell is killed at its deadline.
DeadlineOfShell(kind, elevated) == IF elevated /\ kind = "shell" THEN "armed" ELSE "none"

\* The timer of an elevated child.
Deadline(kind, elevated) == IF elevated THEN "armed" ELSE "none"

\* Child, readers, forwarder and timer of channel c; the child gets the
\* client's input from now on.
Start(c, kind, grant, elevated) ==
    /\ run' = [run EXCEPT ![c] = [kind |-> kind, grant |-> grant, elevated |-> elevated,
                                  timer |-> Deadline(kind, elevated)]]
    /\ child' = [child EXCEPT ![c] = "running"]
    /\ held' = [held EXCEPT ![c] = IF kind = "exec" THEN Streams ELSE {Tty}]
    /\ reader' = [reader EXCEPT ![c] = [s \in Streams |->
                    IF kind = "exec" \/ s = Tty THEN "read" ELSE "none"]]
    /\ fwd' = [fwd EXCEPT ![c] = "recv"]
    /\ writer' = c

\* spawn_exec.  Its task takes the child from the handler, so that nothing is
\* left there.
SpawnExec(c, grant, elevated) == Start(c, "exec", grant, elevated)

\* admit_session_grant refuses the channel.
SessionGrantRefused(c) ==
    /\ Waiting /\ run[c] = Unused
    /\ Fail(c)
    /\ UNCHANGED <<sessionVars, outbox, procVars, taskVars, client, reported, authorised>>

\* exec_request with a command grant that verifies: what runs is the grant's.
ExecUnderGrant(c) ==
    /\ Waiting /\ run[c] = Unused /\ pending # None
    /\ active' = pending
    /\ authorised' = [authorised EXCEPT ![c] = pending]
    /\ SpawnExec(c, active', FALSE)
    /\ UNCHANGED <<session, pending, shell, sentIn, outbox, kin, stdin, pipe, wrote, mpsc,
                   bytesOut, client, reported>>

\* The program of the grant cannot be started.
SpawnFails(c) ==
    /\ Waiting /\ run[c] = Unused
    /\ active' = IF pending = None THEN active ELSE pending
    /\ Fail(c)
    /\ UNCHANGED <<session, pending, writer, shell, sentIn, outbox, procVars, taskVars,
                   client, reported, authorised>>

\* exec_request with a command grant that does not verify.
CmdGrantRefused(c) ==
    /\ Waiting /\ run[c] = Unused /\ pending # None
    /\ reported' = Append(reported,
            [channel |-> c, grant |-> pending, what |-> "refused", bytes |-> 0])
    /\ Fail(c)
    /\ UNCHANGED <<sessionVars, outbox, procVars, taskVars, client, authorised>>

\* exec_request without a command grant: the client's own command, elevated
\* when its elevation token verifies (decide_elevation).
ExecPlain(c) ==
    /\ Waiting /\ run[c] = Unused /\ pending = None
    /\ \E elevated \in BOOLEAN : SpawnExec(c, active, elevated)
    /\ UNCHANGED <<session, pending, active, shell, sentIn, outbox, kin, stdin, pipe, wrote, mpsc,
                   bytesOut, client, reported, authorised>>

\* shell_request.
ShellRequest(c) ==
    /\ Waiting /\ run[c] = Unused
    /\ \E elevated \in BOOLEAN : Start(c, "shell", None, elevated)
    /\ shell' = c
    /\ UNCHANGED <<session, pending, active, sentIn, outbox, kin, stdin, pipe, wrote, mpsc, bytesOut,
                   client, reported, authorised>>

\* data: on whichever channel it comes, it is for the last child started.
\* write_all blocks the session task.
Data ==
    /\ Waiting /\ sentIn < MaxIn
    /\ sentIn' = sentIn + 1
    /\ session' = IF writer = None THEN "select" ELSE "stdin"
    /\ UNCHANGED <<pending, active, writer, shell, outbox, run, procVars, taskVars, client,
                   reported, authorised>>

\* The write ends when the pipe has room, or at once when nobody is left to
\* read from it.
StdinWritten ==
    /\ session = "stdin"
    /\ session' = "select"
    /\ IF Alive(writer) \/ kin[writer]
       THEN stdin[writer] = 0 /\ stdin' = [stdin EXCEPT ![writer] = 1]
       ELSE UNCHANGED stdin
    /\ UNCHANGED <<pending, active, writer, shell, sentIn, outbox, run, child, kin, held, pipe,
                   wrote, taskVars, client, reported, authorised>>

\* Mistaken variant: the client's end of input is not passed on.
ChannelEofIgnored ==
    /\ Waiting /\ writer # None
    /\ UNCHANGED vars

\* channel_eof, on whichever channel.
ChannelEof ==
    /\ Waiting /\ writer # None
    /\ writer' = None
    /\ UNCHANGED <<session, pending, active, shell, sentIn, outbox, run, procVars, taskVars,
                   client, reported, authorised>>

\* The session sends a task's message to the client.
Deliver ==
    /\ Waiting
    /\ \E m \in outbox :
        /\ outbox' = {}
        /\ \/ m.what = "data" /\ client' = [client EXCEPT ![m.channel].chunks = @ + 1]
           \/ m.what = "exit" /\ client' = [client EXCEPT ![m.channel].told = TRUE]
    /\ UNCHANGED <<sessionVars, run, procVars, taskVars, reported, authorised>>

\* The client is gone, an hour passed without traffic, or a handler returned
\* an error (pty_request under a command grant, a shell that cannot be
\* started): the handler is dropped, and its Drop kills the shell it holds.
SessionEnds ==
    /\ Waiting
    /\ session' = "gone"
    /\ IF shell = None THEN UNCHANGED <<child, held>> ELSE Killed(shell)
    /\ writer' = None /\ shell' = None /\ outbox' = {}
    /\ UNCHANGED <<pending, active, sentIn, run, kin, stdin, pipe, wrote, taskVars, client,
                   reported, authorised>>

-----------------------------------------------------------------------------
(* The child, the program of whoever asked for it: it reads and writes as it  *)
(* likes, and once it made a call it waits for it to end.                     *)

Become(c, state) == child' = [child EXCEPT ![c] = state]

AtEof(c) == stdin[c] = 0 /\ writer # c

\* It calls read, calls write (the state is the stream), or exits.
ChildCalls(c) ==
    /\ child[c] = "running"
    /\ \/ ~AtEof(c) /\ Become(c, "reading") /\ UNCHANGED held
       \/ \E s \in held[c] : wrote[c] < MaxOut /\ Become(c, s) /\ UNCHANGED held
       \/ Gone(c)
    /\ UNCHANGED <<sessionVars, outbox, run, kin, stdin, pipe, wrote, taskVars, client, reported,
                   authorised>>

ChildReads(c) ==
    /\ child[c] = "reading" /\ (stdin[c] = 1 \/ AtEof(c))
    /\ stdin' = [stdin EXCEPT ![c] = 0]
    /\ Become(c, "running")
    /\ UNCHANGED <<sessionVars, outbox, run, kin, held, pipe, wrote, taskVars, client, reported,
                   authorised>>

\* One chunk goes into a pipe that somebody reads from.
Fills(c, s) ==
    /\ pipe[c][s] = 0 /\ reader[c][s] # "done"
    /\ pipe' = [pipe EXCEPT ![c][s] = 1]
    /\ wrote' = [wrote EXCEPT ![c] = @ + 1]
    /\ UNCHANGED <<sessionVars, outbox, run, kin, held, stdin, taskVars, client, reported,
                   authorised>>

ChildWrites(c, s) == child[c] = s /\ Fills(c, s) /\ Become(c, "running")

\* A pipe without a reader, a terminal without a master.
ChildCutOff(c) ==
    /\ \/ \E s \in Streams : child[c] = s /\ reader[c][s] = "done"
       \/ Alive(c) /\ run[c].kind = "shell" /\ shell # c /\ reader[c][Tty] = "done"
    /\ Gone(c)
    /\ UNCHANGED <<sessionVars, outbox, run, kin, stdin, pipe, wrote, taskVars, client, reported,
                   authorised>>

ChildStep(c) ==
    \/ ChildCalls(c) \/ ChildReads(c) \/ ChildCutOff(c)
    \/ \E s \in Streams : ChildWrites(c, s)

\* The rest of what the program may do, and need not: leave a descendant, ...
ChildForks(c) ==
    /\ child[c] = "running" /\ ~kin[c]
    /\ Cardinality({d \in Channels : kin[d]}) < MaxKin
    /\ kin' = [kin EXCEPT ![c] = TRUE]
    /\ UNCHANGED <<sessionVars, outbox, run, child, held, stdin, pipe, wrote, taskVars, client,
                   reported, authorised>>

\* ... close a stream, the last of those that have it, ...
StreamCloses(c, s) ==
    /\ child[c] = "running" \/ kin[c]
    /\ s \in held[c] /\ child[c] # s /\ held' = [held EXCEPT ![c] = @ \ {s}]
    /\ UNCHANGED <<sessionVars, outbox, run, child, kin, stdin, pipe, wrote, taskVars, client,
                   reported, authorised>>

\* ... and its descendants write, read, and end.
KinWrites(c, s) ==
    /\ kin[c] /\ s \in held[c] /\ wrote[c] < MaxOut
    /\ Fills(c, s) /\ UNCHANGED child

KinReads(c) ==
    /\ kin[c] /\ stdin[c] = 1 /\ stdin' = [stdin EXCEPT ![c] = 0]
    /\ UNCHANGED <<sessionVars, outbox, run, child, kin, held, pipe, wrote, taskVars, client,
                   reported, authorised>>

KinEnds(c) ==
    /\ kin[c] /\ kin' = [kin EXCEPT ![c] = FALSE]
    /\ held' = [held EXCEPT ![c] = IF Alive(c) THEN @ ELSE {}]
    /\ UNCHANGED <<sessionVars, outbox, run, child, stdin, pipe, wrote, taskVars, client,
                   reported, authorised>>

KinStep(c) ==
    \/ ChildForks(c) \/ KinReads(c) \/ KinEnds(c)
    \/ \E s \in Streams : StreamCloses(c, s) \/ KinWrites(c, s)

-----------------------------------------------------------------------------
(* The readers: a blocking read of up to one chunk, a blocking send. *)

Thread(c, s, from, to) ==
    /\ reader[c][s] = from
    /\ reader' = [reader EXCEPT ![c][s] = to]
    /\ UNCHANGED <<sessionVars, outbox, run, child, kin, held, stdin, wrote, fwd, bytesOut, client,
                   reported, authorised>>

ReaderReads(c, s) ==
    /\ Thread(c, s, "read", "send")
    /\ pipe[c][s] = 1 /\ pipe' = [pipe EXCEPT ![c][s] = 0]
    /\ UNCHANGED mpsc

ReaderEof(c, s) ==
    /\ Thread(c, s, "read", "done")
    /\ pipe[c][s] = 0 /\ s \notin held[c]
    /\ UNCHANGED <<pipe, mpsc>>

\* The receiver lives as long as the forwarder, in whatever state it is.
ReaderSends(c, s) ==
    /\ Thread(c, s, "send", "read")
    /\ fwd[c] # "done" /\ mpsc[c] < Capacity
    /\ mpsc' = [mpsc EXCEPT ![c] = @ + 1]
    /\ UNCHANGED pipe

ReaderSendFails(c, s) ==
    /\ Thread(c, s, "send", "done")
    /\ fwd[c] = "done"
    /\ UNCHANGED <<pipe, mpsc>>

ReaderStep(c, s) ==
    ReaderReads(c, s) \/ ReaderEof(c, s) \/ ReaderSends(c, s) \/ ReaderSendFails(c, s)

-----------------------------------------------------------------------------
(* The forwarder. *)

Task(c, from, to) ==
    /\ fwd[c] = from
    /\ fwd' = [fwd EXCEPT ![c] = to]
    /\ UNCHANGED <<sessionVars, run, procVars, reader, client, authorised>>

\* What follows the loop: an exec waits for its child, a shell does not.
AfterLoop(c) == IF run[c].kind = "exec" THEN "wait" ELSE "close"

FwdRecv(c) ==
    /\ Task(c, "recv", "data")
    /\ mpsc[c] > 0 /\ mpsc' = [mpsc EXCEPT ![c] = @ - 1]
    /\ bytesOut' = [bytesOut EXCEPT ![c] = @ + 1]
    /\ UNCHANGED <<outbox, reported>>

\* Mistaken variant: the end of the child is taken for the end of its output.
OutputEndedWithChild(c) == child[c] = "exited" /\ mpsc[c] = 0

\* Every sender is dropped: each reader is at the end of its stream.
OutputEnded(c) == mpsc[c] = 0 /\ \A s \in StreamsOf(c) : reader[c][s] = "done"

FwdRecvNone(c) ==
    /\ OutputEnded(c)
    /\ Task(c, "recv", AfterLoop(c))
    /\ UNCHANGED <<outbox, mpsc, bytesOut, reported>>

\* A task's message waits until the session has taken the one before it.
Hand(c, what) ==
    /\ session # "gone" /\ outbox = {}
    /\ outbox' = {[channel |-> c, what |-> what]}

FwdData(c) ==
    /\ Task(c, "data", "recv")
    /\ Hand(c, "data")
    /\ UNCHANGED <<mpsc, bytesOut, reported>>

\* The connection is over: the loop ends, with its receiver still there.
FwdDataFails(c) ==
    /\ Task(c, "data", AfterLoop(c))
    /\ session = "gone"
    /\ UNCHANGED <<outbox, mpsc, bytesOut, reported>>

\* wait() in a blocking task.
FwdWait(c) ==
    /\ child[c] = "exited"
    /\ Task(c, "wait", IF run[c].grant = None THEN "close" ELSE "report")
    /\ UNCHANGED <<outbox, mpsc, bytesOut, reported>>

\* Mistaken variant: the grant is read when the outcome is pushed.
OutcomeOfActive(c) ==
    [channel |-> c, grant |-> active, what |-> "exit", bytes |-> bytesOut[c]]

\* ExecOutcome::from_exit.
OutcomeOf(c) ==
    [channel |-> c, grant |-> run[c].grant, what |-> "exit", bytes |-> bytesOut[c]]

FwdReport(c) ==
    /\ Task(c, "report", "close")
    /\ reported' = Append(reported, OutcomeOf(c))
    /\ UNCHANGED <<outbox, mpsc, bytesOut>>

\* eof, exit status and close.  The task ends, and its receiver with it.
FwdClose(c) ==
    /\ Task(c, "close", "done")
    /\ \/ Hand(c, "exit")
       \/ session = "gone" /\ UNCHANGED outbox
    /\ mpsc' = [mpsc EXCEPT ![c] = 0]
    /\ UNCHANGED <<bytesOut, reported>>

FwdStep(c) ==
    \/ FwdRecv(c) \/ FwdRecvNone(c) \/ FwdData(c) \/ FwdDataFails(c)
    \/ FwdWait(c) \/ FwdReport(c) \/ FwdClose(c)

\* The deadline of an elevation: the process is killed, its descendants are
\* not.  kill_pid of a child that was reaped reaches whoever has its number now,
\* which is outside this module.
TimerKills(c) ==
    /\ run[c].timer = "armed"
    /\ run' = [run EXCEPT ![c].timer = IF run[c].kind = "shell" THEN "closing" ELSE "fired"]
    /\ Killed(c)
    /\ UNCHANGED <<sessionVars, outbox, kin, stdin, pipe, wrote, taskVars, client, reported,
                   authorised>>

\* A shell's timer also closes the channel.
TimerCloses(c) ==
    /\ run[c].timer = "closing"
    /\ run' = [run EXCEPT ![c].timer = "fired"]
    /\ \/ Hand(c, "exit")
       \/ session = "gone" /\ UNCHANGED outbox
    /\ UNCHANGED <<sessionVars, procVars, taskVars, client, reported, authorised>>

-----------------------------------------------------------------------------
ChannelStep(c) ==
    \/ ChildStep(c) \/ KinStep(c)
    \/ \E s \in Streams : ReaderStep(c, s)
    \/ FwdStep(c)
    \/ TimerKills(c) \/ TimerCloses(c)

Request(c) ==
    \/ SessionGrantRefused(c) \/ ExecUnderGrant(c) \/ SpawnFails(c) \/ CmdGrantRefused(c)
    \/ ExecPlain(c) \/ ShellRequest(c)

Next ==
    \/ \E c \in Channels : Request(c) \/ ChannelStep(c)
    \/ EnvRequest \/ Data \/ StdinWritten \/ ChannelEof \/ Deliver \/ SessionEnds

Spec == Init /\ [][Next]_vars

\* Threads, tasks and timers run on; the session serves what is handed to it;
\* a child goes on until it exits, but for an elevated one, which may hang; its
\* descendants need not do anything; the client ends its input.
Fairness ==
    /\ \A c \in Channels :
        /\ WF_vars(~run[c].elevated /\ ChildStep(c)) /\ WF_vars(FwdStep(c))
        /\ \A s \in Streams : WF_vars(ReaderStep(c, s))
        /\ WF_vars(TimerKills(c)) /\ WF_vars(TimerCloses(c))
    /\ WF_vars(Deliver) /\ WF_vars(StdinWritten) /\ WF_vars(ChannelEof)

FairSpec == Spec /\ Fairness

-----------------------------------------------------------------------------
(* Properties. *)

\* What the ledger is told of an execution is true: the grant is the one the
\* command came from, whatever the same connection was asked to run since; the
\* process has ended; the bytes are all that was written to its streams, by it
\* or by what it left behind, when the connection is there; and it is told once.
ReportsAreTrue ==
    \A i \in DOMAIN reported : LET r == reported[i] IN r.what = "exit" =>
        /\ r.grant = authorised[r.channel]
        /\ child[r.channel] = "exited"
        /\ session # "gone" => r.bytes = wrote[r.channel]
        /\ \A j \in DOMAIN reported : reported[j].channel = r.channel => i = j

\* The exit status comes after all that is ever written to the streams, by the
\* process or its descendants; that of a command also from a process that has
\* ended (the forwarder of a shell reports 0 without waiting for it).  Only a
\* shell cut off at its deadline is different.
ExitAfterOutput ==
    \A c \in Channels :
        client[c].told /\ ~(run[c].kind = "shell" /\ run[c].timer # "none") =>
            /\ client[c].chunks = wrote[c] /\ held[c] = {}
            /\ run[c].kind = "exec" => child[c] = "exited"

\* A run whose descendants end, if it has any, ends and its client is told, but
\* for a session task that is over or blocked for ever in a write to a child's
\* input.  A descendant that stays keeps the channel open: the forwarder waits
\* for the streams, not for the process.
RunsEnd ==
    \A c \in Channels :
        <>[](session = "select" /\ ~kin[c]) => (fwd[c] = "recv" ~> client[c].told)

\* An elevated command is killed at its deadline at the latest, whatever became
\* of its connection and whether or not anybody reads its output: the process
\* itself, not what it left behind.
ElevatedEnds == \A c \in Channels :
    Alive(c) /\ run[c].kind = "exec" /\ run[c].elevated ~> ~Alive(c)

-----------------------------------------------------------------------------
(* What the documentation says of the code. *)

\* ssh_server.rs, shell_request: "an elevated (root) shell is killed at the
\* grant's expiry (TTL <= 15', A.1.7) - root never outlives the grant".
RootEndsWithGrant ==
    \A c \in Channels :
        run[c].elevated /\ run[c].timer = "fired" => ~Alive(c) /\ ~kin[c]
=============================================================================
