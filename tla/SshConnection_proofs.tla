------------------------- MODULE SshConnection_proofs -------------------------
(***************************************************************************)
(* Proofs about SshConnection, for any number of channels, output streams  *)
(* and grants, any capacity and any amount of input and output.            *)
(***************************************************************************)
EXTENDS SshConnection, FiniteSetTheorems, TLAPS

-----------------------------------------------------------------------------
(* The inductive invariant. *)

Kinds    == {"none", "failed", "shell", "exec"}
Messages == [channel : Channels, what : {"data", "exit"}]
Reports  == [channel : Channels, grant : Grants \cup {None}, what : {"refused", "exit"},
             bytes : Nat]
Procs    == {"none", "running", "reading", "exited"} \cup Streams
Threads  == {"none", "read", "send", "done"}
Tasks    == {"none", "recv", "data", "wait", "report", "close", "done"}
Told     == [chunks : Nat, told : BOOLEAN]
Runs     == [kind : Kinds, grant : Grants \cup {None}, elevated : BOOLEAN,
             timer : {"none", "armed", "closing", "fired"}]

TypeInv ==
    /\ session \in {"select", "stdin", "gone"}
    /\ pending \in Grants \cup {None} /\ active \in Grants \cup {None}
    /\ writer \in Channels \cup {None} /\ shell \in Channels \cup {None}
    /\ outbox \in SUBSET Messages
    /\ run \in [Channels -> Runs]
    /\ child \in [Channels -> Procs]
    /\ kin \in [Channels -> BOOLEAN] /\ held \in [Channels -> SUBSET Streams]
    /\ pipe \in [Channels -> [Streams -> 0..1]]
    /\ wrote \in [Channels -> Nat]
    /\ reader \in [Channels -> [Streams -> Threads]]
    /\ mpsc \in [Channels -> Nat]
    /\ fwd \in [Channels -> Tasks]
    /\ bytesOut \in [Channels -> Nat]
    /\ client \in [Channels -> Told]
    /\ reported \in Seq(Reports)
    /\ authorised \in [Channels -> Grants \cup {None}]

\* One message at a time is on its way from the tasks to the session, and none once it is over.
OutboxInv ==
    /\ \A m, n \in outbox : m = n
    /\ session = "gone" => outbox = {}

\* A connection that was shown no command grant has none to report under.
GrantInv == pending = None => active = None

DataMessage(c) == [channel |-> c, what |-> "data"]
ExitMessage(c) == [channel |-> c, what |-> "exit"]

\* Nothing was started on the channel: its readers and pipes, its tasks, its client.
Idle(c) ==
    /\ child[c] = "none" /\ fwd[c] = "none" /\ run[c].timer = "none" /\ run[c].grant = None
    /\ ~kin[c] /\ held[c] = {}
    /\ wrote[c] = 0 /\ mpsc[c] = 0 /\ bytesOut[c] = 0
    /\ \A s \in Streams : pipe[c][s] = 0 /\ reader[c][s] = "none"
    /\ client[c].chunks = 0 /\ ~client[c].told
    /\ shell # c /\ authorised[c] = None
    /\ DataMessage(c) \notin outbox /\ ExitMessage(c) \notin outbox

RunInv(c) ==
    /\ run[c].kind \in {"none", "failed"} => Idle(c)
    /\ run[c].kind = "none" => run[c] = Unused
    /\ run[c].kind \in {"shell", "exec"} => child[c] # "none" /\ fwd[c] # "none"
    /\ \A s \in Streams : s \in StreamsOf(c) \/ (pipe[c][s] = 0 /\ reader[c][s] = "none")
    /\ held[c] \subseteq StreamsOf(c)
    /\ \A s \in Streams : child[c] = s => s \in held[c]
    /\ \A s \in StreamsOf(c) : run[c].kind \in {"shell", "exec"} => reader[c][s] # "none"
    /\ run[c].grant = authorised[c]
    /\ run[c].timer = "closing" => run[c].kind = "shell"

\* Chunks in the pipes and in the hands of the readers.
InPipe(c) == {s \in Streams : pipe[c][s] = 1}
InHand(c) == {s \in Streams : reader[c][s] = "send"}

\* Until the forwarder ends no chunk is lost: what was written is in a pipe, with a reader, in the
\* channel, or counted; and a reader is done with a stream that nobody can write to any more.
FlowInv(c) ==
    fwd[c] # "done" =>
        /\ wrote[c] = Cardinality(InPipe(c)) + Cardinality(InHand(c)) + mpsc[c] + bytesOut[c]
        /\ \A s \in Streams : reader[c][s] = "done" => s \notin held[c] /\ pipe[c][s] = 0

\* The forwarder of a connection that is there leaves its loop when nobody has the streams open
\* and all that was written is counted; what is counted is in the forwarder's hand, on its way,
\* or received.  That of a command waits for its process then.
EndInv(c) ==
    /\ run[c].kind = "exec" /\ fwd[c] \in {"report", "close", "done"} => child[c] = "exited"
    /\ fwd[c] \in {"wait", "report"} => run[c].kind = "exec"
    /\ session # "gone" =>
        /\ fwd[c] \in {"wait", "report", "close", "done"} =>
               held[c] = {} /\ wrote[c] = bytesOut[c]
        /\ bytesOut[c] = client[c].chunks + (IF fwd[c] = "data" THEN 1 ELSE 0)
                            + (IF DataMessage(c) \in outbox THEN 1 ELSE 0)

CutOff(c) == run[c].kind = "shell" /\ run[c].timer # "none"

\* The end of a run is told once its output was: but for a shell cut off at its deadline.
ToldInv(c) ==
    ~CutOff(c) =>
        /\ ExitMessage(c) \in outbox => fwd[c] = "done"
        /\ client[c].told => fwd[c] = "done" /\ held[c] = {} /\ client[c].chunks = wrote[c]


\* An outcome that was reported is of a forwarder past its loop, a refusal of a channel on
\* which nothing runs.
ReportInv(c) ==
    \A i \in DOMAIN reported : reported[i].channel = c =>
        /\ reported[i].what = "refused" => run[c].kind = "failed"
        /\ reported[i].what = "exit" =>
               /\ run[c].kind = "exec" /\ reported[i].grant = run[c].grant
               /\ fwd[c] \in {"close", "done"} /\ child[c] = "exited"
               /\ session # "gone" => reported[i].bytes = bytesOut[c]
               /\ \A j \in DOMAIN reported : reported[j].channel = c => i = j

ChannelInv(c) == RunInv(c) /\ FlowInv(c) /\ EndInv(c) /\ ToldInv(c) /\ ReportInv(c)

SshInv == TypeInv /\ OutboxInv /\ GrantInv /\ \A c \in Channels : ChannelInv(c)

USE CapacityAssumption

USE DEF Procs, Threads, Tasks

LEMMA SshInit == Init => SshInv
<1> SUFFICES ASSUME Init PROVE SshInv
  OBVIOUS
<1>1. TypeInv
  <2>1. Unused \in Runs
    BY DEF Unused, Runs, Kinds
  <2>2. run \in [Channels -> Runs] /\ reported \in Seq(Reports)
    BY <2>1 DEF Init
  <2>3. /\ child \in [Channels -> Procs] /\ fwd \in [Channels -> Tasks]
        /\ reader \in [Channels -> [Streams -> Threads]]
        /\ pipe \in [Channels -> [Streams -> 0..1]]
        /\ kin \in [Channels -> BOOLEAN] /\ held \in [Channels -> SUBSET Streams]
    BY DEF Init
  <2>4. client \in [Channels -> Told]
    BY DEF Init, Told
  <2> QED BY <2>2, <2>3, <2>4 DEF Init, TypeInv
<1>2. OutboxInv /\ GrantInv
  BY DEF Init, OutboxInv, GrantInv
<1>3. ASSUME NEW c \in Channels PROVE ChannelInv(c)
  <2>1. InPipe(c) = {} /\ InHand(c) = {} /\ Cardinality({}) = 0
    BY FS_EmptySet DEF Init, InPipe, InHand
  <2>2. RunInv(c)
    BY DEF Init, RunInv, Idle, Unused, StreamsOf
  <2>3. FlowInv(c)
    BY <2>1 DEF Init, FlowInv
  <2>4. EndInv(c) /\ ToldInv(c) /\ ReportInv(c)
    BY DEF Init, EndInv, ToldInv, ReportInv, CutOff
  <2> QED BY <2>2, <2>3, <2>4 DEF ChannelInv
<1> QED BY <1>1, <1>2, <1>3 DEF SshInv

-----------------------------------------------------------------------------
(* Types. *)

LEMMA PipeType ==
    ASSUME TypeInv, NEW c \in Channels, NEW s \in Streams, NEW n \in 0..1
    PROVE  [pipe EXCEPT ![c][s] = n] \in [Channels -> [Streams -> 0..1]]
<1>1. pipe[c] \in [Streams -> 0..1]
  BY DEF TypeInv
<1>2. [pipe[c] EXCEPT ![s] = n] \in [Streams -> 0..1]
  BY <1>1
<1> QED BY <1>2 DEF TypeInv

LEMMA TypeOfRequest ==
    ASSUME TypeInv, NEW c \in Channels, Request(c)
    PROVE  TypeInv'
<1>1. ASSUME NEW kind \in {"shell", "exec"}, NEW grant \in Grants \cup {None}, NEW e \in BOOLEAN,
             Start(c, kind, grant, e)
      PROVE  /\ run' \in [Channels -> Runs]
             /\ child' \in [Channels -> Procs]
             /\ reader' \in [Channels -> [Streams -> Threads]]
             /\ fwd' \in [Channels -> Tasks]
             /\ held' \in [Channels -> SUBSET Streams]
             /\ writer' = c
  <2>1. /\ child' \in [Channels -> Procs] /\ reader' \in [Channels -> [Streams -> Threads]]
        /\ fwd' \in [Channels -> Tasks] /\ writer' = c
    BY <1>1 DEF Start, TypeInv
  <2>2. run' \in [Channels -> Runs]
    BY <1>1 DEF Start, Deadline, TypeInv, Runs, Kinds
  <2>3. held' \in [Channels -> SUBSET Streams]
    <3>1. Streams \in SUBSET Streams /\ {Tty} \in SUBSET Streams
      BY DEF Tty
    <3> QED BY <1>1, <3>1 DEF Start, TypeInv
  <2> QED BY <2>1, <2>2, <2>3
<1>2. Fail(c) => run' \in [Channels -> Runs]
  <2>1. run[c] \in Runs
    BY DEF TypeInv
  <2>2. [run[c] EXCEPT !.kind = "failed"] \in Runs
    BY <2>1 DEF Runs, Kinds
  <2> QED BY <2>2 DEF Fail, TypeInv
<1>3. CASE SessionGrantRefused(c) \/ SpawnFails(c)
  BY <1>2, <1>3 DEF SessionGrantRefused, SpawnFails, sessionVars, procVars, taskVars, TypeInv
<1>4. CASE CmdGrantRefused(c)
  <2>1. [channel |-> c, grant |-> pending, what |-> "refused", bytes |-> 0] \in Reports
    BY DEF Reports, TypeInv
  <2>2. reported' \in Seq(Reports)
    BY <1>4, <2>1 DEF CmdGrantRefused, TypeInv
  <2> QED BY <1>2, <1>4, <2>2 DEF CmdGrantRefused, sessionVars, procVars, taskVars, TypeInv
<1>5. CASE ExecUnderGrant(c)
  <2>1. Start(c, "exec", pending, FALSE)
    BY <1>5 DEF ExecUnderGrant, SpawnExec
  <2>2. pending \in Grants \cup {None}
    BY DEF TypeInv
  <2> QED BY <1>1, <1>5, <2>1, <2>2 DEF ExecUnderGrant, TypeInv
<1>6. CASE ExecPlain(c)
  <2>1. PICK e \in BOOLEAN : Start(c, "exec", active, e)
    BY <1>6 DEF ExecPlain, SpawnExec
  <2>2. active \in Grants \cup {None}
    BY DEF TypeInv
  <2>3. UNCHANGED <<session, pending, active, shell, outbox, kin, pipe, wrote, mpsc, bytesOut,
                    client, reported, authorised>>
    BY <1>6 DEF ExecPlain
  <2>4. run' \in [Channels -> Runs] /\ writer' = c
    BY <1>1, <2>1, <2>2
  <2>5. /\ child' \in [Channels -> Procs] /\ reader' \in [Channels -> [Streams -> Threads]]
        /\ fwd' \in [Channels -> Tasks] /\ held' \in [Channels -> SUBSET Streams]
    BY <1>1, <2>1, <2>2
  <2> QED BY <2>3, <2>4, <2>5 DEF TypeInv
<1>7. CASE ShellRequest(c)
  <2>1. PICK e \in BOOLEAN : Start(c, "shell", None, e)
    BY <1>7 DEF ShellRequest
  <2>2. /\ shell' = c
        /\ UNCHANGED <<session, pending, active, outbox, kin, pipe, wrote, mpsc, bytesOut,
                       client, reported, authorised>>
    BY <1>7 DEF ShellRequest
  <2>4. run' \in [Channels -> Runs] /\ writer' = c
    BY <1>1, <2>1
  <2>5. /\ child' \in [Channels -> Procs] /\ reader' \in [Channels -> [Streams -> Threads]]
        /\ fwd' \in [Channels -> Tasks] /\ held' \in [Channels -> SUBSET Streams]
    BY <1>1, <2>1
  <2> QED BY <2>2, <2>4, <2>5 DEF TypeInv
<1> QED BY <1>3, <1>4, <1>5, <1>6, <1>7 DEF Request

LEMMA TypeOfChannelStep ==
    ASSUME TypeInv, NEW c \in Channels, ChannelStep(c)
    PROVE  TypeInv'
<1>1. \A what \in {"data", "exit"} : [channel |-> c, what |-> what] \in Messages
  BY DEF Messages
<1>2. \A to \in Procs : Become(c, to) => child' \in [Channels -> Procs]
  BY DEF Become, TypeInv
<1>0. ASSUME Gone(c) PROVE child' \in [Channels -> Procs] /\ held' \in [Channels -> SUBSET Streams]
  BY <1>0 DEF Gone, TypeInv
<1>3. ASSUME ChildStep(c) PROVE TypeInv'
  <2>1. CASE ChildCalls(c)
    <3>1. child' \in [Channels -> Procs] /\ held' \in [Channels -> SUBSET Streams]
      BY <1>0, <1>2, <2>1 DEF ChildCalls, TypeInv
    <3> QED BY <2>1, <3>1 DEF ChildCalls, sessionVars, taskVars, TypeInv
  <2>2. CASE ChildReads(c) \/ ChildCutOff(c)
    <3>1. child' \in [Channels -> Procs] /\ held' \in [Channels -> SUBSET Streams]
      BY <1>0, <1>2, <2>2 DEF ChildReads, ChildCutOff, TypeInv
    <3> QED BY <2>2, <3>1 DEF ChildReads, ChildCutOff, sessionVars, taskVars, TypeInv
  <2>3. ASSUME NEW s \in Streams, ChildWrites(c, s) PROVE TypeInv'
    <3>1. pipe' \in [Channels -> [Streams -> 0..1]] /\ wrote' \in [Channels -> Nat]
      BY <2>3, PipeType DEF ChildWrites, Fills, TypeInv
    <3> QED BY <1>2, <2>3, <3>1 DEF ChildWrites, Fills, sessionVars, taskVars, TypeInv
  <2> QED BY <1>3, <2>1, <2>2, <2>3 DEF ChildStep
<1>7. ASSUME KinStep(c) PROVE TypeInv'
  <2>1. CASE ChildForks(c) \/ KinReads(c) \/ KinEnds(c)
    <3>1. kin' \in [Channels -> BOOLEAN] /\ held' \in [Channels -> SUBSET Streams]
      BY <2>1 DEF ChildForks, KinReads, KinEnds, TypeInv
    <3> QED BY <2>1, <3>1 DEF ChildForks, KinReads, KinEnds, sessionVars, taskVars, TypeInv
  <2>2. ASSUME NEW s \in Streams, StreamCloses(c, s) PROVE TypeInv'
    <3>1. held' \in [Channels -> SUBSET Streams]
      BY <2>2 DEF StreamCloses, TypeInv
    <3> QED BY <2>2, <3>1 DEF StreamCloses, sessionVars, taskVars, TypeInv
  <2>3. ASSUME NEW s \in Streams, KinWrites(c, s) PROVE TypeInv'
    <3>1. pipe' \in [Channels -> [Streams -> 0..1]] /\ wrote' \in [Channels -> Nat]
      BY <2>3, PipeType DEF KinWrites, Fills, TypeInv
    <3> QED BY <2>3, <3>1 DEF KinWrites, Fills, sessionVars, taskVars, TypeInv
  <2> QED BY <1>7, <2>1, <2>2, <2>3 DEF KinStep
<1>4. ASSUME NEW s \in Streams, ReaderStep(c, s) PROVE TypeInv'
  <2>1. ASSUME NEW from, NEW to \in Threads, Thread(c, s, from, to)
        PROVE  reader' \in [Channels -> [Streams -> Threads]]
    BY <2>1 DEF Thread, TypeInv
  <2>2. CASE ReaderReads(c, s) \/ ReaderEof(c, s)
    <3>1. pipe' \in [Channels -> [Streams -> 0..1]] /\ mpsc' = mpsc
      <4>1. [pipe EXCEPT ![c][s] = 0] \in [Channels -> [Streams -> 0..1]]
        BY PipeType
      <4>2. mpsc' = mpsc /\ (pipe' = pipe \/ pipe' = [pipe EXCEPT ![c][s] = 0])
        BY <2>2 DEF ReaderReads, ReaderEof
      <4> QED BY <4>1, <4>2 DEF TypeInv
    <3>2. Thread(c, s, "read", "send") \/ Thread(c, s, "read", "done")
      BY <2>2 DEF ReaderReads, ReaderEof
    <3> QED BY <2>1, <3>1, <3>2 DEF Thread, sessionVars, TypeInv
  <2>3. CASE ReaderSends(c, s) \/ ReaderSendFails(c, s)
    <3>1. pipe' = pipe /\ mpsc' \in [Channels -> Nat]
      <4>1. pipe' = pipe /\ (mpsc' = mpsc \/ mpsc' = [mpsc EXCEPT ![c] = @ + 1])
        BY <2>3 DEF ReaderSends, ReaderSendFails
      <4>2. mpsc \in [Channels -> Nat] /\ mpsc[c] + 1 \in Nat
        BY DEF TypeInv
      <4> QED BY <4>1, <4>2
    <3>2. Thread(c, s, "send", "read") \/ Thread(c, s, "send", "done")
      BY <2>3 DEF ReaderSends, ReaderSendFails
    <3> QED BY <2>1, <3>1, <3>2 DEF Thread, sessionVars, TypeInv
  <2> QED BY <1>4, <2>2, <2>3 DEF ReaderStep
<1>5. ASSUME FwdStep(c) PROVE TypeInv'
  <2>1. ASSUME NEW from, Task(c, from, AfterLoop(c))
        PROVE  fwd' \in [Channels -> Tasks]
    BY <2>1 DEF Task, AfterLoop, TypeInv
  <2>2. ASSUME NEW from, NEW to \in Tasks,
               Task(c, from, to)
        PROVE  fwd' \in [Channels -> Tasks]
    BY <2>2 DEF Task, TypeInv
  <2>3. CASE FwdRecv(c)
    <3>1. mpsc[c] \in Nat /\ mpsc[c] > 0 /\ bytesOut[c] \in Nat
      BY <2>3 DEF FwdRecv, TypeInv
    <3>2. mpsc[c] - 1 \in Nat /\ bytesOut[c] + 1 \in Nat
      BY <3>1
    <3>3. mpsc' \in [Channels -> Nat] /\ bytesOut' \in [Channels -> Nat]
      BY <2>3, <3>2 DEF FwdRecv, TypeInv
    <3> QED BY <2>2, <2>3, <3>3 DEF FwdRecv, Task, sessionVars, procVars, TypeInv
  <2>4. CASE FwdRecvNone(c) \/ FwdDataFails(c)
    BY <2>1, <2>4 DEF FwdRecvNone, FwdDataFails, Task, sessionVars, procVars, TypeInv
  <2>5. CASE FwdData(c)
    BY <1>1, <2>2, <2>5 DEF FwdData, Hand, Task, sessionVars, procVars, TypeInv
  <2>6. CASE FwdWait(c)
    BY <2>2, <2>6 DEF FwdWait, Task, sessionVars, procVars, TypeInv
  <2>7. CASE FwdReport(c)
    <3>1. OutcomeOf(c) \in Reports
      BY DEF OutcomeOf, Reports, TypeInv, Runs
    <3>2. reported' \in Seq(Reports)
      BY <2>7, <3>1 DEF FwdReport, TypeInv
    <3> QED BY <2>2, <2>7, <3>2 DEF FwdReport, Task, sessionVars, procVars, TypeInv
  <2>8. CASE FwdClose(c)
    BY <1>1, <2>2, <2>8 DEF FwdClose, Hand, Task, sessionVars, procVars, TypeInv
  <2> QED BY <1>5, <2>3, <2>4, <2>5, <2>6, <2>7, <2>8 DEF FwdStep
<1>6. ASSUME TimerKills(c) \/ TimerCloses(c) PROVE TypeInv'
  <2>1. run' \in [Channels -> Runs]
    <3>1. run[c] \in Runs
      BY DEF TypeInv
    <3>2. \A t \in {"closing", "fired"} : [run[c] EXCEPT !.timer = t] \in Runs
      BY <3>1 DEF Runs
    <3>3. PICK t \in {"closing", "fired"} : run' = [run EXCEPT ![c] = [run[c] EXCEPT !.timer = t]]
      BY <1>6 DEF TimerKills, TimerCloses
    <3>4. run \in [Channels -> Runs] /\ [run[c] EXCEPT !.timer = t] \in Runs
      BY <3>2 DEF TypeInv
    <3> QED BY <3>3, <3>4
  <2>2. CASE TimerKills(c)
    <3>1. child' \in [Channels -> Procs] /\ held' \in [Channels -> SUBSET Streams]
      BY <1>0, <2>2 DEF TimerKills, Killed, TypeInv
    <3> QED BY <2>1, <2>2, <3>1 DEF TimerKills, sessionVars, taskVars, TypeInv
  <2>3. CASE TimerCloses(c)
    BY <1>1, <2>1, <2>3 DEF TimerCloses, Hand, sessionVars, procVars, taskVars, TypeInv
  <2> QED BY <1>6, <2>2, <2>3
<1> QED BY <1>3, <1>4, <1>5, <1>6, <1>7 DEF ChannelStep

LEMMA TypeStep == TypeInv /\ [Next]_vars => TypeInv'
<1> SUFFICES ASSUME TypeInv, [Next]_vars PROVE TypeInv'
  OBVIOUS
<1>1. CASE EnvRequest \/ Data \/ StdinWritten \/ ChannelEof
  BY <1>1 DEF EnvRequest, Data, StdinWritten, ChannelEof, procVars, taskVars, sessionVars, TypeInv
<1>2. CASE Deliver
  <2>1. client' \in [Channels -> Told]
    <3>1. PICK m \in outbox :
             \/ m.what = "data" /\ client' = [client EXCEPT ![m.channel].chunks = @ + 1]
             \/ m.what = "exit" /\ client' = [client EXCEPT ![m.channel].told = TRUE]
      BY <1>2 DEF Deliver
    <3>2. m.channel \in Channels /\ client[m.channel] \in Told
      BY DEF TypeInv, Messages
    <3> DEFINE received == [client[m.channel] EXCEPT !.chunks = client[m.channel].chunks + 1]
               ended    == [client[m.channel] EXCEPT !.told = TRUE]
    <3>3. received \in Told
      BY <3>2 DEF Told
    <3>4. ended \in Told
      BY <3>2 DEF Told
    <3>5. \/ client' = [client EXCEPT ![m.channel] = received]
          \/ client' = [client EXCEPT ![m.channel] = ended]
      BY <3>1
    <3> HIDE DEF received, ended
    <3>6. client \in [Channels -> Told]
      BY DEF TypeInv
    <3> QED BY <3>3, <3>4, <3>5, <3>6
  <2> QED BY <1>2, <2>1 DEF Deliver, sessionVars, procVars, taskVars, TypeInv
<1>3. CASE SessionEnds
  <2>1. child' \in [Channels -> Procs] /\ held' \in [Channels -> SUBSET Streams]
    BY <1>3 DEF SessionEnds, Killed, Gone, TypeInv
  <2> QED BY <1>3, <2>1 DEF SessionEnds, taskVars, TypeInv
<1>4. CASE UNCHANGED vars
  BY <1>4 DEF vars, sessionVars, procVars, taskVars, TypeInv
<1> QED BY TypeOfRequest, TypeOfChannelStep, <1>1, <1>2, <1>3, <1>4 DEF Next

-----------------------------------------------------------------------------
(* What a step leaves alone. *)

\* A step that is not about channel d.
Apart(d) ==
    /\ UNCHANGED <<run[d], child[d], kin[d], held[d], pipe[d], wrote[d], reader[d], mpsc[d], fwd[d], bytesOut[d],
                   client[d], authorised[d]>>
    /\ DataMessage(d) \in outbox' => DataMessage(d) \in outbox
    /\ ExitMessage(d) \in outbox' => ExitMessage(d) \in outbox
    /\ session' # "gone" => session # "gone" /\ (DataMessage(d) \in outbox => DataMessage(d) \in outbox')
    /\ \A i \in DOMAIN reported' : reported'[i].channel = d =>
           i \in DOMAIN reported /\ reported'[i] = reported[i]
    /\ shell' = shell \/ shell' # d

LEMMA ApartKeeps ==
    ASSUME NEW d \in Channels, ChannelInv(d), Apart(d)
    PROVE  ChannelInv(d)'
<1> USE DEF Apart, ChannelInv
<1>1. RunInv(d)'
  BY DEF RunInv, Idle, StreamsOf
<1>2. FlowInv(d)'
  BY DEF FlowInv, InPipe, InHand
<1>3. EndInv(d)'
  BY DEF EndInv
<1>4. ToldInv(d)'
  BY DEF ToldInv, CutOff
<1>5. ReportInv(d)'
  BY DEF ReportInv
<1> QED BY <1>1, <1>2, <1>3, <1>4, <1>5

\* What no step of a channel changes of another.
LEMMA AppendedReport ==
    ASSUME TypeInv, NEW r \in Reports, reported' = Append(reported, r), NEW d, r.channel # d
    PROVE  \A i \in DOMAIN reported' : reported'[i].channel = d =>
               i \in DOMAIN reported /\ reported'[i] = reported[i]
BY DEF TypeInv

LEMMA OthersAtRequest ==
    ASSUME TypeInv, NEW c \in Channels, Request(c), NEW d \in Channels \ {c}
    PROVE  Apart(d)
<1> USE DEF TypeInv
<1>1. ASSUME NEW kind, NEW grant, NEW e, Start(c, kind, grant, e)
      PROVE  UNCHANGED <<run[d], child[d], held[d], reader[d], fwd[d]>>
  BY <1>1 DEF Start
<1>2. Fail(c) => run'[d] = run[d]
  BY DEF Fail
<1>3. CASE SessionGrantRefused(c) \/ SpawnFails(c)
  BY <1>2, <1>3 DEF SessionGrantRefused, SpawnFails, sessionVars, procVars, taskVars, Apart
<1>4. CASE CmdGrantRefused(c)
  <2> DEFINE e == [channel |-> c, grant |-> pending, what |-> "refused", bytes |-> 0]
  <2>1. e \in Reports /\ e.channel # d
    BY DEF Reports
  <2>2. reported' = Append(reported, e)
    BY <1>4 DEF CmdGrantRefused
  <2> HIDE DEF e
  <2>3. \A i \in DOMAIN reported' : reported'[i].channel = d =>
            i \in DOMAIN reported /\ reported'[i] = reported[i]
    BY <2>1, <2>2, AppendedReport
  <2> QED BY <1>2, <1>4, <2>3 DEF CmdGrantRefused, sessionVars, procVars, taskVars, Apart
<1>5. CASE ExecUnderGrant(c)
  BY <1>1, <1>5 DEF ExecUnderGrant, SpawnExec, Apart
<1>6. CASE ExecPlain(c)
  <2>1. \E e : Start(c, "exec", active, e)
    BY <1>6 DEF ExecPlain, SpawnExec
  <2>2. UNCHANGED <<session, shell, outbox, kin, pipe, wrote, mpsc, bytesOut, client, reported, authorised>>
    BY <1>6 DEF ExecPlain
  <2> QED BY <1>1, <2>1, <2>2 DEF Apart
<1>7. CASE ShellRequest(c)
  <2>1. \E e : Start(c, "shell", None, e)
    BY <1>7 DEF ShellRequest
  <2>2. /\ shell' = c
        /\ UNCHANGED <<session, outbox, kin, pipe, wrote, mpsc, bytesOut, client, reported, authorised>>
    BY <1>7 DEF ShellRequest
  <2> QED BY <1>1, <2>1, <2>2 DEF Apart
<1> QED BY <1>3, <1>4, <1>5, <1>6, <1>7 DEF Request

LEMMA OthersAtStep ==
    ASSUME TypeInv, NEW c \in Channels, ChannelStep(c), NEW d \in Channels \ {c}
    PROVE  Apart(d)
<1> USE DEF TypeInv
<1>1. \A what : Hand(c, what) =>
          /\ session # "gone" /\ outbox = {}
          /\ DataMessage(d) \notin outbox' /\ ExitMessage(d) \notin outbox'
  BY DEF Hand, DataMessage, ExitMessage
<1>2. /\ \A to : Become(c, to) => child'[d] = child[d]
      /\ Gone(c) => UNCHANGED <<child[d], held[d]>>
  BY DEF Become, Gone
<1>0. ASSUME NEW s \in Streams, Fills(c, s)
      PROVE  /\ UNCHANGED <<pipe[d], wrote[d], session, shell, outbox, run, kin, held, reader, mpsc, fwd,
                            bytesOut, client, reported, authorised>>
  BY <1>0 DEF Fills, sessionVars, taskVars
<1>3. CASE ChildStep(c)
  <2>1. CASE ChildCalls(c) \/ ChildReads(c) \/ ChildCutOff(c)
    BY <1>2, <2>1 DEF ChildCalls, ChildReads, ChildCutOff, sessionVars, taskVars, Apart
  <2>2. ASSUME NEW s \in Streams, ChildWrites(c, s) PROVE Apart(d)
    BY <1>0, <1>2, <2>2 DEF ChildWrites, Apart
  <2> QED BY <1>3, <2>1, <2>2 DEF ChildStep
<1>8. CASE KinStep(c)
  <2>1. CASE ChildForks(c) \/ KinReads(c) \/ KinEnds(c)
    BY <2>1 DEF ChildForks, KinReads, KinEnds, sessionVars, taskVars, Apart
  <2>2. ASSUME NEW s \in Streams, StreamCloses(c, s) PROVE Apart(d)
    BY <2>2 DEF StreamCloses, sessionVars, taskVars, Apart
  <2>3. ASSUME NEW s \in Streams, KinWrites(c, s) PROVE Apart(d)
    BY <1>0, <2>3 DEF KinWrites, Apart
  <2> QED BY <1>8, <2>1, <2>2, <2>3 DEF KinStep
<1>4. ASSUME NEW s \in Streams, ReaderStep(c, s) PROVE Apart(d)
  <2>1. /\ UNCHANGED <<session, shell, outbox, run, child, kin, held, wrote, fwd, bytesOut, client,
                       reported, authorised>>
        /\ reader'[d] = reader[d]
    BY <1>4 DEF ReaderStep, ReaderReads, ReaderEof, ReaderSends, ReaderSendFails, Thread, sessionVars
  <2>2. pipe'[d] = pipe[d] /\ mpsc'[d] = mpsc[d]
    BY <1>4 DEF ReaderStep, ReaderReads, ReaderEof, ReaderSends, ReaderSendFails
  <2> QED BY <2>1, <2>2 DEF Apart
<1>5. CASE FwdStep(c)
  <2>1. \A from, to : Task(c, from, to) =>
            /\ fwd'[d] = fwd[d]
            /\ UNCHANGED <<session, shell, run, child, kin, held, pipe, wrote, reader, client, authorised>>
    BY DEF Task, sessionVars, procVars
  <2>2. CASE FwdRecv(c) \/ FwdRecvNone(c) \/ FwdDataFails(c) \/ FwdWait(c)
    BY <2>1, <2>2 DEF FwdRecv, FwdRecvNone, FwdDataFails, FwdWait, Apart
  <2>3. CASE FwdData(c) \/ FwdClose(c)
    BY <1>1, <2>1, <2>3 DEF FwdData, FwdClose, Apart
  <2>4. CASE FwdReport(c)
    <3>1. OutcomeOf(c) \in Reports /\ OutcomeOf(c).channel # d
      BY DEF OutcomeOf, Reports, Runs
    <3>2. \A i \in DOMAIN reported' : reported'[i].channel = d =>
              i \in DOMAIN reported /\ reported'[i] = reported[i]
      BY <2>4, <3>1, AppendedReport DEF FwdReport
    <3> QED BY <2>1, <2>4, <3>2 DEF FwdReport, Apart
  <2> QED BY <1>5, <2>2, <2>3, <2>4 DEF FwdStep
<1>6. CASE TimerKills(c)
  BY <1>2, <1>6 DEF TimerKills, Killed, sessionVars, taskVars, Apart
<1>7. CASE TimerCloses(c)
  BY <1>1, <1>7 DEF TimerCloses, sessionVars, procVars, taskVars, Apart
<1> QED BY <1>3, <1>4, <1>5, <1>6, <1>7, <1>8 DEF ChannelStep

-----------------------------------------------------------------------------
(* What a step does to its own channel. *)

LEMMA OneMore ==
    ASSUME NEW S \in SUBSET Streams, NEW s \in Streams, s \notin S
    PROVE  Cardinality(S) \in Nat /\ Cardinality(S \cup {s}) = Cardinality(S) + 1
BY FS_Subset, FS_AddElement, FS_CardinalityType

LEMMA OneLess ==
    ASSUME NEW S \in SUBSET Streams, NEW s \in S
    PROVE  Cardinality(S) \in Nat /\ Cardinality(S \ {s}) = Cardinality(S) - 1
BY FS_Subset, FS_RemoveElement, FS_CardinalityType

LEMMA WhatIsReported ==
    ASSUME TypeInv
    PROVE  \A i \in DOMAIN reported : reported[i].what \in {"refused", "exit"}
<1>1. ASSUME NEW i \in DOMAIN reported PROVE reported[i] \in Reports
  BY <1>1 DEF TypeInv
<1> QED BY <1>1 DEF Reports

\* Nothing is said of a channel without a run.
LEMMA NoReportYet ==
    ASSUME NEW c \in Channels, ChannelInv(c), run[c] = Unused
    PROVE  Idle(c) /\ \A i \in DOMAIN reported : reported[i].channel = c =>
                          reported[i].what # "refused" /\ reported[i].what # "exit"
BY DEF ChannelInv, RunInv, ReportInv, Unused

LEMMA OwnRequest ==
    ASSUME SshInv, NEW c \in Channels, Request(c)
    PROVE  ChannelInv(c)'
<1> USE DEF SshInv
<1>1. run[c] = Unused /\ ChannelInv(c) /\ TypeInv
  BY DEF Request, SessionGrantRefused, SpawnFails, CmdGrantRefused, ExecUnderGrant, ExecPlain, ShellRequest
<1>2. /\ Idle(c)
      /\ \A i \in DOMAIN reported : reported[i].channel = c =>
             reported[i].what # "refused" /\ reported[i].what # "exit"
  BY <1>1, NoReportYet
<1>3. ASSUME Fail(c), UNCHANGED <<session, shell, outbox, child, kin, held, pipe, wrote, reader, mpsc, fwd,
                                  bytesOut, client, authorised>>,
             \A i \in DOMAIN reported' : reported'[i].channel = c => reported'[i].what = "refused"
      PROVE  ChannelInv(c)'
  <2>1. /\ run'[c].kind = "failed" /\ run'[c].grant = run[c].grant /\ run'[c].timer = run[c].timer
    BY <1>1, <1>3 DEF Fail, TypeInv, Runs
  <2>2. RunInv(c)'
    BY <1>1, <1>2, <1>3, <2>1 DEF RunInv, ChannelInv, Idle, StreamsOf
  <2>3. FlowInv(c)'
    BY <1>1, <1>3 DEF FlowInv, ChannelInv, InPipe, InHand
  <2>4. EndInv(c)'
    BY <1>1, <1>2, <1>3 DEF EndInv, ChannelInv, Idle
  <2>5. ToldInv(c)' /\ ReportInv(c)'
    BY <1>2, <1>3, <2>1 DEF ToldInv, ReportInv, Idle
  <2> QED BY <2>2, <2>3, <2>4, <2>5 DEF ChannelInv
<1>4. ASSUME NEW kind \in {"shell", "exec"}, NEW grant, NEW e, Start(c, kind, grant, e),
             authorised'[c] = grant,
             UNCHANGED <<session, outbox, kin, pipe, wrote, mpsc, bytesOut, client, reported>>
      PROVE  ChannelInv(c)'
  <2>1. /\ run'[c].kind = kind /\ run'[c].grant = grant /\ run'[c].timer \in {"none", "armed"}
        /\ child'[c] = "running" /\ fwd'[c] = "recv" /\ held'[c] \subseteq StreamsOf(c)'
        /\ \A s \in Streams : reader'[c][s] = IF kind = "exec" \/ s = Tty THEN "read" ELSE "none"
    <3>1. /\ run'[c].kind = kind /\ run'[c].grant = grant /\ run'[c].timer \in {"none", "armed"}
          /\ child'[c] = "running" /\ fwd'[c] = "recv"
      BY <1>1, <1>4 DEF Start, Deadline, TypeInv
    <3>2. held'[c] = IF kind = "exec" THEN Streams ELSE {Tty}
      BY <1>1, <1>4 DEF Start, TypeInv
    <3>3. held'[c] \subseteq StreamsOf(c)'
      BY <3>1, <3>2 DEF StreamsOf
    <3>4. \A s \in Streams : reader'[c][s] = IF kind = "exec" \/ s = Tty THEN "read" ELSE "none"
      BY <1>1, <1>4 DEF Start, TypeInv
    <3> QED BY <3>1, <3>3, <3>4
  <2>2. RunInv(c)'
    <3>1. /\ run'[c].timer # "closing" /\ run'[c].kind \notin {"none", "failed"}
          /\ run'[c].grant = authorised'[c] /\ child'[c] # "none" /\ fwd'[c] # "none"
      BY <1>4, <2>1
    <3>2. \A s \in Streams : pipe'[c][s] = 0 /\ child'[c] # s
      BY <1>2, <1>4, <2>1 DEF Idle
    <3>3. \A s \in Streams : reader'[c][s] = IF s \in StreamsOf(c)' THEN "read" ELSE "none"
      BY <2>1 DEF StreamsOf
    <3>4. StreamsOf(c)' \subseteq Streams
      BY DEF StreamsOf, Tty
    <3> QED BY <2>1, <3>1, <3>2, <3>3, <3>4 DEF RunInv
  <2>3. FlowInv(c)'
    <3>1. InPipe(c)' = {} /\ InHand(c)' = {} /\ Cardinality({}) = 0
      BY <1>2, <1>4, <2>1, FS_EmptySet DEF InPipe, InHand, Idle
    <3> QED BY <1>2, <1>4, <2>1, <3>1 DEF FlowInv, Idle
  <2>4. EndInv(c)' /\ ToldInv(c)' /\ ReportInv(c)'
    BY <1>2, <1>4, <2>1 DEF EndInv, ToldInv, ReportInv, Idle
  <2> QED BY <2>2, <2>3, <2>4 DEF ChannelInv
<1>5. CASE SessionGrantRefused(c) \/ SpawnFails(c)
  <2>1. \A i \in DOMAIN reported : reported[i].channel = c => reported[i].what = "refused"
    <3>1. \A i \in DOMAIN reported : reported[i].what \in {"refused", "exit"}
      BY <1>1, WhatIsReported
    <3> QED BY <1>2, <3>1
  <2> QED BY <1>3, <1>5, <2>1 DEF SessionGrantRefused, SpawnFails, sessionVars, procVars, taskVars
<1>6. CASE CmdGrantRefused(c)
  <2> DEFINE e == [channel |-> c, grant |-> pending, what |-> "refused", bytes |-> 0]
  <2>1. e \in Reports /\ e.what = "refused" /\ reported' = Append(reported, e)
    BY <1>1, <1>6 DEF CmdGrantRefused, Reports, TypeInv
  <2> HIDE DEF e
  <2>2. \A i \in DOMAIN reported' : reported'[i].channel = c => reported'[i].what = "refused"
    <3>1. \A i \in DOMAIN reported : reported[i].what \in {"refused", "exit"}
      BY <1>1, WhatIsReported
    <3>2. reported \in Seq(Reports)
      BY <1>1 DEF TypeInv
    <3>3. ASSUME NEW i \in DOMAIN reported', i \notin DOMAIN reported PROVE reported'[i] = e
      BY <2>1, <3>2, <3>3
    <3>4. ASSUME NEW i \in DOMAIN reported PROVE reported'[i] = reported[i]
      BY <2>1, <3>2, <3>4
    <3> QED BY <1>2, <2>1, <3>1, <3>3, <3>4
  <2> QED BY <1>3, <1>6, <2>2 DEF CmdGrantRefused, sessionVars, procVars, taskVars
<1>7. CASE ExecUnderGrant(c)
  <2>1. Start(c, "exec", pending, FALSE) /\ authorised'[c] = pending
    BY <1>1, <1>7 DEF ExecUnderGrant, SpawnExec, TypeInv
  <2>2. UNCHANGED <<session, outbox, kin, pipe, wrote, mpsc, bytesOut, client, reported>>
    BY <1>7 DEF ExecUnderGrant
  <2> QED BY <1>4, <2>1, <2>2
<1>8. CASE ExecPlain(c)
  <2>1. active = None
    BY <1>8 DEF ExecPlain, GrantInv
  <2>2. PICK e : Start(c, "exec", None, e)
    BY <1>8, <2>1 DEF ExecPlain, SpawnExec
  <2>3. UNCHANGED <<session, outbox, kin, pipe, wrote, mpsc, bytesOut, client, reported, authorised>>
    BY <1>8 DEF ExecPlain
  <2>4. authorised'[c] = None
    BY <1>2, <2>3 DEF Idle
  <2> QED BY <1>4, <2>2, <2>3, <2>4
<1>9. CASE ShellRequest(c)
  <2>1. PICK e : Start(c, "shell", None, e)
    BY <1>9 DEF ShellRequest
  <2>2. UNCHANGED <<session, outbox, kin, pipe, wrote, mpsc, bytesOut, client, reported, authorised>>
    BY <1>9 DEF ShellRequest
  <2>3. authorised'[c] = None
    BY <1>2, <2>2 DEF Idle
  <2> QED BY <1>4, <2>1, <2>2, <2>3
<1> QED BY <1>5, <1>6, <1>7, <1>8, <1>9 DEF Request

\* While somebody has a stream open, nothing of what follows the end of the output has happened.
LEMMA HeldMeansRunning ==
    ASSUME NEW c \in Channels, ChannelInv(c), TypeInv, NEW s \in held[c]
    PROVE  /\ session # "gone" => fwd[c] \in {"recv", "data"}
           /\ fwd[c] # "done" => reader[c][s] # "done"
           /\ ~CutOff(c) => ~client[c].told
<1>1. fwd[c] # "none" /\ s \in Streams
  BY DEF ChannelInv, RunInv, Idle, TypeInv, Runs, Kinds
<1>2. session # "gone" => fwd[c] \in {"recv", "data"}
  BY <1>1 DEF ChannelInv, EndInv, TypeInv
<1>3. fwd[c] # "done" => reader[c][s] # "done"
  BY <1>1 DEF ChannelInv, FlowInv
<1>4. ~CutOff(c) => ~client[c].told
  BY DEF ChannelInv, ToldInv
<1> QED BY <1>2, <1>3, <1>4

\* Somebody fills a pipe of the channel.
Filled(c, s) ==
    /\ s \in held[c] /\ held'[c] = held[c] /\ pipe[c][s] = 0 /\ wrote'[c] = wrote[c] + 1
    /\ \A q \in Streams : pipe'[c][q] = IF q = s THEN 1 ELSE pipe[c][q]

\* What the programs of a channel, and whoever kills them, may do keeps its invariant.
LEMMA ProgramKeeps ==
    ASSUME TypeInv, NEW c \in Channels, ChannelInv(c), run[c].kind \in {"shell", "exec"},
           child'[c] # "none", child[c] = "exited" => child'[c] = "exited",
           held'[c] \subseteq held[c], \A s \in Streams : child'[c] = s => s \in held'[c],
           \/ pipe'[c] = pipe[c] /\ wrote'[c] = wrote[c]
           \/ \E s \in Streams : Filled(c, s),
           run'[c].kind = run[c].kind, run'[c].grant = run[c].grant,
           run'[c].timer = run[c].timer \/ (run'[c].timer # "none" /\ run[c].timer # "none"),
           run'[c].timer = "closing" => run[c].kind = "shell",
           shell' = shell \/ shell' = None, outbox' \subseteq outbox,
           session' # "gone" => session # "gone" /\ outbox' = outbox,
           UNCHANGED <<reader, mpsc, fwd, bytesOut, client, reported, authorised>>
    PROVE  ChannelInv(c)'
<1>1. fwd[c] # "none" /\ StreamsOf(c)' = StreamsOf(c)
  BY DEF ChannelInv, RunInv, StreamsOf
<1>2. held[c] \subseteq StreamsOf(c) /\ StreamsOf(c) \subseteq Streams
  BY DEF ChannelInv, RunInv, StreamsOf, Tty
<1>3. RunInv(c)'
  <2>1. \A s \in Streams \ StreamsOf(c) : pipe'[c][s] = pipe[c][s]
    BY <1>2 DEF Filled
  <2> QED BY <1>1, <1>2, <2>1 DEF ChannelInv, RunInv
<1>4. CASE pipe'[c] = pipe[c] /\ wrote'[c] = wrote[c]
  <2>1. FlowInv(c)'
    BY <1>4 DEF ChannelInv, FlowInv, InPipe, InHand
  <2>2. EndInv(c)'
    BY <1>4 DEF ChannelInv, EndInv
  <2>3. ToldInv(c)'
    BY <1>4 DEF ChannelInv, ToldInv, CutOff
  <2>4. ReportInv(c)'
    BY DEF ChannelInv, ReportInv
  <2> QED BY <1>3, <2>1, <2>2, <2>3, <2>4 DEF ChannelInv
<1>5. ASSUME NEW s \in Streams, Filled(c, s) PROVE ChannelInv(c)'
  <2>1. /\ session # "gone" => fwd[c] \in {"recv", "data"}
        /\ fwd[c] # "done" => reader[c][s] # "done"
        /\ ~CutOff(c) => ~client[c].told
    BY <1>5, HeldMeansRunning DEF Filled
  <2>2. s \notin InPipe(c) /\ InPipe(c)' = InPipe(c) \cup {s} /\ InHand(c)' = InHand(c)
    BY <1>5 DEF InPipe, InHand, Filled
  <2>3. Cardinality(InPipe(c)) \in Nat /\ Cardinality(InPipe(c)') = Cardinality(InPipe(c)) + 1
    BY <2>2, OneMore DEF InPipe
  <2>4. Cardinality(InHand(c)) \in Nat
    BY FS_Subset, FS_CardinalityType DEF InHand
  <2>5. wrote[c] \in Nat /\ mpsc[c] \in Nat /\ bytesOut[c] \in Nat
    BY DEF TypeInv
  <2>6. fwd[c] # "done" =>
            wrote'[c] = Cardinality(InPipe(c)') + Cardinality(InHand(c)') + mpsc'[c] + bytesOut'[c]
    <3>1. fwd[c] # "done" =>
            wrote[c] = Cardinality(InPipe(c)) + Cardinality(InHand(c)) + mpsc[c] + bytesOut[c]
      BY DEF ChannelInv, FlowInv
    <3>2. wrote'[c] = wrote[c] + 1 /\ mpsc' = mpsc /\ bytesOut' = bytesOut
      BY <1>5 DEF Filled
    <3> QED BY <2>2, <2>3, <2>4, <2>5, <3>1, <3>2
  <2>7. FlowInv(c)'
    <3>1. \A q \in Streams : reader'[c][q] = reader[c][q] /\ (q # s => pipe'[c][q] = pipe[c][q])
      BY <1>5 DEF Filled
    <3>2. fwd[c] # "done" =>
             \A q \in Streams : reader[c][q] = "done" => q # s /\ q \notin held[c] /\ pipe[c][q] = 0
      BY <2>1 DEF ChannelInv, FlowInv
    <3> QED BY <2>6, <3>1, <3>2 DEF FlowInv
  <2>8. EndInv(c)'
    BY <2>1 DEF ChannelInv, EndInv
  <2>9. ToldInv(c)' /\ ReportInv(c)'
    <3>1. CutOff(c)' = CutOff(c)
      BY DEF CutOff
    <3>2. ToldInv(c)'
      BY <2>1, <3>1 DEF ChannelInv, ToldInv
    <3>3. ReportInv(c)'
      <4>1. session' # "gone" => session # "gone"
        OBVIOUS
      <4> QED BY <4>1 DEF ChannelInv, ReportInv
    <3> QED BY <3>2, <3>3
  <2> QED BY <1>3, <2>7, <2>8, <2>9 DEF ChannelInv
<1> QED BY <1>4, <1>5

LEMMA OwnProgramStep ==
    ASSUME TypeInv, NEW c \in Channels, ChannelInv(c), ChildStep(c) \/ KinStep(c)
    PROVE  ChannelInv(c)'
<1>1. Alive(c) \/ kin[c]
  BY DEF ChildStep, KinStep, ChildCalls, ChildReads, ChildWrites, ChildCutOff, ChildForks,
         StreamCloses, KinWrites, KinReads, KinEnds, Alive, TypeInv
<1>2. run[c].kind \in {"shell", "exec"} /\ child[c] # "none"
  <2>1. run[c].kind \in {"shell", "exec"}
    BY <1>1 DEF ChannelInv, RunInv, Idle, Alive, TypeInv, Runs, Kinds
  <2> QED BY <2>1 DEF ChannelInv, RunInv
<1>3. /\ run[c].timer = "closing" => run[c].kind = "shell"
      /\ \A s \in Streams : child[c] = s => s \in held[c]
      /\ held[c] \subseteq Streams
  BY DEF ChannelInv, RunInv, TypeInv
<1>4. UNCHANGED <<session, shell, outbox, run, reader, mpsc, fwd, bytesOut, client, reported, authorised>>
  BY DEF ChildStep, KinStep, ChildCalls, ChildReads, ChildWrites, ChildCutOff, ChildForks,
         StreamCloses, KinWrites, KinReads, KinEnds, Fills, sessionVars, taskVars
<1>5. ASSUME child'[c] # "none", child[c] = "exited" => child'[c] = "exited",
             held'[c] \subseteq held[c], \A s \in Streams : child'[c] = s => s \in held'[c],
             \/ pipe'[c] = pipe[c] /\ wrote'[c] = wrote[c]
             \/ \E s \in Streams : Filled(c, s)
      PROVE  ChannelInv(c)'
  BY <1>2, <1>3, <1>4, <1>5, ProgramKeeps
<1>6. \A to : Become(c, to) => child'[c] = to
  BY DEF Become, TypeInv
<1>7. Gone(c) => child'[c] = "exited" /\ held'[c] \subseteq held[c]
  BY DEF Gone, TypeInv
<1>8. ASSUME NEW s \in Streams, Fills(c, s), s \in held[c] PROVE Filled(c, s)
  BY <1>8 DEF Fills, Filled, TypeInv
<1>9. CASE ChildCalls(c)
  <2>1. child[c] = "running" /\ pipe' = pipe /\ wrote' = wrote
    BY <1>9 DEF ChildCalls
  <2>2. CASE Gone(c)
    BY <1>5, <1>7, <2>1, <2>2
  <2>3. ASSUME NEW to \in {"reading"} \cup held[c], Become(c, to), UNCHANGED held PROVE ChannelInv(c)'
    <3>1. child'[c] = to /\ to # "none" /\ child'[c] # "none"
      BY <1>3, <1>6, <2>3
    <3>2. \A s \in Streams : child'[c] = s => s \in held'[c]
      BY <2>3, <3>1
    <3> QED BY <1>5, <2>1, <2>3, <3>1, <3>2
  <2> QED BY <1>9, <2>2, <2>3 DEF ChildCalls
<1>10. CASE ChildReads(c)
  BY <1>5, <1>6, <1>10 DEF ChildReads
<1>11. CASE ChildCutOff(c)
  BY <1>5, <1>7, <1>11 DEF ChildCutOff
<1>12. ASSUME NEW s \in Streams, ChildWrites(c, s) PROVE ChannelInv(c)'
  <2>1. child[c] = s /\ child'[c] = "running" /\ UNCHANGED held /\ Filled(c, s)
    BY <1>3, <1>6, <1>8, <1>12 DEF ChildWrites, Fills
  <2> QED BY <1>5, <2>1
<1>13. CASE ChildForks(c) \/ KinReads(c)
  BY <1>2, <1>3, <1>5, <1>13 DEF ChildForks, KinReads
<1>14. CASE KinEnds(c)
  <2>1. UNCHANGED <<child, pipe, wrote>> /\ held'[c] = IF Alive(c) THEN held[c] ELSE {}
    BY <1>14 DEF KinEnds, TypeInv
  <2>2. \A s \in Streams : child'[c] = s => s \in held'[c]
    BY <1>2, <1>3, <2>1 DEF Alive
  <2> QED BY <1>2, <1>5, <2>1, <2>2
<1>15. ASSUME NEW s \in Streams, StreamCloses(c, s) PROVE ChannelInv(c)'
  <2>1. UNCHANGED <<child, pipe, wrote>> /\ held'[c] = held[c] \ {s} /\ child[c] # s
    BY <1>15 DEF StreamCloses, TypeInv
  <2> QED BY <1>2, <1>3, <1>5, <2>1
<1>16. ASSUME NEW s \in Streams, KinWrites(c, s) PROVE ChannelInv(c)'
  <2>1. UNCHANGED <<child, held>> /\ Filled(c, s)
    BY <1>8, <1>16 DEF KinWrites, Fills
  <2> QED BY <1>2, <1>3, <1>5, <2>1
<1> QED BY <1>9, <1>10, <1>11, <1>12, <1>13, <1>14, <1>15, <1>16 DEF ChildStep, KinStep

LEMMA OwnReaderStep ==
    ASSUME TypeInv, NEW c \in Channels, ChannelInv(c), NEW s \in Streams, ReaderStep(c, s)
    PROVE  ChannelInv(c)'
<1>1. UNCHANGED <<session, shell, outbox, run, child, kin, held, wrote, fwd, bytesOut, client,
                  reported, authorised>>
  BY DEF ReaderStep, ReaderReads, ReaderEof, ReaderSends, ReaderSendFails, Thread, sessionVars
<1>2. ASSUME NEW from, NEW to, Thread(c, s, from, to)
      PROVE  /\ reader[c][s] = from
             /\ \A q \in Streams : reader'[c][q] = IF q = s THEN to ELSE reader[c][q]
  BY <1>2 DEF Thread, TypeInv
<1>3. Cardinality(InHand(c)) \in Nat /\ Cardinality(InPipe(c)) \in Nat
  BY FS_Subset, FS_CardinalityType DEF InHand, InPipe
<1>4. wrote[c] \in Nat /\ mpsc[c] \in Nat /\ bytesOut[c] \in Nat
  BY DEF TypeInv
<1>5. fwd[c] # "done" =>
        /\ wrote[c] = Cardinality(InPipe(c)) + Cardinality(InHand(c)) + mpsc[c] + bytesOut[c]
        /\ \A q \in Streams : reader[c][q] = "done" => q \notin held[c] /\ pipe[c][q] = 0
  BY DEF ChannelInv, FlowInv
<1>6. ASSUME reader[c][s] # "none", \A q \in Streams \ {s} : reader'[c][q] = reader[c][q],
             reader'[c][s] # "none", \A q \in Streams \ {s} : pipe'[c][q] = pipe[c][q],
             pipe'[c][s] \in {0, pipe[c][s]}, FlowInv(c)'
      PROVE  ChannelInv(c)'
  <2>1. s \in StreamsOf(c) /\ StreamsOf(c)' = StreamsOf(c) /\ StreamsOf(c) \subseteq Streams
    BY <1>1, <1>6 DEF ChannelInv, RunInv, StreamsOf, Tty
  <2>2. run[c].kind \notin {"none", "failed"}
    BY <1>6 DEF ChannelInv, RunInv, Idle
  <2>3. RunInv(c)'
    BY <1>1, <1>6, <2>1, <2>2 DEF ChannelInv, RunInv
  <2>4. EndInv(c)'
    BY <1>1 DEF ChannelInv, EndInv
  <2>5. ToldInv(c)' /\ ReportInv(c)'
    BY <1>1 DEF ChannelInv, ToldInv, ReportInv, CutOff
  <2> QED BY <1>6, <2>3, <2>4, <2>5 DEF ChannelInv
<1>7. CASE ReaderReads(c, s)
  <2>1. /\ reader[c][s] = "read" /\ pipe[c][s] = 1 /\ mpsc' = mpsc
        /\ \A q \in Streams : reader'[c][q] = IF q = s THEN "send" ELSE reader[c][q]
        /\ \A q \in Streams : pipe'[c][q] = IF q = s THEN 0 ELSE pipe[c][q]
    BY <1>2, <1>7 DEF ReaderReads, TypeInv
  <2>2. /\ s \in InPipe(c) /\ InPipe(c)' = InPipe(c) \ {s}
        /\ s \notin InHand(c) /\ InHand(c)' = InHand(c) \cup {s}
    BY <2>1 DEF InPipe, InHand
  <2>3. /\ Cardinality(InPipe(c)') = Cardinality(InPipe(c)) - 1
        /\ Cardinality(InHand(c)') = Cardinality(InHand(c)) + 1
    BY <2>2, OneMore, OneLess DEF InPipe, InHand
  <2>4. FlowInv(c)'
    BY <1>1, <1>3, <1>4, <1>5, <2>1, <2>3 DEF FlowInv
  <2> QED BY <1>6, <2>1, <2>4
<1>8. CASE ReaderEof(c, s)
  <2>1. /\ reader[c][s] = "read" /\ pipe[c][s] = 0 /\ s \notin held[c] /\ mpsc' = mpsc /\ pipe' = pipe
        /\ \A q \in Streams : reader'[c][q] = IF q = s THEN "done" ELSE reader[c][q]
    BY <1>2, <1>8 DEF ReaderEof
  <2>2. InPipe(c)' = InPipe(c) /\ InHand(c)' = InHand(c)
    BY <2>1 DEF InPipe, InHand
  <2>3. FlowInv(c)'
    BY <1>1, <1>5, <2>1, <2>2 DEF FlowInv
  <2> QED BY <1>6, <2>1, <2>3
<1>9. CASE ReaderSends(c, s)
  <2>1. /\ reader[c][s] = "send" /\ mpsc'[c] = mpsc[c] + 1 /\ pipe' = pipe
        /\ \A q \in Streams : reader'[c][q] = IF q = s THEN "read" ELSE reader[c][q]
    BY <1>2, <1>9 DEF ReaderSends, TypeInv
  <2>2. InPipe(c)' = InPipe(c) /\ s \in InHand(c) /\ InHand(c)' = InHand(c) \ {s}
    BY <2>1 DEF InPipe, InHand
  <2>3. Cardinality(InHand(c)') = Cardinality(InHand(c)) - 1
    BY <2>2, OneLess DEF InHand
  <2>4. FlowInv(c)'
    BY <1>1, <1>3, <1>4, <1>5, <2>1, <2>2, <2>3 DEF FlowInv
  <2> QED BY <1>6, <2>1, <2>4
<1>10. CASE ReaderSendFails(c, s)
  <2>1. /\ reader[c][s] = "send" /\ pipe' = pipe /\ fwd[c] = "done"
        /\ \A q \in Streams : reader'[c][q] = IF q = s THEN "done" ELSE reader[c][q]
    BY <1>2, <1>10 DEF ReaderSendFails
  <2>2. FlowInv(c)'
    BY <1>1, <2>1 DEF FlowInv
  <2> QED BY <1>6, <2>1, <2>2
<1> QED BY <1>7, <1>8, <1>9, <1>10 DEF ReaderStep

\* A loop that ended with all readers has counted everything.
LEMMA AllCounted ==
    ASSUME TypeInv, NEW c \in Channels, ChannelInv(c), fwd[c] = "recv", OutputEnded(c)
    PROVE  held[c] = {} /\ wrote[c] = bytesOut[c]
<1>1. StreamsOf(c) # {} /\ StreamsOf(c) \subseteq Streams
  BY DEF StreamsOf, Tty
<1>2. /\ wrote[c] = Cardinality(InPipe(c)) + Cardinality(InHand(c)) + mpsc[c] + bytesOut[c]
      /\ \A s \in Streams : reader[c][s] = "done" => s \notin held[c] /\ pipe[c][s] = 0
  BY DEF ChannelInv, FlowInv
<1>3. held[c] = {}
  BY <1>1, <1>2 DEF OutputEnded, ChannelInv, RunInv
<1>4. \A s \in Streams : pipe[c][s] = 0 /\ reader[c][s] # "send"
  BY <1>1, <1>2 DEF OutputEnded, ChannelInv, RunInv
<1>5. InPipe(c) = {} /\ InHand(c) = {} /\ Cardinality({}) = 0
  BY <1>4, FS_EmptySet DEF InPipe, InHand
<1>6. mpsc[c] = 0 /\ wrote[c] \in Nat /\ bytesOut[c] \in Nat
  BY DEF OutputEnded, TypeInv
<1> QED BY <1>2, <1>3, <1>5, <1>6

LEMMA OwnFwdStep ==
    ASSUME TypeInv, OutboxInv, NEW c \in Channels, ChannelInv(c), FwdStep(c)
    PROVE  ChannelInv(c)'
<1>1. ASSUME NEW from, NEW to, Task(c, from, to)
      PROVE  /\ fwd[c] = from /\ fwd'[c] = to
             /\ UNCHANGED <<session, shell, run, child, kin, held, pipe, wrote, reader, client,
                            authorised>>
  BY <1>1 DEF Task, TypeInv, sessionVars, procVars
<1>2. wrote[c] \in Nat /\ mpsc[c] \in Nat /\ bytesOut[c] \in Nat /\ client[c].chunks \in Nat
  BY DEF TypeInv, Told
<1>3. Cardinality(InHand(c)) \in Nat /\ Cardinality(InPipe(c)) \in Nat
  BY FS_Subset, FS_CardinalityType DEF InHand, InPipe
<1>4. /\ fwd[c] # "none"
      /\ UNCHANGED <<session, shell, run, child, kin, held, pipe, wrote, reader, client, authorised>>
  BY <1>1 DEF FwdStep, FwdRecv, FwdRecvNone, FwdData, FwdDataFails, FwdWait, FwdReport, FwdClose
<1>5. run[c].kind \in {"shell", "exec"}
  BY <1>4 DEF ChannelInv, RunInv, Idle, TypeInv, Runs, Kinds
<1>6. fwd'[c] # "none" => RunInv(c)'
  BY <1>4, <1>5 DEF ChannelInv, RunInv, StreamsOf
<1>7. InPipe(c)' = InPipe(c) /\ InHand(c)' = InHand(c)
  BY <1>4 DEF InPipe, InHand
<1>8. fwd[c] # "done" =>
        /\ wrote[c] = Cardinality(InPipe(c)) + Cardinality(InHand(c)) + mpsc[c] + bytesOut[c]
        /\ \A s \in Streams : reader[c][s] = "done" => s \notin held[c] /\ pipe[c][s] = 0
  BY DEF ChannelInv, FlowInv
<1>9. UNCHANGED <<mpsc, bytesOut>> /\ fwd[c] # "done" => FlowInv(c)'
  BY <1>4, <1>7, <1>8 DEF FlowInv
\* A forwarder still at work: its end was not told, nothing was reported.
<1>10. fwd[c] \in {"recv", "data", "wait", "report"} =>
          /\ \A i \in DOMAIN reported : reported[i].channel = c => reported[i].what # "exit"
          /\ ~CutOff(c) => ~client[c].told /\ ExitMessage(c) \notin outbox
  BY DEF ChannelInv, ReportInv, ToldInv
<1>11. CutOff(c)' = CutOff(c)
  BY <1>4 DEF CutOff
<1>12. outbox' = outbox /\ fwd[c] \in {"recv", "data", "wait", "report"} => ToldInv(c)'
  BY <1>4, <1>10, <1>11 DEF ToldInv
<1>13. reported' = reported /\ fwd[c] \in {"recv", "data", "wait", "report"} => ReportInv(c)'
  BY <1>4, <1>5, <1>10 DEF ReportInv, ChannelInv
<1>14. session # "gone" => bytesOut[c] = client[c].chunks + (IF fwd[c] = "data" THEN 1 ELSE 0)
                                            + (IF DataMessage(c) \in outbox THEN 1 ELSE 0)
  BY DEF ChannelInv, EndInv
<1>15. CASE FwdRecv(c)
  <2>1. /\ fwd[c] = "recv" /\ fwd'[c] = "data" /\ mpsc'[c] = mpsc[c] - 1 /\ bytesOut'[c] = bytesOut[c] + 1
        /\ outbox' = outbox /\ reported' = reported
    BY <1>1, <1>15 DEF FwdRecv, TypeInv
  <2>2. FlowInv(c)'
    BY <1>2, <1>3, <1>4, <1>7, <1>8, <2>1 DEF FlowInv
  <2>3. EndInv(c)'
    BY <1>2, <1>4, <1>14, <2>1 DEF EndInv
  <2> QED BY <1>6, <1>12, <1>13, <2>1, <2>2, <2>3 DEF ChannelInv
<1>16. ASSUME fwd'[c] = AfterLoop(c), UNCHANGED <<outbox, reported, mpsc, bytesOut>>, fwd[c] \in {"recv", "data"},
              session # "gone" => fwd[c] = "recv" /\ held[c] = {} /\ wrote[c] = bytesOut[c]
       PROVE  ChannelInv(c)'
  <2>1. fwd'[c] = IF run[c].kind = "exec" THEN "wait" ELSE "close"
    BY <1>16 DEF AfterLoop
  <2>2. EndInv(c)'
    BY <1>4, <1>14, <1>16, <2>1 DEF EndInv
  <2> QED BY <1>6, <1>9, <1>12, <1>13, <1>16, <2>1, <2>2 DEF ChannelInv
<1>17. CASE FwdRecvNone(c)
  <2>1. /\ fwd[c] = "recv" /\ fwd'[c] = AfterLoop(c) /\ UNCHANGED <<outbox, reported, mpsc, bytesOut>>
        /\ OutputEnded(c)
    BY <1>1, <1>17 DEF FwdRecvNone
  <2> QED BY <1>16, <2>1, AllCounted
<1>18. CASE FwdDataFails(c)
  <2>1. /\ fwd[c] = "data" /\ fwd'[c] = AfterLoop(c) /\ UNCHANGED <<outbox, reported, mpsc, bytesOut>>
        /\ session = "gone"
    BY <1>1, <1>18 DEF FwdDataFails
  <2> QED BY <1>16, <2>1
<1>19. CASE FwdData(c)
  <2>1. /\ fwd[c] = "data" /\ fwd'[c] = "recv" /\ UNCHANGED <<mpsc, bytesOut, reported>>
        /\ outbox = {} /\ outbox' = {DataMessage(c)} /\ session # "gone"
    BY <1>1, <1>19 DEF FwdData, Hand, DataMessage
  <2>2. EndInv(c)'
    BY <1>2, <1>4, <1>14, <2>1 DEF EndInv
  <2>3. ToldInv(c)'
    BY <1>4, <1>10, <1>11, <2>1 DEF ToldInv, DataMessage, ExitMessage
  <2> QED BY <1>6, <1>9, <1>13, <2>1, <2>2, <2>3 DEF ChannelInv
<1>20. CASE FwdWait(c)
  <2>1. /\ fwd[c] = "wait" /\ fwd'[c] \in {"close", "report"} /\ UNCHANGED <<outbox, mpsc, bytesOut, reported>>
        /\ child[c] = "exited"
    BY <1>1, <1>20 DEF FwdWait
  <2>2. run[c].kind = "exec" /\ (session # "gone" => held[c] = {} /\ wrote[c] = bytesOut[c])
    BY <2>1 DEF ChannelInv, EndInv
  <2>3. EndInv(c)'
    BY <1>4, <1>14, <2>1, <2>2 DEF EndInv
  <2> QED BY <1>6, <1>9, <1>12, <1>13, <2>1, <2>3 DEF ChannelInv
<1>21. CASE FwdReport(c)
  <2>1. /\ fwd[c] = "report" /\ fwd'[c] = "close" /\ UNCHANGED <<outbox, mpsc, bytesOut>>
        /\ reported' = Append(reported, OutcomeOf(c))
    BY <1>1, <1>21 DEF FwdReport
  <2>2. run[c].kind = "exec" /\ child[c] = "exited" /\ (session # "gone" => held[c] = {} /\ wrote[c] = bytesOut[c])
    BY <2>1 DEF ChannelInv, EndInv
  <2>3. EndInv(c)'
    BY <1>4, <1>14, <2>1, <2>2 DEF EndInv
  <2>4. \A i \in DOMAIN reported : reported[i].channel # c
    BY <1>10, <2>1, <2>2, WhatIsReported DEF ChannelInv, ReportInv
  <2>5. ReportInv(c)'
    <3>1. /\ reported \in Seq(Reports) /\ OutcomeOf(c) \in Reports
      BY DEF TypeInv, OutcomeOf, Reports, Runs
    <3>2. /\ OutcomeOf(c).what = "exit" /\ OutcomeOf(c).grant = run[c].grant
          /\ OutcomeOf(c).bytes = bytesOut[c]
      BY DEF OutcomeOf
    <3>3. \A i \in DOMAIN reported' : reported'[i].channel = c =>
              i = Len(reported) + 1 /\ reported'[i] = OutcomeOf(c)
      BY <2>1, <2>4, <3>1
    <3> QED BY <1>4, <2>1, <2>2, <3>2, <3>3 DEF ReportInv
  <2> QED BY <1>6, <1>9, <1>12, <2>1, <2>3, <2>5 DEF ChannelInv
<1>22. CASE FwdClose(c)
  <2>1. /\ fwd[c] = "close" /\ fwd'[c] = "done" /\ UNCHANGED <<bytesOut, reported>>
        /\ \/ outbox = {} /\ outbox' = {ExitMessage(c)} /\ session # "gone"
           \/ outbox' = outbox /\ session = "gone"
    BY <1>1, <1>22 DEF FwdClose, Hand, ExitMessage
  <2>2. FlowInv(c)'
    BY <2>1 DEF FlowInv
  <2>3. DataMessage(c) # ExitMessage(c)
    BY DEF DataMessage, ExitMessage
  <2>4. EndInv(c)'
    BY <1>4, <1>14, <2>1, <2>3 DEF EndInv, ChannelInv
  <2>5. ToldInv(c)'
    BY <1>4, <1>11, <2>1 DEF ToldInv, ChannelInv
  <2>6. ReportInv(c)'
    BY <1>4, <2>1 DEF ReportInv, ChannelInv
  <2> QED BY <1>6, <2>1, <2>2, <2>4, <2>5, <2>6 DEF ChannelInv
<1> QED BY <1>15, <1>17, <1>18, <1>19, <1>20, <1>21, <1>22 DEF FwdStep

\* The process of a channel is killed, or it is not.
LEMMA KilledStays ==
    ASSUME TypeInv, NEW c \in Channels, ChannelInv(c), run[c].kind \in {"shell", "exec"}, Killed(c)
    PROVE  /\ child'[c] # "none" /\ (child[c] = "exited" => child'[c] = "exited")
           /\ held'[c] \subseteq held[c] /\ \A s \in Streams : child'[c] = s => s \in held'[c]
           /\ \A d \in Channels \ {c} : UNCHANGED <<child[d], held[d]>>
<1>1. CASE Gone(c)
  <2>1. child'[c] = "exited" /\ held'[c] \subseteq held[c]
    BY <1>1 DEF Gone, TypeInv
  <2> QED BY <1>1, <2>1 DEF Gone
<1>2. CASE UNCHANGED <<child, held>>
  BY <1>2 DEF ChannelInv, RunInv
<1> QED BY <1>1, <1>2 DEF Killed

LEMMA OwnTimerStep ==
    ASSUME TypeInv, OutboxInv, NEW c \in Channels, ChannelInv(c), TimerKills(c) \/ TimerCloses(c)
    PROVE  ChannelInv(c)'
<1>1. CASE TimerKills(c)
  <2>1. /\ run[c].timer = "armed" /\ run'[c].kind = run[c].kind /\ run'[c].grant = run[c].grant
        /\ run'[c].timer = IF run[c].kind = "shell" THEN "closing" ELSE "fired"
    BY <1>1 DEF TimerKills, TypeInv, Runs
  <2>2. run[c].kind \in {"shell", "exec"}
    BY <2>1 DEF ChannelInv, RunInv, Idle, TypeInv, Runs, Kinds
  <2>3. UNCHANGED <<session, shell, outbox, pipe, wrote, reader, mpsc, fwd, bytesOut, client, reported,
                    authorised>>
    BY <1>1 DEF TimerKills, sessionVars, taskVars
  <2>4. /\ child'[c] # "none" /\ (child[c] = "exited" => child'[c] = "exited")
        /\ held'[c] \subseteq held[c] /\ \A s \in Streams : child'[c] = s => s \in held'[c]
    <3>1. Killed(c)
      BY <1>1 DEF TimerKills
    <3> QED BY <2>2, <3>1, KilledStays
  <2> QED BY <2>1, <2>2, <2>3, <2>4, ProgramKeeps
<1>2. CASE TimerCloses(c)
  <2>1. /\ run[c].timer = "closing" /\ run'[c].kind = run[c].kind /\ run'[c].grant = run[c].grant
        /\ run'[c].timer = "fired" /\ run[c].kind = "shell"
    BY <1>2 DEF TimerCloses, TypeInv, Runs, ChannelInv, RunInv
  <2>2. UNCHANGED <<session, shell, child, kin, held, pipe, wrote, reader, mpsc, fwd, bytesOut, client, reported,
                    authorised>>
    BY <1>2 DEF TimerCloses, sessionVars, procVars, taskVars
  <2>3. \/ outbox = {} /\ outbox' = {ExitMessage(c)} /\ session # "gone"
        \/ outbox' = outbox /\ session = "gone"
    BY <1>2 DEF TimerCloses, Hand, ExitMessage
  <2>4. DataMessage(c) # ExitMessage(c)
    BY DEF DataMessage, ExitMessage
  <2>5. RunInv(c)'
    BY <2>1, <2>2 DEF ChannelInv, RunInv, StreamsOf
  <2>6. FlowInv(c)'
    BY <2>2 DEF ChannelInv, FlowInv, InPipe, InHand
  <2>7. EndInv(c)'
    BY <2>1, <2>2, <2>3, <2>4 DEF ChannelInv, EndInv
  <2>8. ToldInv(c)'
    BY <2>1 DEF ToldInv, CutOff
  <2>9. ReportInv(c)'
    BY <2>1, <2>2 DEF ChannelInv, ReportInv
  <2> QED BY <2>5, <2>6, <2>7, <2>8, <2>9 DEF ChannelInv
<1> QED BY <1>1, <1>2

-----------------------------------------------------------------------------
(* The session, and the invariant. *)

LEMMA DeliverKeeps ==
    ASSUME SshInv, Deliver, NEW d \in Channels
    PROVE  ChannelInv(d)'
<1>1. TypeInv /\ OutboxInv /\ ChannelInv(d)
  BY DEF SshInv
<1>2. PICK m \in outbox :
         \/ m.what = "data" /\ client' = [client EXCEPT ![m.channel].chunks = @ + 1]
         \/ m.what = "exit" /\ client' = [client EXCEPT ![m.channel].told = TRUE]
  BY DEF Deliver
<1>3. /\ m \in Messages /\ outbox = {m} /\ outbox' = {} /\ session = "select"
      /\ UNCHANGED <<session, shell, run, child, kin, held, pipe, wrote, reader, mpsc, fwd, bytesOut,
                     reported, authorised>>
  BY <1>1, <1>2 DEF Deliver, Waiting, OutboxInv, TypeInv, sessionVars, procVars, taskVars
<1>4. CASE m.channel # d
  <2>1. client'[d] = client[d]
    BY <1>1, <1>2, <1>4 DEF TypeInv
  <2>2. DataMessage(d) \notin outbox
    BY <1>3, <1>4 DEF DataMessage
  <2>3. Apart(d)
    BY <1>3, <2>1, <2>2 DEF Apart
  <2> QED BY <1>1, <2>3, ApartKeeps
<1>5. CASE m.channel = d
  <2>1. ~Idle(d)
    <3>1. m = DataMessage(d) \/ m = ExitMessage(d)
      BY <1>3, <1>5 DEF Messages, DataMessage, ExitMessage
    <3> QED BY <1>2, <3>1 DEF Idle
  <2>2. RunInv(d)'
    BY <1>1, <1>3, <2>1 DEF ChannelInv, RunInv, StreamsOf
  <2>3. FlowInv(d)' /\ ReportInv(d)'
    BY <1>1, <1>3 DEF ChannelInv, FlowInv, ReportInv, InPipe, InHand
  <2>4. CutOff(d)' = CutOff(d)
    BY <1>3 DEF CutOff
  <2>5. client[d].chunks \in Nat /\ bytesOut[d] \in Nat /\ wrote[d] \in Nat
    BY <1>1 DEF TypeInv, Told
  <2>6. bytesOut[d] = client[d].chunks + (IF fwd[d] = "data" THEN 1 ELSE 0)
                            + (IF DataMessage(d) \in outbox THEN 1 ELSE 0)
    BY <1>1, <1>3 DEF ChannelInv, EndInv
  <2>7. CASE m.what = "data"
    <3>1. client'[d].chunks = client[d].chunks + 1 /\ client'[d].told = client[d].told
      <4>1. client \in [Channels -> Told] /\ client[d] \in Told
        BY <1>1 DEF TypeInv
      <4>2. client' = [client EXCEPT ![d] = [client[d] EXCEPT !.chunks = client[d].chunks + 1]]
        BY <1>2, <1>5, <2>7
      <4>3. client'[d] = [client[d] EXCEPT !.chunks = client[d].chunks + 1]
        BY <4>1, <4>2
      <4> QED BY <4>1, <4>3 DEF Told
    <3>2. m = DataMessage(d) /\ DataMessage(d) \in outbox /\ DataMessage(d) \notin outbox'
      BY <1>3, <1>5, <2>7 DEF Messages, DataMessage
    <3>3. EndInv(d)'
      BY <1>1, <1>3, <2>5, <2>6, <3>1, <3>2 DEF ChannelInv, EndInv
    <3>4. ~CutOff(d) => ~client[d].told
      <4>1. ASSUME ~CutOff(d), client[d].told PROVE FALSE
        <5>1. fwd[d] = "done" /\ client[d].chunks = wrote[d]
          BY <1>1, <4>1 DEF ChannelInv, ToldInv
        <5>2. wrote[d] = bytesOut[d]
          BY <1>1, <1>3, <5>1 DEF ChannelInv, EndInv
        <5> QED BY <2>5, <2>6, <3>2, <5>1, <5>2
      <4> QED BY <4>1
    <3>5. ToldInv(d)'
      BY <1>3, <2>4, <3>1, <3>4 DEF ToldInv
    <3> QED BY <2>2, <2>3, <3>3, <3>5 DEF ChannelInv
  <2>8. CASE m.what = "exit"
    <3>1. client'[d].chunks = client[d].chunks
      BY <1>1, <1>2, <1>5, <2>8 DEF TypeInv, Told
    <3>2. m = ExitMessage(d) /\ ExitMessage(d) \in outbox
      BY <1>3, <1>5, <2>8 DEF Messages, ExitMessage
    <3>3. DataMessage(d) \notin outbox
      BY <1>3, <3>2 DEF DataMessage, ExitMessage
    <3>4. EndInv(d)'
      BY <1>1, <1>3, <2>6, <3>1, <3>3 DEF ChannelInv, EndInv
    <3>5. ~CutOff(d) => fwd[d] = "done" /\ held[d] = {} /\ client[d].chunks = wrote[d]
      <4>1. ~CutOff(d) => fwd[d] = "done"
        BY <1>1, <3>2 DEF ChannelInv, ToldInv
      <4>2. fwd[d] = "done" => held[d] = {} /\ wrote[d] = bytesOut[d]
        BY <1>1, <1>3 DEF ChannelInv, EndInv
      <4> QED BY <2>5, <2>6, <3>3, <4>1, <4>2
    <3>6. ToldInv(d)'
      BY <1>3, <2>4, <3>1, <3>5 DEF ToldInv
    <3> QED BY <2>2, <2>3, <3>4, <3>6 DEF ChannelInv
  <2> QED BY <1>2, <2>7, <2>8
<1> QED BY <1>4, <1>5

LEMMA SessionEndsKeeps ==
    ASSUME SshInv, SessionEnds, NEW d \in Channels
    PROVE  ChannelInv(d)'
<1>1. TypeInv /\ ChannelInv(d)
  BY DEF SshInv
<1>2. /\ session' = "gone" /\ outbox' = {} /\ shell' = None
      /\ UNCHANGED <<run, kin, pipe, wrote, reader, mpsc, fwd, bytesOut, client, reported, authorised>>
  BY DEF SessionEnds, taskVars
<1>3. IF shell = None THEN UNCHANGED <<child, held>> ELSE Killed(shell)
  BY DEF SessionEnds
<1>4. \A c \in Channels : c = shell => run[c].kind \in {"shell", "exec"} /\ ChannelInv(c)
  BY DEF SshInv, ChannelInv, RunInv, Idle, TypeInv, Runs, Kinds
<1>5. CASE d = shell
  <2>1. Killed(d) /\ run[d].kind \in {"shell", "exec"}
    BY <1>3, <1>4, <1>5
  <2>2. /\ child'[d] # "none" /\ (child[d] = "exited" => child'[d] = "exited")
        /\ held'[d] \subseteq held[d] /\ \A s \in Streams : child'[d] = s => s \in held'[d]
    BY <1>1, <2>1, KilledStays
  <2>3. run'[d].timer = "closing" => run[d].kind = "shell"
    BY <1>1, <1>2 DEF ChannelInv, RunInv
  <2> QED BY <1>1, <1>2, <2>1, <2>2, <2>3, ProgramKeeps
<1>6. CASE d # shell
  <2>1. UNCHANGED <<child[d], held[d]>>
    BY <1>1, <1>3, <1>4, <1>6, KilledStays DEF TypeInv
  <2>2. Apart(d)
    BY <1>2, <1>6, <2>1 DEF Apart
  <2> QED BY <1>1, <2>2, ApartKeeps
<1> QED BY <1>5, <1>6

LEMMA OutboxStep == TypeInv /\ OutboxInv /\ GrantInv /\ [Next]_vars => OutboxInv' /\ GrantInv'
<1> SUFFICES ASSUME TypeInv, OutboxInv, GrantInv, [Next]_vars PROVE OutboxInv' /\ GrantInv'
  OBVIOUS
<1>1. ASSUME NEW c \in Channels, Request(c) PROVE OutboxInv' /\ GrantInv'
  <2>1. UNCHANGED <<session, outbox, pending>> /\ (active' = active \/ active' = pending)
    BY <1>1 DEF Request, SessionGrantRefused, SpawnFails, CmdGrantRefused, ExecUnderGrant, ExecPlain,
                ShellRequest, sessionVars
  <2> QED BY <2>1 DEF OutboxInv, GrantInv
<1>2. ASSUME NEW c \in Channels, ChannelStep(c) PROVE OutboxInv' /\ GrantInv'
  <2>1. \A what : Hand(c, what) => session # "gone" /\ \E m : outbox' = {m}
    BY DEF Hand
  <2>2. /\ UNCHANGED <<session, pending, active>>
        /\ outbox' = outbox \/ (session # "gone" /\ \E m : outbox' = {m})
    <3>1. CASE ChildStep(c)
      BY <3>1 DEF ChildStep, ChildCalls, ChildReads, ChildWrites, Fills, ChildCutOff, sessionVars
    <3>5. CASE KinStep(c)
      BY <3>5 DEF KinStep, ChildForks, StreamCloses, KinWrites, Fills, KinReads, KinEnds, sessionVars
    <3>2. ASSUME NEW s \in Streams, ReaderStep(c, s) PROVE UNCHANGED <<session, pending, active, outbox>>
      BY <3>2 DEF ReaderStep, ReaderReads, ReaderEof, ReaderSends, ReaderSendFails, Thread, sessionVars
    <3>3. CASE FwdStep(c)
      BY <2>1, <3>3 DEF FwdStep, FwdRecv, FwdRecvNone, FwdData, FwdDataFails, FwdWait, FwdReport,
                        FwdClose, Task, sessionVars
    <3>4. CASE TimerKills(c) \/ TimerCloses(c)
      BY <2>1, <3>4 DEF TimerKills, TimerCloses, sessionVars
    <3> QED BY <1>2, <3>1, <3>2, <3>3, <3>4, <3>5 DEF ChannelStep
  <2> QED BY <2>2 DEF OutboxInv, GrantInv
<1>3. CASE EnvRequest \/ Data \/ StdinWritten \/ ChannelEof \/ UNCHANGED vars
  <2>1. /\ outbox' = outbox /\ active' = active /\ (pending' = pending \/ pending' # None)
        /\ session' = "gone" => session = "gone"
    BY <1>3 DEF EnvRequest, Data, StdinWritten, ChannelEof, vars, sessionVars, Waiting
  <2> QED BY <2>1 DEF OutboxInv, GrantInv
<1>4. CASE Deliver \/ SessionEnds
  <2>1. outbox' = {} /\ active' = active /\ pending' = pending
    BY <1>4 DEF Deliver, SessionEnds, sessionVars
  <2> QED BY <2>1 DEF OutboxInv, GrantInv
<1> QED BY <1>1, <1>2, <1>3, <1>4 DEF Next

LEMMA SshStep == SshInv /\ [Next]_vars => SshInv'
<1> SUFFICES ASSUME SshInv, [Next]_vars PROVE SshInv'
  OBVIOUS
<1>1. TypeInv /\ OutboxInv /\ GrantInv /\ \A c \in Channels : ChannelInv(c)
  BY DEF SshInv
<1>2. TypeInv' /\ OutboxInv' /\ GrantInv'
  BY <1>1, TypeStep, OutboxStep
<1>3. ASSUME NEW d \in Channels PROVE ChannelInv(d)'
  <2>1. ASSUME NEW c \in Channels, Request(c) PROVE ChannelInv(d)'
    <3>1. CASE c = d
      BY <2>1, <3>1, OwnRequest
    <3>2. CASE c # d
      BY <1>1, <2>1, <3>2, OthersAtRequest, ApartKeeps
    <3> QED BY <3>1, <3>2
  <2>2. ASSUME NEW c \in Channels, ChannelStep(c) PROVE ChannelInv(d)'
    <3>1. CASE c = d
      BY <1>1, <2>2, <3>1, OwnProgramStep, OwnReaderStep, OwnFwdStep, OwnTimerStep DEF ChannelStep
    <3>2. CASE c # d
      BY <1>1, <2>2, <3>2, OthersAtStep, ApartKeeps
    <3> QED BY <3>1, <3>2
  <2>3. CASE EnvRequest \/ Data \/ StdinWritten \/ ChannelEof \/ UNCHANGED vars
    <3>1. /\ UNCHANGED <<shell, outbox, run, child, kin, held, pipe, wrote, reader, mpsc, fwd, bytesOut,
                         client, reported, authorised>>
          /\ session' # "gone" => session # "gone"
      BY <2>3 DEF EnvRequest, Data, StdinWritten, ChannelEof, vars, sessionVars, procVars, taskVars,
                  Waiting
    <3>2. Apart(d)
      BY <3>1 DEF Apart
    <3> QED BY <1>1, <3>2, ApartKeeps
  <2> QED BY <2>1, <2>2, <2>3, DeliverKeeps, SessionEndsKeeps DEF Next
<1> QED BY <1>2, <1>3 DEF SshInv

\* The client learns that its run ended after all that the process and its descendants ever write
\* to the streams, and that of a command only when its process has ended (the forwarder of
\* spawn_exec and shell_request); but for a shell cut off at its deadline.
THEOREM TheEndIsToldLast == Spec => []ExitAfterOutput
<1>1. Spec => []SshInv
  BY SshInit, SshStep, PTL DEF Spec
<1>2. SshInv => ExitAfterOutput
  BY DEF SshInv, ChannelInv, ToldInv, EndInv, CutOff, ExitAfterOutput
<1> QED BY <1>1, <1>2, PTL

\* What the ledger is told of an execution is true, and told once, whatever else the connection
\* was asked to run.
THEOREM LedgerIsToldTheTruth == Spec => []ReportsAreTrue
<1>1. Spec => []SshInv
  BY SshInit, SshStep, PTL DEF Spec
<1>2. SshInv => ReportsAreTrue
  <2> SUFFICES ASSUME SshInv, NEW i \in DOMAIN reported, reported[i].what = "exit"
               PROVE  LET r == reported[i] IN
                        /\ r.grant = authorised[r.channel]
                        /\ child[r.channel] = "exited"
                        /\ session # "gone" => r.bytes = wrote[r.channel]
                        /\ \A j \in DOMAIN reported : reported[j].channel = r.channel => i = j
    BY DEF ReportsAreTrue
  <2> DEFINE c == reported[i].channel
  <2>1. c \in Channels
    <3>1. reported[i] \in Reports
      BY DEF SshInv, TypeInv
    <3> QED BY <3>1 DEF Reports
  <2> HIDE DEF c
  <2>2. ReportInv(c) /\ RunInv(c) /\ EndInv(c)
    BY <2>1 DEF SshInv, ChannelInv
  <2>3. /\ reported[i].grant = run[c].grant /\ fwd[c] \in {"close", "done"} /\ child[c] = "exited"
        /\ session # "gone" => reported[i].bytes = bytesOut[c]
        /\ \A j \in DOMAIN reported : reported[j].channel = c => i = j
    BY <2>2 DEF ReportInv, c
  <2>4. run[c].grant = authorised[c] /\ (session # "gone" => wrote[c] = bytesOut[c])
    BY <2>2, <2>3 DEF RunInv, EndInv
  <2> QED BY <2>3, <2>4 DEF c
<1> QED BY <1>1, <1>2, PTL
=============================================================================
