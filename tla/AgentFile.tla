------------------------------ MODULE AgentFile ------------------------------
(***************************************************************************)
(* agent.json, the daemon's only durable state, and the node service token *)
(* it carries (agent-daemon/src/up.rs).                                    *)
(*                                                                         *)
(* Two background tasks of a multi-threaded runtime rewrite the file by    *)
(* read, modify, truncate, write: the token renewal and the CRL refresh.   *)
(* The renewal presents the current token and gets a new one; the control  *)
(* plane invalidates the old one at once.  The daemon may die between any  *)
(* two steps, and the file may refuse to be read, opened or written; a     *)
(* start reads the file, or enrols when it cannot.                         *)
(***************************************************************************)
EXTENDS Integers, FiniteSets

CONSTANTS
    MaxTokens,     \* bound: tokens the control plane issues
    MaxCrls,       \* bound: CRLs the control plane publishes
    MaxFaults,     \* bound: crashes and failed reads and writes of the file
    Enrolments     \* how often the credential given to the daemon enrols it

ASSUME ConstantsAssumption ==
    /\ MaxTokens \in Nat \ {0} /\ MaxCrls \in Nat
    /\ MaxFaults \in Nat /\ Enrolments \in Nat

VARIABLES
    daemon,     \* "down", "enrolling" or "up"
    file,       \* agent.json
    pc, buf,    \* per writer: where it is, the state it is about to write
    cell,       \* token_cell, the token in memory
    fresh,      \* the token or CRL a writer is to store
    valid,      \* control plane: the token it accepts
    nodeKey,    \* control plane: the public key of the node
    latestCrl,  \* control plane: the CRL it serves
    wire,       \* tokens presented by renewal requests under way
    reply,      \* the token on its way back to the awaited renewal
    keys,       \* keypairs generated so far
    credit,     \* enrolments left
    faults,
    stored,     \* history: token and CRL last written without error
    causes      \* history: what went wrong so far

vars == <<daemon, file, pc, buf, cell, fresh, valid, nodeKey, latestCrl,
          wire, reply, keys, credit, faults, stored, causes>>

Tasks   == {"renewal", "crl"}
Writers == Tasks \cup {"enrol"}
NoToken == 0
Tokens  == 0..MaxTokens
Crls    == 0..MaxCrls
Keys    == 0..(1 + Enrolments)

States == [key : Keys, token : Tokens, crl : Crls]
Blank  == [key |-> 0, token |-> NoToken, crl |-> 0]

\* "ok" parses; "empty" is created or truncated, "torn" is neither.
Files  == [status : {"absent", "ok", "empty", "torn"}, state : States]
File(status, state) == [status |-> status, state |-> state]

Causes == {"reply lost", "overlap", "crash in write", "crash in renewal",
           "failed write", "renewal not stored"}

TypeOK ==
    /\ daemon \in {"down", "enrolling", "up"}
    /\ file \in Files
    /\ pc \in [Writers -> {"sleep", "posted", "publish", "load", "open", "write"}]
    /\ buf \in [Writers -> States]
    /\ cell \in Tokens /\ valid \in Tokens
    /\ fresh \in [Tasks -> Nat]
    /\ fresh["renewal"] \in Tokens /\ fresh["crl"] \in Crls
    /\ nodeKey \in Keys /\ keys \in Keys
    /\ latestCrl \in Crls
    /\ wire \subseteq Tokens /\ reply \in Tokens
    /\ credit \in 0..Enrolments /\ faults \in 0..MaxFaults
    /\ stored \in [token : Tokens, crl : Crls]
    /\ causes \subseteq Causes

\* A new machine, an enrolled one, and one enrolled before service tokens
\* existed (migration 015).
Init ==
    /\ daemon = "down"
    /\ \E enrolled \in {TRUE, FALSE}, token \in {NoToken, 1} :
        /\ ~enrolled => token = NoToken
        /\ file = IF enrolled THEN File("ok", [key |-> 1, token |-> token, crl |-> 0])
                  ELSE File("absent", Blank)
        /\ keys = (IF enrolled THEN 1 ELSE 0) /\ nodeKey = keys
        /\ valid = token /\ stored = [token |-> token, crl |-> 0]
    /\ pc = [w \in Writers |-> "sleep"] /\ buf = [w \in Writers |-> Blank]
    /\ cell = NoToken /\ fresh = [t \in Tasks |-> 0]
    /\ latestCrl = 0 /\ wire = {} /\ reply = NoToken
    /\ credit = Enrolments /\ faults = 0 /\ causes = {}

At(w, here)     == pc[w] = here
Goto(w, there)  == pc' = [pc EXCEPT ![w] = there]
Blame(cond, c)  == causes' = IF cond THEN causes \cup {c} ELSE causes

\* A writer has read the file and not yet finished writing it back.
Writing(w) == pc[w] \in {"open", "write"}

-----------------------------------------------------------------------------
(* load_or_enroll. *)

\* The file parses and has a token: it is reused.
StartFromFile ==
    /\ daemon = "down" /\ file.status = "ok" /\ file.state.token # NoToken
    /\ daemon' = "up" /\ cell' = file.state.token
    /\ UNCHANGED <<file, pc, buf, fresh, valid, nodeKey, latestCrl, wire, reply,
                   keys, credit, faults, stored, causes>>

\* Mistaken variant: every enrolment makes a keypair.
StartEnrollingFreshKey ==
    /\ daemon = "down" /\ credit > 0 /\ valid < MaxTokens
    /\ file.status = "ok" => file.state.token = NoToken
    /\ nodeKey' = keys + 1 /\ keys' = keys + 1
    /\ credit' = credit - 1 /\ valid' = valid + 1
    /\ daemon' = "enrolling"
    /\ buf' = [buf EXCEPT !["enrol"] = [key |-> nodeKey', token |-> valid', crl |-> 0]]
    /\ Goto("enrol", "open")
    /\ UNCHANGED <<file, cell, fresh, latestCrl, wire, reply, faults, stored, causes>>

\* No usable file, or one without a token: enrol.  The keypair of a file that
\* parses is kept; the control plane binds the device to the key it is shown
\* and issues a new token.
StartEnrolling ==
    /\ daemon = "down" /\ credit > 0 /\ valid < MaxTokens
    /\ file.status = "ok" => file.state.token = NoToken
    /\ nodeKey' = IF file.status = "ok" THEN file.state.key ELSE keys + 1
    /\ keys' = IF file.status = "ok" THEN keys ELSE keys + 1
    /\ credit' = credit - 1 /\ valid' = valid + 1
    /\ daemon' = "enrolling"
    /\ buf' = [buf EXCEPT !["enrol"] = [key |-> nodeKey', token |-> valid', crl |-> 0]]
    /\ Goto("enrol", "open")
    /\ UNCHANGED <<file, cell, fresh, latestCrl, wire, reply, faults, stored, causes>>

\* No token, and no credential or an enrolment that fails: the daemon gives up
\* and is started again.
StartFails ==
    /\ daemon = "down"
    /\ file.status = "ok" => file.state.token = NoToken
    /\ UNCHANGED vars

-----------------------------------------------------------------------------
(* persist_state: open with truncation, then write. *)

Truncate(w) ==
    /\ At(w, "open") /\ Goto(w, "write")
    /\ file' = File("empty", Blank)
    /\ Blame(\E v \in Writers \ {w} : Writing(v), "overlap")
    /\ UNCHANGED <<daemon, buf, cell, fresh, valid, nodeKey, latestCrl, wire, reply,
                   keys, credit, faults, stored>>

\* The write starts at offset 0.  Over what another writer wrote since the
\* truncation it leaves a tail of that, unless the new text is as long.
Written(w) ==
    {File("ok", buf[w])} \cup (IF file.status = "empty" THEN {} ELSE {File("torn", Blank)})

Store(w) ==
    stored' = CASE w = "renewal" -> [stored EXCEPT !.token = buf[w].token]
                [] w = "crl"     -> [stored EXCEPT !.crl = buf[w].crl]
                [] w = "enrol"   -> [token |-> buf[w].token, crl |-> buf[w].crl]

Write(w) ==
    /\ At(w, "write") /\ Goto(w, "sleep")
    /\ file' \in Written(w)
    /\ Store(w)
    /\ daemon' = "up" /\ cell' = IF w = "enrol" THEN buf[w].token ELSE cell
    /\ UNCHANGED <<buf, fresh, valid, nodeKey, latestCrl, wire, reply,
                   keys, credit, faults, causes>>

-----------------------------------------------------------------------------
(* persist_service_token and the end of refresh_crl_once: read and parse,  *)
(* change one field.                                                       *)

\* Mistaken variant: the task changes a state it keeps in memory.
ChangedFromMemory(w) ==
    IF w = "renewal" THEN [buf[w] EXCEPT !.token = fresh[w]]
                     ELSE [buf[w] EXCEPT !.crl = fresh[w]]

Changed(w) ==
    IF w = "renewal" THEN [file.state EXCEPT !.token = fresh[w]]
                     ELSE [file.state EXCEPT !.crl = fresh[w]]

Load(w) ==
    /\ At(w, "load")
    /\ IF file.status = "ok"
       THEN Goto(w, "open") /\ buf' = [buf EXCEPT ![w] = Changed(w)]
       ELSE Goto(w, "sleep") /\ UNCHANGED buf
    /\ Blame(\E v \in Writers \ {w} : Writing(v), "overlap")
    /\ UNCHANGED <<daemon, file, cell, fresh, valid, nodeKey, latestCrl, wire, reply,
                   keys, credit, faults, stored>>

\* An error of the read, the open or the write, which may have left a part of
\* the text.  A task only logs it: the token stays published, the old one stays
\* in the file.  An enrolment ends the start, with a token that nobody holds.
PersistFails(w) ==
    /\ faults < MaxFaults /\ faults' = faults + 1
    /\ pc[w] \in {"load", "open", "write"} /\ Goto(w, "sleep")
    /\ file' \in IF At(w, "write") THEN {file, File("torn", Blank)} ELSE {file}
    /\ daemon' = IF w = "enrol" THEN "down" ELSE daemon
    /\ causes' = causes \cup {c \in {"failed write", "renewal not stored"} :
                    IF c = "failed write" THEN At(w, "write") ELSE w = "renewal"}
    /\ UNCHANGED <<buf, cell, fresh, valid, nodeKey, latestCrl, wire, reply,
                   keys, credit, stored>>

-----------------------------------------------------------------------------
(* spawn_token_renewal. *)

\* The tick: the current token is presented.
PostRenewal ==
    /\ daemon = "up" /\ At("renewal", "sleep")
    /\ wire' = wire \cup {cell} /\ reply' = NoToken
    /\ Goto("renewal", "posted")
    /\ UNCHANGED <<daemon, file, buf, cell, fresh, valid, nodeKey, latestCrl,
                   keys, credit, faults, stored, causes>>

\* Mistaken variant: the new token is persisted and not published.
AnsweredNotPublished ==
    /\ At("renewal", "posted") /\ reply # NoToken
    /\ fresh' = [fresh EXCEPT !["renewal"] = reply] /\ reply' = NoToken
    /\ Goto("renewal", "load")
    /\ UNCHANGED <<daemon, file, buf, cell, valid, nodeKey, latestCrl, wire,
                   keys, credit, faults, stored, causes>>

\* The new token is there.
RenewalAnswered ==
    /\ At("renewal", "posted") /\ reply # NoToken
    /\ fresh' = [fresh EXCEPT !["renewal"] = reply] /\ reply' = NoToken
    /\ Goto("renewal", "publish")
    /\ UNCHANGED <<daemon, file, buf, cell, valid, nodeKey, latestCrl, wire,
                   keys, credit, faults, stored, causes>>

\* Transport error, timeout or refusal: the old token is kept, the next tick
\* tries again.  A request may still be on its way, an answer may be lost.
RenewalFails ==
    /\ At("renewal", "posted") /\ Goto("renewal", "sleep")
    /\ reply' = NoToken /\ wire' \in {wire, {}}
    /\ Blame(reply # NoToken, "reply lost")
    /\ UNCHANGED <<daemon, file, buf, cell, fresh, valid, nodeKey, latestCrl,
                   keys, credit, faults, stored>>

\* Mistaken variant: the token cell keeps what it has.
PublishNothing ==
    /\ At("renewal", "publish") /\ Goto("renewal", "load")
    /\ UNCHANGED <<daemon, file, buf, cell, fresh, valid, nodeKey, latestCrl, wire, reply,
                   keys, credit, faults, stored, causes>>

\* Published for the refresh loop first, persisted next.
Publish ==
    /\ At("renewal", "publish") /\ Goto("renewal", "load")
    /\ cell' = fresh["renewal"]
    /\ UNCHANGED <<daemon, file, buf, fresh, valid, nodeKey, latestCrl, wire, reply,
                   keys, credit, faults, stored, causes>>

-----------------------------------------------------------------------------
(* refresh_crl_once: what the control plane serves now is fetched.  A      *)
(* failed fetch leaves everything as it is.                                *)

\* Mistaken variant: a CRL in the file is never fetched again.
FetchCrlOnce ==
    /\ daemon = "up" /\ At("crl", "sleep") /\ file.state.crl = 0
    /\ fresh' = [fresh EXCEPT !["crl"] = latestCrl]
    /\ Goto("crl", "load")
    /\ UNCHANGED <<daemon, file, buf, cell, valid, nodeKey, latestCrl, wire, reply,
                   keys, credit, faults, stored, causes>>

FetchCrl ==
    /\ daemon = "up" /\ At("crl", "sleep")
    /\ fresh' = [fresh EXCEPT !["crl"] = latestCrl]
    /\ Goto("crl", "load")
    /\ UNCHANGED <<daemon, file, buf, cell, valid, nodeKey, latestCrl, wire, reply,
                   keys, credit, faults, stored, causes>>

-----------------------------------------------------------------------------
(* The control plane (external) and crashes. *)

\* The presented token is the valid one: it is replaced.  Nobody hears of it
\* when the request is no longer awaited.
Rotate(token) ==
    /\ token \in wire /\ token = valid /\ valid < MaxTokens
    /\ wire' = wire \ {token} /\ valid' = valid + 1
    /\ LET awaited == At("renewal", "posted") /\ token = cell IN
        /\ reply' = IF awaited THEN valid' ELSE reply
        /\ Blame(~awaited, "reply lost")
    /\ UNCHANGED <<daemon, file, pc, buf, cell, fresh, nodeKey, latestCrl,
                   keys, credit, faults, stored>>

PublishCrl ==
    /\ latestCrl < MaxCrls /\ latestCrl' = latestCrl + 1
    /\ UNCHANGED <<daemon, file, pc, buf, cell, fresh, valid, nodeKey, wire, reply,
                   keys, credit, faults, stored, causes>>

\* Everything in memory is gone.
Crash ==
    /\ daemon # "down" /\ faults < MaxFaults /\ faults' = faults + 1
    /\ daemon' = "down" /\ cell' = NoToken /\ reply' = NoToken
    /\ pc' = [w \in Writers |-> "sleep"] /\ buf' = [w \in Writers |-> Blank]
    /\ fresh' = [t \in Tasks |-> 0]
    /\ causes' = causes
        \cup (IF \E w \in Writers : At(w, "write") THEN {"crash in write"} ELSE {})
        \cup (IF ~At("renewal", "sleep") THEN {"crash in renewal"} ELSE {})
    /\ UNCHANGED <<file, valid, nodeKey, latestCrl, wire, keys, credit, stored>>

-----------------------------------------------------------------------------
Renewal == PostRenewal \/ RenewalAnswered \/ RenewalFails \/ Publish

Next ==
    \/ StartFromFile \/ StartEnrolling \/ StartFails
    \/ Renewal
    \/ FetchCrl
    \/ \E t \in Tasks : Load(t)
    \/ \E w \in Writers : Truncate(w) \/ Write(w) \/ PersistFails(w)
    \/ \E token \in wire : Rotate(token)
    \/ PublishCrl
    \/ Crash

Spec == Init /\ [][Next]_vars

\* The daemon is started again by the service manager; a task that is not
\* waiting runs on; the CRL timer fires and its fetch succeeds again and again.
Fairness ==
    /\ WF_vars(StartFromFile) /\ WF_vars(StartEnrolling)
    /\ WF_vars(FetchCrl)
    /\ \A t \in Tasks : WF_vars(Load(t))
    /\ \A w \in Writers : WF_vars(Truncate(w)) /\ WF_vars(Write(w))

FairSpec == Spec /\ Fairness

-----------------------------------------------------------------------------
(* Properties. *)

\* Two read-modify-writes that do not overlap keep each other's field: unless a
\* crash cut a write off or a write failed, the file holds between writes the
\* token and the CRL last stored.  A failed read or open costs nothing here.
QuietFileIsWhole ==
    /\ \A w \in Writers : ~Writing(w)
    /\ causes \cap {"overlap", "crash in write", "failed write"} = {}
    /\ file.status # "absent"
    => /\ file.status = "ok"
       /\ file.state.token = stored.token /\ file.state.crl = stored.crl

\* The node's token in memory stops being the valid one only while a renewal
\* is under way, or through a lost answer, a crash within a renewal or a write,
\* two writers that overlapped, or a renewed token that could not be stored
\* (which the daemon logs): there is no other way to be locked out.
LockoutHasACause ==
    daemon = "up" /\ cell # valid =>
        \/ causes # {}
        \/ At("renewal", "posted") /\ reply = valid
        \/ At("renewal", "publish") /\ fresh["renewal"] = valid

\* Memory is never older than the file: a restart can lose a token, a running
\* daemon never goes back to an older one.
FileNeverAhead ==
    daemon = "up" /\ file.status = "ok" => file.state.token <= cell

\* A crash between the enrolment and its persistence never leaves a file whose
\* key the control plane does not know (enroll_inputs: the same key comes back).
FileKeyIsRegistered == file.status = "ok" => file.state.key = nodeKey

\* Lost CRL updates heal: while the file can be read, the CRL the control
\* plane serves last gets there and stays.
CrlArrives ==
    (<>[](daemon = "up" /\ file.status \in {"ok", "empty"}))
        => <>[](file.status = "ok" => file.state.crl = latestCrl)

-----------------------------------------------------------------------------
(* What the documentation says of the code. *)

\* up.rs, test of persist_service_token: "a renewal in the background never
\* drops the cert/CRL a concurrent path just wrote".
RenewalKeepsCrl ==
    [][At("renewal", "write") /\ pc'["renewal"] = "sleep" /\ file'.status = "ok"
        => file'.state.crl >= stored.crl]_vars
=============================================================================
