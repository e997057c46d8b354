------------------------------ MODULE AppSession ------------------------------
(***************************************************************************)
(* The desktop application (gui/src-tauri/src/lib.rs): the user's session, *)
(* the node of this device, and the daemon it starts.                      *)
(*                                                                         *)
(* Commands are async functions of one process and run concurrently; each  *)
(* awaits the control plane between the steps below.  What a command does  *)
(* between two awaits is one step.  A tenant is served by the gateway or   *)
(* by a region of its own, whose sessions the gateway does not know.       *)
(***************************************************************************)
EXTENDS Integers, FiniteSets

CONSTANTS
    MaxSessions,   \* bound: sessions the control plane issues
    MaxKeys,       \* bound: WireGuard keypairs generated
    MaxCommands,   \* bound: commands under way at a time
    MaxFaults      \* bound: expiries, revocations, restarts, failed writes

ASSUME BoundsAssumption ==
    /\ MaxSessions \in Nat \ {0} /\ MaxKeys \in Nat \ {0}
    /\ MaxCommands \in Nat \ {0} /\ MaxFaults \in Nat

VARIABLES
    session, base, node, pending,  \* AppState, in memory
    shown,        \* the AuthState the window has: signed in or not
    sessionFile,  \* <data dir>/session
    agentFile,    \* the key in agent.json, 0 when there is none
    daemon,       \* the daemon runs
    op,           \* per command: where it awaits, and what it has read before
    foreign,      \* the tenant lives in a region the gateway does not serve
    gated,        \* control plane: deleting a node takes a step-up proof
    live, minted, \* control plane: sessions it accepts, sessions issued
    nodeKey,      \* control plane: the key of this device's node, 0 for none
    trusted,      \* control plane: the device is not revoked
    keys, faults,
    signedOut,    \* history: sign_out has finished, the user did nothing to sign in since
    left,         \* history: what the last sign_out could not remove, or did not
    raced,        \* history: a command ran while sign_out did
    astray        \* history: a node was left behind, or enrolments overlapped

memory  == <<session, base, node, pending, shown>>
disk    == <<sessionFile, agentFile>>
cp      == <<live, minted, nodeKey, trusted>>
world   == <<foreign, gated, keys, faults>>
history == <<signedOut, left, raced, astray>>
vars    == <<memory, disk, daemon, op, cp, world, history>>

None     == 0
Handoff  == MaxSessions + 1    \* a signed voucher for a session of the region
Keys     == 0..MaxKeys
Commands == {"check", "connect", "join", "apply", "sign_out", "start"}

Idle == [at |-> "idle", tok |-> None, key |-> 0, base |-> "gateway"]

\* A new device, or one that was signed in and enrolled before.
Init ==
    /\ foreign \in BOOLEAN /\ gated \in BOOLEAN
    /\ \E enrolled \in BOOLEAN :
        /\ keys = (IF enrolled THEN 1 ELSE 0)
        /\ agentFile = keys /\ nodeKey = keys
        /\ minted = keys /\ sessionFile = minted /\ live = (IF enrolled THEN {1} ELSE {})
    /\ session = sessionFile /\ base = "gateway" /\ node = 0 /\ pending = None
    /\ shown = "out" /\ daemon = FALSE /\ op = [c \in Commands |-> Idle]
    /\ trusted = TRUE /\ faults = 0
    /\ signedOut = FALSE /\ left = {} /\ raced = FALSE /\ astray = FALSE

-----------------------------------------------------------------------------
(* Commands and the control plane. *)

At(c, here) == op[c].at = here
Resting     == {c \in Commands : op[c].at = "idle"}

\* The step takes command c to s; no other command moves in it.
Goes(c, s) ==
    /\ op' = [op EXCEPT ![c] = s]
    /\ Cardinality({d \in Commands : op'[d].at # "idle"}) <= MaxCommands
    /\ raced' = \/ raced
                \/ /\ op'["sign_out"].at # "idle"
                   /\ \E d \in Commands \ {"sign_out"} : op'[d].at # "idle"

Fault == faults < MaxFaults /\ faults' = faults + 1

\* Whether the control plane behind a base URL knows this tenant.
Serves(url) == url = "region" \/ ~foreign
Valid(tok, url) == Serves(url) /\ tok \in live

Mint == minted < MaxSessions /\ minted' = minted + 1 /\ live' = live \cup {minted + 1}

-----------------------------------------------------------------------------
(* apply_session_token: a pasted token, or one poll_login got. *)

\* update_region: from now on requests go to the region of the tenant.
UpdateRegion == base' = "region"

\* A session token is validated at the gateway.  The voucher of a foreign
\* tenant moves the regional base first and is redeemed there.
ApplyStart ==
    /\ "apply" \in Resting
    /\ IF foreign
       THEN /\ Goes("apply", [Idle EXCEPT !.at = "redeem", !.tok = Handoff])
            /\ UpdateRegion /\ UNCHANGED <<live, minted>>
       ELSE /\ Mint
            /\ Goes("apply", [Idle EXCEPT !.at = "validate", !.tok = minted'])
            /\ UNCHANGED base
    /\ UNCHANGED <<session, node, pending, shown, disk, daemon, nodeKey, trusted, world, signedOut, left, astray>>

Redeemed ==
    /\ At("apply", "redeem") /\ Mint
    /\ Goes("apply", [Idle EXCEPT !.at = "validate", !.tok = minted', !.base = base])
    /\ UNCHANGED <<memory, disk, daemon, nodeKey, trusted, world, signedOut, left, astray>>

\* save_session_to_disk: a write that fails is passed over, with the old file or none.
Save(tok) ==
    \/ sessionFile' = tok /\ UNCHANGED faults
    \/ Fault /\ sessionFile' \in {sessionFile, None}

\* clear_session_from_disk: so is a removal that fails.
Clear ==
    \/ sessionFile' = None /\ UNCHANGED faults
    \/ Fault /\ UNCHANGED sessionFile

\* The session works: it is stored, in memory and on disk.
SignIn(tok) == session' = tok /\ Save(tok) /\ UpdateRegion /\ shown' = "in"

Applied(c) ==
    /\ At(c, "validate") /\ Valid(op[c].tok, op[c].base)
    /\ SignIn(op[c].tok) /\ Goes(c, Idle)
    /\ signedOut' = FALSE
    /\ UNCHANGED <<node, pending, agentFile, daemon, cp, foreign, gated, keys, left, astray>>

ApplyFails(c) ==
    /\ At(c, "redeem") \/ At(c, "validate")
    /\ Goes(c, Idle)
    /\ UNCHANGED <<memory, disk, daemon, cp, world, signedOut, left, astray>>

\* handle_deep_links: the token of the last ankayma://auth link is held, signed in or
\* not.  Following one is signing in, as far as the user is concerned.
DeepLink ==
    /\ signedOut' = FALSE
    /\ IF foreign THEN pending' = Handoff /\ UNCHANGED <<live, minted>>
                  ELSE Mint /\ pending' = minted'
    /\ UNCHANGED <<session, base, node, shown, disk, daemon, op, nodeKey, trusted, world, left, raced, astray>>

-----------------------------------------------------------------------------
(* check_auth_state and try_reauth_via_device_key. *)

\* load_stored_node_identity: what agent.json names.
StoredIdentity == agentFile

\* What a re-authentication proves: the node in memory, or the file's.
Identity == IF node # 0 THEN node ELSE StoredIdentity

\* Nothing to prove is no verdict: everything is kept.
TryReauth ==
    IF Identity = 0
    THEN Goes("check", Idle) /\ shown' = "out"
    ELSE /\ Goes("check", [Idle EXCEPT !.at = "reauth", !.key = Identity, !.base = base])
         /\ UNCHANGED shown

TakePending == session' = pending /\ pending' = None

\* A held link is adopted when there is no session, validated like a stored one.
CheckStart ==
    /\ "check" \in Resting
    /\ IF session = None /\ pending # None
       THEN TakePending
       ELSE UNCHANGED <<session, pending>>
    /\ IF session' = None
       THEN TryReauth
       ELSE Goes("check", [Idle EXCEPT !.at = "validate", !.tok = session']) /\ UNCHANGED shown
    /\ UNCHANGED <<base, node, disk, daemon, cp, world, signedOut, left, astray>>

CheckValid ==
    /\ At("check", "validate") /\ Valid(op["check"].tok, "gateway")
    /\ UpdateRegion /\ shown' = "in" /\ Goes("check", Idle)
    /\ UNCHANGED <<session, node, pending, disk, daemon, cp, world, signedOut, left, astray>>

\* Refused, or no answer.
CheckInvalid ==
    /\ At("check", "validate") /\ TryReauth
    /\ UNCHANGED <<session, base, node, pending, disk, daemon, cp, world, signedOut, left, astray>>

\* session_refresh, at the control plane: the node is known, its device not revoked.
Vouches(url) == Serves(url) /\ trusted /\ nodeKey # 0

\* It issues a session, which is validated before it is adopted.
Refreshed ==
    /\ At("check", "reauth") /\ Vouches(op["check"].base) /\ Mint
    /\ Goes("check", [op["check"] EXCEPT !.at = "info", !.tok = minted'])
    /\ UNCHANGED <<memory, disk, daemon, nodeKey, trusted, world, signedOut, left, astray>>

Reauthed ==
    /\ At("check", "info") /\ Valid(op["check"].tok, op["check"].base)
    /\ SignIn(op["check"].tok) /\ Goes("check", Idle)
    /\ UNCHANGED <<node, pending, agentFile, daemon, cp, foreign, gated, keys, signedOut, left, astray>>

\* A logout.
LogOut ==
    /\ session' = None /\ Clear /\ node' = 0 /\ shown' = "out"
    /\ Goes("check", Idle)
    /\ UNCHANGED <<base, pending, agentFile, daemon, cp, foreign, gated, keys, signedOut, left, astray>>

\* Mistaken variant: no answer counts as a refusal.
RefusedByAnything == At("check", "reauth") /\ LogOut

\* A 401 or a 403, of either call: the device, or the session it was just issued.
ReauthRefused ==
    /\ \/ At("check", "reauth") /\ ~Vouches(op["check"].base)
       \/ At("check", "info") /\ ~Valid(op["check"].tok, op["check"].base)
    /\ LogOut

\* No verdict: everything is kept.
ReauthInconclusive ==
    /\ At("check", "reauth") \/ At("check", "info")
    /\ shown' = "out" /\ Goes("check", Idle)
    /\ UNCHANGED <<session, base, node, pending, disk, daemon, cp, world, signedOut, left, astray>>

-----------------------------------------------------------------------------
(* connect_inner and join_enroll_node. *)

Enrolling == {c \in {"connect", "join"} : op[c].at # "idle"}

\* The stored keypair, or a new one where there is none.
KeyToEnrol(k) ==
    \/ agentFile # 0 /\ k = agentFile /\ UNCHANGED keys
    \/ agentFile = 0 /\ keys < MaxKeys /\ k = keys + 1 /\ keys' = k

\* With the proof of the device's machine key.
ConnectStart ==
    /\ "connect" \in Resting /\ session # None /\ node = 0
    /\ \E k \in Keys :
        /\ KeyToEnrol(k)
        /\ Goes("connect", [at |-> "enroll", tok |-> session, key |-> k, base |-> base])
    /\ astray' = (astray \/ Enrolling # {})
    /\ UNCHANGED <<memory, disk, daemon, cp, foreign, gated, faults, signedOut, left>>

\* An invite needs no session and always enrols a new key.
JoinStart ==
    /\ "join" \in Resting /\ keys < MaxKeys /\ keys' = keys + 1
    /\ Goes("join", [at |-> "enroll", tok |-> None, key |-> keys', base |-> base])
    /\ astray' = (astray \/ Enrolling # {}) /\ signedOut' = FALSE
    /\ UNCHANGED <<memory, disk, daemon, cp, foreign, gated, faults, left>>

\* The control plane matches the device: its one node gets the key shown.  An
\* invite admits a revoked device again.
Enrolled(c) ==
    /\ At(c, "enroll") /\ Serves(op[c].base)
    /\ c = "connect" => op[c].tok \in live /\ trusted
    /\ nodeKey' = op[c].key /\ trusted' = TRUE
    /\ \/ Goes(c, [op[c] EXCEPT !.at = "persist"]) /\ UNCHANGED <<astray, faults>>
       \/ Goes(c, Idle) /\ Fault /\ astray' = TRUE   \* the answer is lost
    /\ UNCHANGED <<memory, disk, daemon, live, minted, foreign, gated, keys, signedOut, left>>

EnrollFails(c) ==
    /\ At(c, "enroll") /\ Goes(c, Idle)
    /\ UNCHANGED <<memory, disk, daemon, cp, world, signedOut, left, astray>>

\* write_handoff_state_to: the key and the node of the enrolment go into agent.json.
WriteState(k) == agentFile' = k

\* The file, then the node in memory.  An invite brings a session
\* along, which is applied next.
Persisted(c) ==
    /\ At(c, "persist")
    /\ WriteState(op[c].key) /\ node' = op[c].key
    /\ \/ Goes(c, Idle) /\ UNCHANGED <<live, minted>>
       \/ c = "join" /\ Mint /\ Goes(c, [Idle EXCEPT !.at = "validate", !.tok = minted'])
    /\ UNCHANGED <<session, base, pending, shown, sessionFile, daemon, nodeKey, trusted, world, signedOut, left, astray>>

\* The file cannot be written: connect takes the enrolment back, join goes on.
PersistFails(c) ==
    /\ At(c, "persist") /\ Fault
    /\ agentFile' \in {agentFile, 0}
    /\ IF c = "connect"
       THEN Goes(c, [op[c] EXCEPT !.at = "rollback"]) /\ UNCHANGED <<node, astray>>
       ELSE Goes(c, Idle) /\ node' = op[c].key /\ astray' = TRUE
    /\ UNCHANGED <<session, base, pending, shown, sessionFile, daemon, cp, foreign, gated, keys, signedOut, left>>

\* delete_node without a step-up proof: not everywhere.
Delete(tok, url) == ~gated /\ Valid(tok, url) /\ nodeKey' = 0

\* Mistaken variant: the node is left behind.
NoRollback ==
    /\ At("connect", "rollback") /\ Goes("connect", Idle)
    /\ UNCHANGED <<memory, disk, daemon, cp, world, signedOut, left, astray>>

\* It is asked for once, whatever comes of it.
Rollback ==
    /\ At("connect", "rollback") /\ Goes("connect", Idle)
    /\ \/ Delete(op["connect"].tok, op["connect"].base) /\ UNCHANGED astray
       \/ UNCHANGED nodeKey /\ astray' = TRUE
    /\ UNCHANGED <<memory, disk, daemon, live, minted, trusted, world, signedOut, left>>

\* disconnect_inner: the node is forgotten in memory only.
Disconnect ==
    /\ node # 0 /\ node' = 0
    /\ UNCHANGED <<session, base, pending, shown, disk, daemon, op, cp, world, history>>

-----------------------------------------------------------------------------
(* start_dataplane_inner, stop_dataplane_inner. *)

StartDataplane ==
    /\ "start" \in Resting /\ session # None /\ node # 0
    /\ Goes("start", [Idle EXCEPT !.at = "bring_up", !.tok = session])
    /\ UNCHANGED <<memory, disk, daemon, cp, world, signedOut, left, astray>>

\* bring_up_dataplane reads agent.json and hands it over.
BringUp ==
    /\ At("start", "bring_up") /\ Goes("start", Idle)
    /\ daemon' \in {daemon, agentFile # 0 \/ daemon}
    /\ UNCHANGED <<memory, disk, cp, world, signedOut, left, astray>>

StopDataplane ==
    /\ daemon /\ daemon' = FALSE
    /\ UNCHANGED <<memory, disk, op, cp, world, history>>

-----------------------------------------------------------------------------
(* sign_out. *)

\* The node of this run is retired first, where that can be.
SignOutStart ==
    /\ "sign_out" \in Resting /\ shown = "in"
    /\ Goes("sign_out", [at |-> IF session # None /\ node # 0 THEN "retire" ELSE "clear",
                         tok |-> session, key |-> 0, base |-> base])
    /\ signedOut' = FALSE /\ left' = {}
    /\ UNCHANGED <<memory, disk, daemon, cp, world, astray>>

Retire ==
    /\ At("sign_out", "retire") /\ Goes("sign_out", [op["sign_out"] EXCEPT !.at = "clear"])
    /\ Delete(op["sign_out"].tok, op["sign_out"].base) \/ UNCHANGED nodeKey
    /\ UNCHANGED <<memory, disk, daemon, live, minted, trusted, world, signedOut, left, astray>>

ClearSession ==
    /\ At("sign_out", "clear") /\ Goes("sign_out", [op["sign_out"] EXCEPT !.at = "stop"])
    /\ session' = None /\ Clear
    /\ left' = (IF sessionFile' = None THEN {} ELSE {"session file"})
    /\ UNCHANGED <<base, node, pending, shown, agentFile, daemon, cp, foreign, gated, keys, signedOut, astray>>

\* Mistaken variant: the identity of the node is kept.
ForgetNodeInMemory ==
    /\ At("sign_out", "stop") /\ Goes("sign_out", Idle)
    /\ daemon' = FALSE /\ node' = 0 /\ UNCHANGED agentFile
    /\ shown' = "out" /\ signedOut' = TRUE
    /\ UNCHANGED <<session, base, pending, sessionFile, cp, world, left, astray>>

\* The daemon is stopped (a failure is logged), and the node's identity is
\* deleted (a failure is not); the device's stays, and so does a link that is
\* held.  A node that was not retired is left behind.
ForgetNode ==
    /\ At("sign_out", "stop") /\ Goes("sign_out", Idle)
    /\ daemon' \in {FALSE, daemon} /\ node' = 0
    /\ \/ agentFile' = 0 /\ UNCHANGED faults
       \/ Fault /\ UNCHANGED agentFile
    /\ shown' = "out" /\ signedOut' = TRUE
    /\ left' = left \cup (IF daemon' THEN {"daemon"} ELSE {})
                    \cup (IF agentFile' # 0 THEN {"agent.json"} ELSE {})
                    \cup (IF pending # None THEN {"link"} ELSE {})
    /\ astray' = (astray \/ nodeKey # 0)
    /\ UNCHANGED <<session, base, pending, sessionFile, cp, foreign, gated, keys>>

SignOut == SignOutStart \/ Retire \/ ClearSession \/ ForgetNode

-----------------------------------------------------------------------------
(* Time, administrators, the process. *)

Expire ==
    /\ Fault /\ \E tok \in live : live' = live \ {tok}
    /\ UNCHANGED <<memory, disk, daemon, op, minted, nodeKey, trusted, foreign, gated, keys, history>>

\* The device is revoked, or its node retired.
Removed ==
    /\ Fault /\ nodeKey # 0
    /\ \/ trusted' = FALSE /\ UNCHANGED nodeKey
       \/ nodeKey' = 0 /\ UNCHANGED trusted
    /\ UNCHANGED <<memory, disk, daemon, op, live, minted, foreign, gated, keys, history>>

\* AppState::new reads the session file.  Quitting stops the daemon, a crash
\* does not.
Restart ==
    /\ Fault
    /\ session' = sessionFile /\ base' = "gateway" /\ node' = 0 /\ pending' = None /\ shown' = "out"
    /\ daemon' \in {FALSE, daemon}
    /\ op' = [c \in Commands |-> Idle]
    /\ raced' = (raced \/ ~At("sign_out", "idle"))
    /\ astray' = (astray \/ Enrolling # {})
    /\ UNCHANGED <<disk, cp, foreign, gated, keys, signedOut, left>>

Next ==
    \/ ApplyStart \/ Redeemed \/ DeepLink
    \/ \E c \in {"apply", "join"} : Applied(c) \/ ApplyFails(c)
    \/ CheckStart \/ CheckValid \/ CheckInvalid \/ Refreshed \/ Reauthed \/ ReauthRefused \/ ReauthInconclusive
    \/ ConnectStart \/ JoinStart \/ Rollback \/ Disconnect
    \/ \E c \in {"connect", "join"} : Enrolled(c) \/ EnrollFails(c) \/ Persisted(c) \/ PersistFails(c)
    \/ StartDataplane \/ BringUp \/ StopDataplane
    \/ SignOut
    \/ Expire \/ Removed \/ Restart

Spec == Init /\ [][Next]_vars

-----------------------------------------------------------------------------
(* Properties. *)

\* What signing out leaves: no session, no node, no daemon, until the user does
\* something to sign in; a re-authentication cannot bring any of it back.  What
\* sign_out could not remove is the exception, and the token of a link it held,
\* which it does not drop: the next check adopts that one and signs in again.
SignedOutStaysOut ==
    signedOut /\ ~raced /\ left \subseteq {"daemon"} =>
        /\ session = None /\ sessionFile = None
        /\ node = 0 /\ agentFile = 0
        /\ daemon => "daemon" \in left

\* Connects, invites and their rollbacks, one after the other: the key of the
\* device's node is the one in agent.json and in memory, and no node is left
\* without a file.
KeysAgree ==
    ~astray /\ Enrolling = {} =>
        /\ nodeKey # 0 => agentFile = nodeKey
        /\ node # 0 => node = agentFile

\* A device its control plane vouches for is not logged out by a session that
\* expired, a request that got no answer or a file that could not be written: a
\* session stays in memory or on disk.  Only where the session it was just issued
\* is refused as well does the check log it out.  (A foreign tenant's is: a
\* restart asks the gateway.)
VouchedStaysIn ==
    [][~foreign /\ trusted /\ nodeKey # 0 /\ sessionFile # None /\ At("sign_out", "idle")
        /\ (At("check", "info") => op["check"].tok \in live)
        => sessionFile' # None \/ session' # None]_vars

-----------------------------------------------------------------------------
(* What the documentation says of the code. *)

\* check_auth_state: a re-authentication "does NOT resurrect a deliberate
\* sign-out".
ReauthRespectsSignOut == [][Reauthed => ~signedOut]_vars
=============================================================================
