------------------------------ MODULE CpCalls -------------------------------
(***************************************************************************)
(* The control-plane client (agent-core/src/adapters.rs): one HTTP request *)
(* per function, and two commands of the desktop application that make     *)
(* several (gui/src-tauri/src/lib.rs): the export of the ledger and the    *)
(* sample demo.                                                            *)
(*                                                                         *)
(* What tells one endpoint from another is how a caller authenticates,     *)
(* whether it can carry a step-up proof, whether the request is bounded in *)
(* time, and how much of a refusal the caller learns.                      *)
(***************************************************************************)
EXTENDS Integers, Sequences, FiniteSets

CONSTANTS
    MaxRows,   \* bound: rows of the ledger
    Page,      \* rows the control plane puts on a page
    MaxPages   \* pages export_ledger reads at most

VARIABLES
    doing,     \* what this client does: requests, exports, the sample demo
    call,      \* the request under way
    token,     \* the application has a session token
    signedIn,  \* the control plane accepts the session
    multiUser, \* a multi-user tenant: sensitive actions take a proof
    strong,    \* the account has a factor stronger than e-mail
    rows,      \* rows of the ledger
    walk,      \* export_ledger: rows read, cursor, pages, verdict; a cursor was missing
    demos,     \* subdomains of this node labelled "demo..."
    taken,     \* the label "demo" belongs to someone else
    publish,   \* publish_sample_demo: where it awaits, whether with a proof
    late,      \* registrations that timed out here and are still on their way
    overtaken  \* history: one arrived between the list and the registration of a later try

labels   == <<demos, taken, late, overtaken>>
callVars == <<doing, call, token, signedIn, multiUser, strong, rows, walk, labels, publish>>

-----------------------------------------------------------------------------
(* The endpoints. *)

\* Mistaken variant: the request waits for as long as it takes.
GetUnbounded(names) == [name : names, auth : {"token"}, sensitive : {FALSE}, timed : {FALSE}, error : {"status"}]

\* get_json: bearer token, bounded; of a refusal only the status is kept.
Get(names) == [name : names, auth : {"token"}, sensitive : {FALSE}, timed : {TRUE}, error : {"status"}]

\* Requests that keep the control plane's message and its demands.
Write(names) == [name : names, auth : {"token"}, sensitive : {FALSE}, timed : {TRUE}, error : {"typed"}]

\* The same, with a place for a proof.
Sensitive(names) == [name : names, auth : {"token"}, sensitive : {TRUE}, timed : {TRUE}, error : {"typed"}]

\* The credential is in the body: a voucher, an invite, a proof of the machine.
Bearing(names, error) == [name : names, auth : {"body"}, sensitive : {FALSE}, timed : {TRUE}, error : {error}]

Unbounded(names) == [name : names, auth : {"token"}, sensitive : {FALSE}, timed : {FALSE}, error : {"typed"}]

SessionEndpoints ==
    Get({"session_info"}) \cup Write({"billing_checkout"}) \cup Bearing({"redeem_handoff"}, "typed")
    \cup [name : {"post_diagnostics"}, auth : {"token"}, sensitive : {FALSE}, timed : {TRUE}, error : {"status"}]

RosterEndpoints ==
    Get({"relay_map", "quota", "list_nodes", "peers"}) \cup Bearing({"fetch_handoff"}, "typed")

EnrollEndpoints == Write({"enroll"}) \cup Sensitive({"issue_join_token"})

SshEndpoints ==
    Bearing({"enroll_via_join_token", "open_agent_ssh_session", "elevate_pubkey"}, "typed")
    \cup Write({"open_ssh_session", "elevate_ssh_session"}) \cup Get({"resolve_subdomains"})

SubdomainEndpoints ==
    Get({"list_subdomains", "get_subdomain_cert"}) \cup Write({"submit_subdomain_csr"})
    \cup Sensitive({"register_subdomain", "delete_subdomain"})

MemberEndpoints ==
    Get({"list_members", "list_member_invites"}) \cup Write({"revoke_member_invite"})
    \cup Bearing({"session_refresh", "join_team_link"}, "typed") \cup Sensitive({"invite_member"})

PolicyEndpoints ==
    Write({"join_team"}) \cup Sensitive({"remove_member", "reset_member_totp", "submit_policy"})
    \cup Get({"get_policy", "my_access"})

WorkloadEndpoints == Bearing({"ci_deploy", "agent_enroll"}, "status")

ApprovalEndpoints ==
    Write({"list_principals", "amend_principal", "list_pending_approvals", "decide_approval",
           "submit_command_template"})

GrantEndpoints == Write({"mint_command_grants", "task_record"}) \cup Get({"overview", "my_overview"})

ExportEndpoints ==
    Unbounded({"ledger_export_page", "subscribe_peer_events"}) \cup Get({"roi_export"})
    \cup Write({"renew_service_token"})

\* read_ok_text keeps the message but no demand.
AgentEndpoints ==
    [name : {"mint_agent_token"}, auth : {"token"}, sensitive : {FALSE}, timed : {TRUE}, error : {"message"}]
    \cup Write({"mint_agent_identity", "open_delegation_window"}) \cup Get({"list_recent_delegations"})

CiEndpoints ==
    Get({"list_ci_policies", "ci_history", "ssh_history"})
    \cup Sensitive({"register_ci_policy", "delete_ci_policy", "delete_node"})

TagEndpoints ==
    Write({"set_node_tags", "set_subdomain_tags", "record_subdomain_opened", "request_step_up"})

StepUpEndpoints ==
    Write({"verify_step_up", "verify_step_up_totp", "totp_enroll", "totp_confirm"})
    \cup Get({"totp_status"}) \cup Sensitive({"totp_disable"})

WebAuthnEndpoints ==
    Get({"webauthn_status"})
    \cup Write({"webauthn_register_start", "webauthn_register_finish",
                "webauthn_authenticate_start", "verify_step_up_webauthn"})

FactorEndpoints ==
    Get({"platform_key_status", "platform_key_list", "security_key_list"})
    \cup Sensitive({"platform_key_delete", "security_key_delete"})

PlatformKeyEndpoints ==
    Write({"platform_key_register", "platform_key_challenge", "verify_step_up_platform_key"})

Endpoints ==
    UNION {SessionEndpoints, RosterEndpoints, EnrollEndpoints, SshEndpoints, SubdomainEndpoints,
           MemberEndpoints, PolicyEndpoints, WorkloadEndpoints, ApprovalEndpoints, GrantEndpoints,
           ExportEndpoints, AgentEndpoints, CiEndpoints, TagEndpoints, StepUpEndpoints,
           WebAuthnEndpoints, FactorEndpoints, PlatformKeyEndpoints}

-----------------------------------------------------------------------------
(* The window's commands: each needs the session's token, makes the request, *)
(* and hands its error on as text.  A proof is passed through.               *)

InviteCommands     == {"issue_join_token"}
StepUpCommands     == {"request_step_up", "verify_step_up", "verify_step_up_totp", "totp_status",
                       "totp_enroll", "totp_confirm", "totp_disable"}
WebAuthnCommands   == {"webauthn_status", "webauthn_register_start", "webauthn_register_finish",
                       "webauthn_authenticate_start", "verify_step_up_webauthn"}
FactorCommands     == {"platform_key_list", "security_key_list", "platform_key_delete", "security_key_delete"}
DelegationCommands == {"mint_agent_identity", "open_delegation_window", "list_recent_delegations"}
ApprovalCommands   == {"list_principals", "amend_principal", "list_pending_approvals", "decide_approval",
                       "submit_command_template", "task_record", "overview"}
CiCommands         == {"my_overview", "list_ci_policies", "ci_history", "ssh_history",
                       "register_ci_policy", "delete_ci_policy"}
SubdomainCommands  == {"list_subdomains", "register_subdomain", "get_subdomain_cert", "delete_subdomain"}
MemberCommands     == {"list_members", "invite_member", "list_member_invites", "revoke_member_invite",
                       "join_team", "remove_member"}
PolicyCommands     == {"reset_member_totp", "get_policy", "submit_policy", "my_access", "delete_node",
                       "set_node_tags", "set_subdomain_tags", "list_nodes"}

SessionCommands ==
    UNION {InviteCommands, StepUpCommands, WebAuthnCommands, FactorCommands, DelegationCommands,
           ApprovalCommands, CiCommands, SubdomainCommands, MemberCommands, PolicyCommands}

-----------------------------------------------------------------------------
(* Refusals. *)

\* What a refusal carries: a JSON body or none, its message, its demands.
Plain(message) == [json |-> TRUE, message |-> message, stepUp |-> FALSE, strongFactor |-> FALSE]
Garbled        == [Plain(FALSE) EXCEPT !.json = FALSE]

\* Mistaken variant: a message is taken before a demand.
StatusErrorByMessage(body) ==
    CASE body.json /\ body.message      -> "server"
      [] body.json /\ body.stepUp       -> "step_up_required"
      [] body.json /\ body.strongFactor -> "strong_factor_required"
      [] OTHER                          -> "status"

\* A demand comes before a refused downgrade, and that before a message.
StatusError(body) ==
    CASE body.json /\ body.stepUp                            -> "step_up_required"
      [] body.json /\ ~body.stepUp /\ body.strongFactor      -> "strong_factor_required"
      [] body.json /\ ~body.stepUp /\ ~body.strongFactor /\ body.message -> "server"
      [] OTHER                                               -> "status"

\* What the caller of an endpoint learns.
ErrorOf(endpoint, body) ==
    CASE endpoint.error = "typed"   -> StatusError(body)
      [] endpoint.error = "message" -> IF body.json /\ body.message THEN "server" ELSE "status"
      [] endpoint.error = "status"  -> "status"

-----------------------------------------------------------------------------
(* One request. *)

NoCall == [at |-> "idle", endpoint |-> CHOOSE e \in Endpoints : e.name = "quota", proof |-> FALSE,
           body |-> Garbled, result |-> "none"]

Others == UNCHANGED <<doing, token, signedIn, multiUser, strong>>
TheRest == UNCHANGED <<rows, walk, labels, publish>>

\* require_token: without one, the command asks nobody.
Send(e) ==
    /\ call.at = "idle"
    /\ IF e.name \in SessionCommands /\ ~token
       THEN call' = [NoCall EXCEPT !.at = "answered", !.endpoint = e, !.result = "session_expired"]
       ELSE \E proof \in {e.sensitive, FALSE} :
                call' = [NoCall EXCEPT !.at = "sent", !.endpoint = e, !.proof = proof]
    /\ Others /\ TheRest

\* What the control plane refuses whatever else holds: a session it does not
\* know, a sensitive action without proof, an e-mail to who has better.
Denials(c) ==
    CASE c.endpoint.auth = "token" /\ ~signedIn            -> {Plain(TRUE), Garbled}
      [] c.endpoint.auth = "body" \/ signedIn ->
            IF c.endpoint.sensitive /\ multiUser /\ ~c.proof
            THEN {[Plain(m) EXCEPT !.stepUp = TRUE] : m \in BOOLEAN}
            ELSE IF c.endpoint.name = "request_step_up" /\ strong
            THEN {[Plain(m) EXCEPT !.strongFactor = TRUE] : m \in BOOLEAN}
            ELSE {}

Served ==
    /\ call.at = "sent"
    /\ \/ Denials(call) = {} /\ call' = [call EXCEPT !.at = "answered", !.result = "ok"]
       \/ \E b \in IF Denials(call) = {} THEN {Plain(TRUE), Plain(FALSE), Garbled} ELSE Denials(call) :
            call' = [call EXCEPT !.at = "answered", !.body = b, !.result = ErrorOf(call.endpoint, b)]
    /\ Others /\ TheRest

\* The connection breaks, or CP_REST_TIMEOUT is over.
TimesOut ==
    /\ call.at = "sent" /\ call.endpoint.timed
    /\ call' = [call EXCEPT !.at = "answered", !.result = "transport"]
    /\ Others /\ TheRest

Break ==
    /\ call.at = "sent" /\ ~call.endpoint.timed
    /\ call' = [call EXCEPT !.at = "answered", !.result = "transport"]
    /\ Others /\ TheRest

Told ==
    /\ call.at = "answered" /\ call' = [call EXCEPT !.at = "idle", !.body = Garbled, !.result = "none"]
    /\ Others /\ TheRest

-----------------------------------------------------------------------------
(* export_ledger. *)

NoWalk == [at |-> "idle", got |-> {}, had |-> 0, after |-> 0, pages |-> 0, complete |-> FALSE, cut |-> FALSE]

ExportStart ==
    /\ walk.at = "idle" /\ signedIn
    /\ walk' = [NoWalk EXCEPT !.at = "page", !.had = rows]
    /\ UNCHANGED <<call, rows, labels, publish>> /\ Others

\* A page: some rows after the cursor.  The control plane marks the one that reached
\* the tail and gives a cursor with the others; that header may be missing or not a
\* number, and a page without a cursor ends the walk too.  The read is itself
\* appended to the ledger.
PageRead ==
    /\ walk.at = "page" /\ walk.pages < MaxPages
    /\ \E last \in walk.after..rows, legible \in BOOLEAN :
        /\ last <= walk.after + Page
        /\ last = walk.after => last = rows
        /\ LET tail == last = rows
               next == ~tail /\ legible
           IN  walk' = [walk EXCEPT !.got = @ \cup (walk.after + 1)..last,
                                    !.after = last,
                                    !.pages = @ + 1,
                                    !.complete = tail \/ ~next,
                                    !.cut = ~tail /\ ~next,
                                    !.at = IF tail \/ ~next THEN "write" ELSE "page"]
    /\ rows' = (IF rows < MaxRows THEN rows + 1 ELSE rows)
    /\ UNCHANGED <<call, labels, publish>> /\ Others

\* Mistaken variant: a walk that stops at the cap is reported as the whole.
CappedComplete ==
    /\ walk.at = "page" /\ walk.pages = MaxPages
    /\ walk' = [walk EXCEPT !.at = "write", !.complete = TRUE]
    /\ UNCHANGED <<call, rows, labels, publish>> /\ Others

\* The cap on the pages: what was read is written, as incomplete.
Capped ==
    /\ walk.at = "page" /\ walk.pages = MaxPages
    /\ walk' = [walk EXCEPT !.at = "write"]
    /\ UNCHANGED <<call, rows, labels, publish>> /\ Others

\* The file is written, or it cannot be and the export is an error.
Exported ==
    /\ walk.at = "write"
    /\ walk' \in {[walk EXCEPT !.at = "done"], NoWalk}
    /\ UNCHANGED <<call, rows, labels, publish>> /\ Others

PageFails ==
    /\ walk.at = "page" /\ walk' = NoWalk
    /\ UNCHANGED <<call, rows, labels, publish>> /\ Others

-----------------------------------------------------------------------------
(* publish_sample_demo. *)

NotPublishing == [at |-> "idle", proof |-> FALSE]

PublishStart ==
    /\ publish.at = "idle"
    /\ \E proof \in BOOLEAN : publish' = [at |-> "list", proof |-> proof]
    /\ UNCHANGED <<call, rows, walk, labels>> /\ Others

\* Mistaken variant: what is published already is not looked at.
ListedNone ==
    /\ publish.at = "list" /\ publish' = [publish EXCEPT !.at = "register"]
    /\ UNCHANGED <<call, rows, walk, labels>> /\ Others

\* A demo of this node is used again.
Listed ==
    /\ publish.at = "list"
    /\ publish' = (IF demos # {} THEN NotPublishing ELSE [publish EXCEPT !.at = "register"])
    /\ UNCHANGED <<call, rows, walk, labels>> /\ Others

\* The control plane takes a name nobody has.
Registers(label) ==
    /\ ~(label = "demo" /\ taken) /\ label \notin demos
    /\ demos' = demos \cup {label}

\* register_subdomain; a name that is taken is tried once more with a suffix.
\* The answer may be lost, or the request may be given up here while it is on its
\* way there.
RegisterLabel(label) ==
    /\ publish.at = (IF label = "demo" THEN "register" ELSE "register_suffixed")
    /\ \/ /\ multiUser => publish.proof
          /\ Registers(label) /\ publish' = NotPublishing /\ UNCHANGED late
       \/ /\ label = "demo" /\ (taken \/ label \in demos)
          /\ publish' = [publish EXCEPT !.at = "register_suffixed"] /\ UNCHANGED <<demos, late>>
       \/ publish' = NotPublishing /\ UNCHANGED <<demos, late>>
       \/ /\ multiUser => publish.proof
          /\ late' = late \cup {label} /\ publish' = NotPublishing /\ UNCHANGED demos
    /\ UNCHANGED <<call, rows, walk, taken, overtaken>> /\ Others

\* A registration whose caller has given it up arrives.
LateArrival(label) ==
    /\ label \in late /\ late' = late \ {label}
    /\ \/ Registers(label) /\ overtaken' = (overtaken \/ publish.at \in {"register", "register_suffixed"})
       \/ UNCHANGED <<demos, overtaken>>    \* refused
    /\ UNCHANGED <<call, rows, walk, taken, publish>> /\ Others

Unpublish ==
    /\ publish.at = "idle" /\ (\E label \in demos : demos' = demos \ {label})
    /\ UNCHANGED <<call, rows, walk, taken, late, overtaken, publish>> /\ Others

-----------------------------------------------------------------------------

\* A request, an export or the demo: they share nothing.
CallInit ==
    /\ doing \in {"request", "export", "publish"}
    /\ call = NoCall /\ walk = NoWalk /\ publish = NotPublishing /\ demos = {}
    /\ late = {} /\ overtaken = FALSE
    /\ token \in BOOLEAN /\ signedIn \in BOOLEAN /\ (signedIn => token) /\ multiUser \in BOOLEAN
    /\ strong \in (IF doing = "request" THEN BOOLEAN ELSE {FALSE})
    /\ rows \in (IF doing = "export" THEN 0..MaxRows ELSE {0})
    /\ taken \in (IF doing = "publish" THEN BOOLEAN ELSE {FALSE})

CallNext ==
    \/ doing = "request" /\ ((\E e \in Endpoints : Send(e)) \/ Served \/ TimesOut \/ Break \/ Told)
    \/ doing = "export" /\ (ExportStart \/ PageRead \/ Capped \/ PageFails \/ Exported)
    \/ doing = "publish" /\ (PublishStart \/ Listed \/ Unpublish)
    \/ doing = "publish" /\ (\E l \in {"demo", "demo-2"} : RegisterLabel(l) \/ LateArrival(l))

CallFairness == WF_callVars(TimesOut) /\ WF_callVars(Told)

CallSpec == CallInit /\ [][CallNext]_callVars /\ CallFairness

-----------------------------------------------------------------------------
(* Properties. *)

\* What the control plane demands of a sensitive action reaches the caller, who can
\* then satisfy it: runWithStepUp and its dialog depend on it.
DemandIsHeard ==
    call.at = "answered" /\ call.result # "ok" =>
        /\ call.body.stepUp => call.result = "step_up_required"
        /\ call.body.strongFactor /\ ~call.body.stepUp => call.result = "strong_factor_required"

\* An export called complete holds every row the ledger had when it began, though
\* each read appends to it and the walk stops at its cap: unless a page short of the
\* tail came without a cursor that can be read, which the walk takes for the tail.
CompleteMeansAll ==
    walk.at = "done" /\ walk.complete /\ ~walk.cut => 1..walk.had \subseteq walk.got

\* Publishing again, after a lost answer, a timeout or a step-up, does not mint a
\* second name: unless a registration given up before arrives just between the list
\* and the registration of a later try, which then finds its name taken and adds one.
OneDemo == ~overtaken => Cardinality(demos) <= 1

\* A silent control plane does not hold a caller up, the event stream and the pages
\* of the export excepted: those have no timeout.
CallsEnd == call.at = "sent" /\ call.endpoint.name \notin {"subscribe_peer_events", "ledger_export_page"}
                ~> call.at = "idle"

=============================================================================
