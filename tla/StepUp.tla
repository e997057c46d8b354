------------------------------- MODULE StepUp -------------------------------
(***************************************************************************)
(* Step-up: a sensitive action is refused until the user proves presence   *)
(* (gui/src-tauri/src/lib.rs, webauthn_apple.rs and the frontend's         *)
(* stepup.ts).  A flow runs one action; it may use the key this device     *)
(* keeps in its Secure Enclave, a security key, an authenticator app or an *)
(* e-mailed code.  There is one dialog for codes and one slot for the      *)
(* system's security-key sheet.                                            *)
(***************************************************************************)
EXTENDS Integers, FiniteSets

CONSTANTS
    Flows,    \* actions run with runWithStepUp
    MaxPlatformKeys   \* bound: keys made in this device's enclave

VARIABLES
    flow,      \* per flow: where it awaits, the proof it has, its promise settled
    modal,     \* the flow whose dialog is shown
    ceremony,  \* the flow whose delegate is IN_FLIGHT
    aal, recovery,      \* what the control plane demands; the purpose is a recovery
    account,            \* platform keys the control plane knows
    enclave, made,      \* the key in this device's enclave; keys made so far
    dead,               \* keys that sign no more: the fingerprints changed
    enroll, dropping,   \* platform_key_enroll, platform_key_remove under way
    totp, fido,         \* an authenticator app, a security key is enrolled
    overlapped,  \* history: a dialog opened while another flow was at its own
    parted       \* history: what may have parted the account and the enclave since a key was enrolled

dialog  == <<flow, modal, ceremony, overlapped>>
platform == <<account, enclave, made, dead, enroll, dropping, parted>>
fixed   == <<aal, recovery>>
stepVars    == <<dialog, platform, fixed, totp, fido>>

PlatformKeys  == 1..MaxPlatformKeys
Other == 0            \* in account: a key of another device; in enclave: none
Nobody == "nobody"

IdleFlow == [at |-> "idle", proof |-> "none", settled |-> FALSE]
NotEnrolling == [at |-> "idle", key |-> 0]

StepInit ==
    /\ flow = [f \in Flows |-> IdleFlow] /\ modal = Nobody /\ ceremony = Nobody
    /\ aal \in {2, 3} /\ recovery \in BOOLEAN
    /\ account \in {{}, {Other}} /\ enclave = 0 /\ made = 0 /\ dead = {}
    /\ enroll = NotEnrolling /\ dropping = FALSE
    /\ totp \in BOOLEAN /\ fido = (aal = 3)
    /\ overlapped = FALSE /\ parted = {}

-----------------------------------------------------------------------------
(* The key of this device. *)

\* The access control binds a key to the fingerprints of the day it is made.
Usable(k) == k \notin dead

CreateKey == made' = made + 1 /\ enclave' = made'
DeleteKey == enclave' = 0

\* platform_key_enroll: whatever key there was goes, a fresh one is made, if it can be.
EnrollStart ==
    /\ enroll.at = "idle" /\ made < MaxPlatformKeys
    /\ \/ CreateKey /\ enroll' = [at |-> "probe", key |-> made']
       \/ DeleteKey /\ UNCHANGED <<made, enroll>>
    /\ UNCHANGED <<dialog, fixed, account, dead, dropping, parted, totp, fido>>

\* delete_platform_key, where nobody looks at its result: it may have failed.
DeleteKeyUnseen ==
    \/ DeleteKey /\ UNCHANGED parted
    \/ UNCHANGED enclave /\ parted' = parted \cup {"delete failed"}

\* The probe signature: a key that cannot sign is deleted again.
Probed ==
    /\ enroll.at = "probe"
    /\ \/ enclave = enroll.key /\ Usable(enclave)
          /\ enroll' = [enroll EXCEPT !.at = "register"] /\ UNCHANGED <<enclave, parted>>
       \/ DeleteKeyUnseen /\ enroll' = NotEnrolling
    /\ UNCHANGED <<dialog, fixed, account, made, dead, dropping, totp, fido>>

\* A registration that fails leaves the local key.
Registered ==
    /\ enroll.at = "register" /\ enroll' = NotEnrolling
    /\ \/ account' = account \cup {enroll.key} /\ parted' = {}
       \/ parted' = parted \cup {"registration failed"} /\ UNCHANGED account
    /\ UNCHANGED <<dialog, fixed, enclave, made, dead, dropping, totp, fido>>

\* platform_key_remove: the account's key first, whichever it is ...
RemoveKey ==
    /\ ~dropping /\ dropping' = TRUE
    /\ \E k \in account : account' = account \ {k}
    /\ UNCHANGED <<dialog, fixed, enclave, made, dead, enroll, parted, totp, fido>>

\* Mistaken variant: the local key is left alone.
DropLocalNever ==
    /\ dropping /\ dropping' = FALSE
    /\ UNCHANGED <<dialog, fixed, account, enclave, made, dead, enroll, parted, totp, fido>>

\* ... then the one in this device's enclave.
DropLocal ==
    /\ dropping /\ dropping' = FALSE /\ DeleteKeyUnseen
    /\ UNCHANGED <<dialog, fixed, account, made, dead, enroll, totp, fido>>

\* platform_key_status: any key on the account, and a key here.
Status == account # {} /\ enclave # 0

CanSign == enclave \in account \cap PlatformKeys /\ Usable(enclave)

-----------------------------------------------------------------------------
(* runWithStepUp. *)

AtDialog(f) == flow[f].at \in {"sending", "code", "verify"} \/ (flow[f].at = "act" /\ flow[f].proof = "code")

FlowGoes(f, at)  == flow' = [flow EXCEPT ![f].at = at]
Settles(f)   == flow' = [flow EXCEPT ![f].at = "over", ![f].settled = TRUE]
KeepsFactors == UNCHANGED <<platform, fixed, totp, fido>>

\* The dialog opens at once; an e-mailed code is asked for meanwhile.
OpenModal(f, at) ==
    /\ FlowGoes(f, at) /\ modal' = f
    /\ overlapped' = (overlapped \/ \E g \in Flows \ {f} : AtDialog(g))
    /\ UNCHANGED ceremony

\* An authenticator app (its status may not be known), or an e-mailed code; the
\* latter only if no stronger factor has just failed.
AskForCode(f, biometricFailed) ==
    \/ totp /\ OpenModal(f, "code")
    \/ IF biometricFailed /\ ~recovery
       THEN Settles(f) /\ UNCHANGED <<modal, ceremony, overlapped>>
       ELSE OpenModal(f, "sending")

\* The action is refused for want of a proof.
Demanded(f) ==
    /\ flow[f].at = "idle"
    /\ \/ aal = 3 /\ FlowGoes(f, "prepare") /\ UNCHANGED <<modal, ceremony, overlapped>>
       \/ aal = 2 /\ Status /\ FlowGoes(f, "sign") /\ UNCHANGED <<modal, ceremony, overlapped>>
       \/ aal = 2 /\ AskForCode(f, FALSE)    \* no key here, or its status unknown
    /\ KeepsFactors

\* platform_key_sign_challenge.
Sign(f) ==
    /\ flow[f].at = "sign"
    /\ \/ CanSign /\ flow' = [flow EXCEPT ![f].at = "act", ![f].proof = "platform"]
          /\ UNCHANGED <<modal, ceremony, overlapped>>
       \/ AskForCode(f, TRUE)
    /\ KeepsFactors

\* The one slot that keeps a delegate alive on the main thread.
InFlight(f) == ceremony' = f

\* start_on_main: the delegate goes into the slot.  The one it replaces is
\* dropped with its sender, so its worker is answered "without a result".
StartCeremony(f) ==
    /\ flow[f].at = "prepare" /\ InFlight(f)
    /\ flow' = [g \in Flows |-> CASE g = f -> [flow[f] EXCEPT !.at = "key"]
                                  [] g = ceremony /\ g # f -> [flow[g] EXCEPT !.at = "over", !.settled = TRUE]
                                  [] OTHER -> flow[g]]
    /\ UNCHANGED <<modal, overlapped>> /\ KeepsFactors

\* The delegate's callback takes the sender: it answers once, its own worker.
CeremonyEnds(f) ==
    /\ ceremony = f /\ ceremony' = Nobody
    /\ \/ fido /\ flow' = [flow EXCEPT ![f].at = "act", ![f].proof = "security_key"]
       \/ Settles(f)
    /\ UNCHANGED <<modal, overlapped>> /\ KeepsFactors

\* The options of the server cannot be had, or make no request.
CeremonyFails(f) ==
    /\ flow[f].at = "prepare" /\ Settles(f)
    /\ UNCHANGED <<modal, ceremony, overlapped>> /\ KeepsFactors

\* What an in-flight call of a flow whose user has cancelled comes back to.
Resumes(f, at) == IF flow[f].settled THEN FlowGoes(f, "over") ELSE FlowGoes(f, at)

\* The control plane sends no code where a stronger factor is enrolled.
SendsCode == recovery \/ ~(totp \/ fido \/ account # {})

\* The code is on its way, or the request failed: the dialog stays.
Sent(f) ==
    /\ flow[f].at = "sending" /\ Resumes(f, "code")
    /\ UNCHANGED <<modal, ceremony, overlapped>> /\ KeepsFactors

\* Mistaken variant: the dialog closes and the caller is not told.
SendRefusedSilently(f) ==
    /\ flow[f].at = "sending" /\ ~SendsCode
    /\ modal' = Nobody /\ Resumes(f, "code")
    /\ UNCHANGED <<ceremony, overlapped>> /\ KeepsFactors

\* A refused downgrade is final.
SendRefused(f) ==
    /\ flow[f].at = "sending" /\ ~SendsCode
    /\ modal' = Nobody /\ Settles(f)
    /\ UNCHANGED <<ceremony, overlapped>> /\ KeepsFactors

Submit(f) ==
    /\ modal = f /\ flow[f].at = "code" /\ FlowGoes(f, "verify")
    /\ UNCHANGED <<modal, ceremony, overlapped>> /\ KeepsFactors

Verified(f) ==
    /\ flow[f].at = "verify"
    /\ \/ flow' = [flow EXCEPT ![f].at = "act", ![f].proof = "code"]
       \/ Resumes(f, "code")
    /\ UNCHANGED <<modal, ceremony, overlapped>> /\ KeepsFactors

\* Resend, or "use email code instead".
Resend(f) ==
    /\ modal = f /\ flow[f].at = "code" /\ FlowGoes(f, "sending")
    /\ UNCHANGED <<modal, ceremony, overlapped>> /\ KeepsFactors

\* Calls in flight go on.
Cancel(f) ==
    /\ modal = f /\ modal' = Nobody
    /\ flow' = [flow EXCEPT ![f].settled = TRUE, ![f].at = IF @ = "code" THEN "over" ELSE @]
    /\ UNCHANGED <<ceremony, overlapped>> /\ KeepsFactors

\* The action with its proof; the dialog, whoever's it is, is closed.
Acted(f) ==
    /\ flow[f].at = "act" /\ Settles(f)
    /\ modal' = (IF flow[f].proof = "code" THEN Nobody ELSE modal)
    /\ UNCHANGED <<ceremony, overlapped>> /\ KeepsFactors

\* Mistaken variant: any failure leads to the next factor.
ActionFailsOver(f) ==
    /\ flow[f].at = "act"
    /\ IF flow[f].proof = "code" THEN Resumes(f, "code") /\ UNCHANGED <<modal, ceremony, overlapped>>
                                 ELSE AskForCode(f, FALSE)
    /\ KeepsFactors

\* A code may be entered again; after a ceremony the failure is the action's.
ActionFails(f) ==
    /\ flow[f].at = "act"
    /\ IF flow[f].proof = "code" THEN Resumes(f, "code") ELSE Settles(f)
    /\ UNCHANGED <<modal, ceremony, overlapped>> /\ KeepsFactors

-----------------------------------------------------------------------------
(* The world: other devices, fingerprints, the other factors. *)

Elsewhere ==
    /\ \/ \E k \in account \cap PlatformKeys : account' = account \ {k} /\ UNCHANGED dead
             /\ parted' = parted \cup {"removed elsewhere"}
       \/ enclave \in PlatformKeys \ dead /\ dead' = dead \cup {enclave} /\ UNCHANGED <<account, parted>>
    /\ UNCHANGED <<dialog, fixed, enclave, made, enroll, dropping, totp, fido>>

\* totp_confirm, totp_disable.
Authenticator ==
    /\ totp' = ~totp /\ UNCHANGED <<dialog, platform, fixed, fido>>

\* webauthn_register_finish, security_key_remove: not the last where one is needed.
SecurityKey ==
    /\ aal = 2 /\ fido' = ~fido /\ UNCHANGED <<dialog, platform, fixed, totp>>

\* The application ends, in the middle of whatever it does: a request it had sent may
\* still arrive.  The next run starts with no flow; the two stores are what they are.
AppQuits ==
    /\ flow' = [f \in Flows |-> IdleFlow] /\ modal' = Nobody /\ ceremony' = Nobody /\ overlapped' = FALSE
    /\ enroll' = NotEnrolling /\ dropping' = FALSE
    /\ account' \in {account, account \cup (IF enroll.at = "register" THEN {enroll.key} ELSE {})}
    /\ parted' = parted \cup (IF dropping \/ enroll # NotEnrolling THEN {"quit"} ELSE {})
    /\ UNCHANGED <<enclave, made, dead, fixed, totp, fido>>

StepNext ==
    \/ EnrollStart \/ Probed \/ Registered \/ RemoveKey \/ DropLocal
    \/ \E f \in Flows :
        \/ Demanded(f) \/ Sign(f) \/ StartCeremony(f) \/ CeremonyEnds(f) \/ CeremonyFails(f)
        \/ Sent(f) \/ SendRefused(f) \/ Submit(f) \/ Verified(f) \/ Resend(f) \/ Cancel(f)
        \/ Acted(f) \/ ActionFails(f)
    \/ Elsewhere \/ Authenticator \/ SecurityKey \/ AppQuits

StepSpec == StepInit /\ [][StepNext]_stepVars

-----------------------------------------------------------------------------
(* Properties. *)

\* Every caller that waits has someone to answer it: the dialog it opened, or the
\* system's sheet.  (A flow cancelled in the middle of a call closes the dialog
\* of the next: those are excluded.)
SomeoneAnswers ==
    \A f \in Flows :
        /\ ~overlapped /\ AtDialog(f) /\ ~flow[f].settled => modal = f
        /\ flow[f].at = "key" => ceremony = f

\* Once a key has proved the user, no code is asked for: the failure of the
\* action is the action's, and the user hears of it.
NoCodeAfterKey ==
    \A f \in Flows : flow[f].proof \in {"platform", "security_key"} => ~AtDialog(f)

\* platform_key_status: a key it reports usable on this device is one the control
\* plane accepts.  Since the last enrolment that succeeded nothing may have come
\* between the two stores: a registration or a deletion that failed, the end of the
\* application in the middle of either, a removal by another device.  Enrolling
\* again repairs what they left.
StatusMeansRegistered ==
    Status /\ parted = {} /\ ~dropping /\ enroll.at = "idle" => enclave \in account
=============================================================================
