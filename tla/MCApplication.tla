---------------------------- MODULE MCApplication ----------------------------
(***************************************************************************)
(* The desktop application and what it has the system run for it, in one   *)
(* run: the session (AppSession); the dialog of the step-up (StepUp) with  *)
(* one key made on this device, or its keys alone, no flow under way; the  *)
(* service of Windows (WinSupervisor); the helper of macOS (MacHelper)     *)
(* seen from two sides, its processes and the identity it hands them.      *)
(* They share no state, so one of them moves and the others stay as they   *)
(* began.                                                                  *)
(***************************************************************************)
EXTENDS AppSession, StepUp, WinSupervisor, MacHelper

VARIABLE part  \* what moves

MCInit ==
    /\ Init /\ StepInit /\ WinInit /\ MacInit
    /\ \/ part = "session" /\ ~(foreign /\ gated) /\ aal = 2 /\ ~recovery /\ account = {} /\ ~totp
       \/ part \in {"dialog", "keys"} /\ ~gated /\ ~foreign /\ keys = 0
       \/ /\ part \in {"windows", "processes", "identity"}
          /\ ~gated /\ ~foreign /\ keys = 0 /\ aal = 2 /\ ~recovery /\ account = {} /\ ~totp

\* Every request to the helper, two at a time; no enrolment and no renewal.
Processes == MacNext /\ UNCHANGED <<identity, issued, unsaved, cut>>

\* Starts only, one at a time and of one session, of two agents at most, and MaxGen + 1
\* tokens given out to two identities; what the status file names and how an agent takes a
\* signal do not matter then.
Identities ==
    /\ MacNext /\ pids' <= 2 /\ UNCHANGED status
    /\ issued'[1] + issued'[2] <= MaxGen + 1
    /\ asked'[2] = NoRequest /\ asked'[1].cmd \in {"none", "start"}
    /\ asked'[1].token \in {"none", CHOOSE t \in Tokens : TRUE}
    /\ \A p \in DOMAIN procs' : procs'[p] = "agent"

MCNext ==
    \/ part = "session" /\ Next /\ UNCHANGED <<part, stepVars, winVars, macVars>>
    \/ part = "dialog" /\ StepNext /\ made' <= 1 /\ UNCHANGED <<part, vars, winVars, macVars>>
    \/ part = "keys" /\ UNCHANGED <<part, vars, dialog, winVars, macVars>> /\ StepNext
    \/ part = "windows" /\ WinNext /\ UNCHANGED <<part, vars, stepVars, macVars>>
    \/ part = "processes" /\ Processes /\ UNCHANGED <<part, vars, stepVars, winVars>>
    \/ part = "identity" /\ Identities /\ UNCHANGED <<part, vars, stepVars, winVars>>

MCSpec == MCInit /\ [][MCNext]_<<part, vars, stepVars, winVars, macVars>>
=============================================================================
