-------------------------- MODULE Application_proofs --------------------------
(***************************************************************************)
(* Proofs about the desktop application: its dialog of the step-up         *)
(* (StepUp), for any number of flows and keys, and its session             *)
(* (AppSession).                                                           *)
(***************************************************************************)
EXTENDS AppSession, StepUp, TLAPS

-----------------------------------------------------------------------------
(* StepUp: which flow owns the dialog. *)

Places == {"idle", "prepare", "sign", "key", "sending", "code", "verify", "act", "over"}
Proofs == {"none", "platform", "security_key", "code"}
FlowRecords == [at : Places, proof : Proofs, settled : BOOLEAN]

\* A key's proof leads to the action and nowhere else; a flow waits for the system's sheet
\* only while it owns it; the dialog belongs to the one flow that is at it.
FlowInv ==
    /\ flow \in [Flows -> FlowRecords]
    /\ overlapped \in BOOLEAN
    /\ \A f \in Flows :
        /\ flow[f].proof \in {"platform", "security_key"} => flow[f].at \in {"act", "over"}
        /\ flow[f].at = "key" => ceremony = f
        /\ ceremony = f => flow[f].at = "key"
        /\ ~overlapped /\ AtDialog(f) /\ ~flow[f].settled => modal = f
        /\ ~overlapped /\ AtDialog(f) => \A g \in Flows \ {f} : ~AtDialog(g)

LEMMA FlowInit == Nobody \notin Flows /\ StepInit => FlowInv
<1> SUFFICES ASSUME Nobody \notin Flows, StepInit PROVE FlowInv
  OBVIOUS
<1>1. IdleFlow \in FlowRecords /\ IdleFlow.at = "idle" /\ IdleFlow.proof = "none"
  BY DEF IdleFlow, FlowRecords, Places, Proofs
<1>2. flow \in [Flows -> FlowRecords] /\ overlapped \in BOOLEAN
  BY <1>1 DEF StepInit
<1>3. \A f \in Flows : flow[f].at = "idle" /\ flow[f].proof = "none" /\ ceremony # f
  BY <1>1 DEF StepInit
<1> QED BY <1>2, <1>3 DEF FlowInv, AtDialog

\* AtDialog, of a flow's record.
InDialog(r) == r.at \in {"sending", "code", "verify"} \/ (r.at = "act" /\ r.proof = "code")

\* What a step of one flow away from the system's sheet has to respect: the others' claim
\* to the dialog, and its own.
LEMMA OneFlowMoves ==
    ASSUME FlowInv, NEW f \in Flows,
           NEW r \in FlowRecords,
           flow' = [flow EXCEPT ![f] = r], UNCHANGED ceremony,
           flow[f].at # "key", r.at # "key",
           r.proof \in {"platform", "security_key"} => r.at \in {"act", "over"},
           overlapped' \in BOOLEAN, overlapped => overlapped',
           ~overlapped' /\ InDialog(r) => \A g \in Flows \ {f} : ~AtDialog(g),
           ~overlapped' /\ InDialog(r) /\ ~r.settled => modal' = f,
           ~overlapped' => \A g \in Flows \ {f} : AtDialog(g) /\ ~flow[g].settled => modal' = g
    PROVE  FlowInv'
<1>1. flow' \in [Flows -> FlowRecords]
      /\ flow'[f] = r /\ \A g \in Flows \ {f} : flow'[g] = flow[g]
  BY DEF FlowInv
<1>2. (AtDialog(f)' <=> InDialog(r)) /\ \A g \in Flows \ {f} : AtDialog(g)' <=> AtDialog(g)
  BY <1>1 DEF AtDialog, InDialog
<1>3. ASSUME NEW g \in Flows
      PROVE  /\ flow'[g].proof \in {"platform", "security_key"} => flow'[g].at \in {"act", "over"}
             /\ flow'[g].at = "key" <=> ceremony' = g
  <2>1. CASE g = f
    BY <1>1, <2>1 DEF FlowInv
  <2>2. CASE g # f
    BY <1>1, <2>2 DEF FlowInv
  <2> QED BY <2>1, <2>2
<1>4. ASSUME NEW g \in Flows, ~overlapped', AtDialog(g)'
      PROVE  /\ ~flow'[g].settled => modal' = g
             /\ \A h \in Flows \ {g} : ~AtDialog(h)'
  <2>1. CASE g = f
    BY <1>1, <1>2, <1>4, <2>1
  <2>2. CASE g # f
    <3>1. AtDialog(g) /\ ~overlapped /\ flow'[g] = flow[g]
      BY <1>1, <1>2, <1>4, <2>2
    <3>2. ~InDialog(r)
      BY <1>4, <2>2, <3>1
    <3>3. \A h \in Flows \ {g} : ~AtDialog(h)
      BY <3>1 DEF FlowInv
    <3> QED BY <1>2, <1>4, <2>2, <3>1, <3>2, <3>3
  <2> QED BY <2>1, <2>2
<1> QED BY <1>1, <1>3, <1>4 DEF FlowInv

\* FlowGoes, Settles and the other updates of one flow, as records.
LEMMA Records ==
    ASSUME FlowInv, NEW f \in Flows, NEW at \in Places
    PROVE  /\ flow[f] \in FlowRecords
           /\ [flow[f] EXCEPT !.at = at] \in FlowRecords
           /\ [flow[f] EXCEPT !.at = at].at = at
           /\ [flow[f] EXCEPT !.at = at].proof = flow[f].proof
           /\ [flow[f] EXCEPT !.at = at].settled = flow[f].settled
BY DEF FlowInv, FlowRecords

\* A flow that is not in a dialog afterwards, the dialog being left alone.
LEMMA StepsAside ==
    ASSUME FlowInv, NEW f \in Flows, NEW r \in FlowRecords, flow' = [flow EXCEPT ![f] = r],
           r.at \in {"prepare", "sign", "over"}, r.proof = flow[f].proof,
           flow[f].at # "key", r.at = "over" \/ flow[f].proof \notin {"platform", "security_key"},
           UNCHANGED <<modal, ceremony, overlapped>>
    PROVE  FlowInv'
<1>1. ~InDialog(r) /\ r.at # "key"
  BY DEF InDialog
<1>2. overlapped' \in BOOLEAN
  BY DEF FlowInv
<1>3. ~overlapped => \A g \in Flows : AtDialog(g) /\ ~flow[g].settled => modal = g
  BY DEF FlowInv
<1> QED BY <1>1, <1>2, <1>3, OneFlowMoves

\* A flow that opens the dialog: if another was at its own, that is recorded.
LEMMA Opens ==
    ASSUME FlowInv, NEW f \in Flows, NEW at \in {"code", "sending"}, OpenModal(f, at),
           flow[f].at # "key", flow[f].proof \notin {"platform", "security_key"}
    PROVE  FlowInv'
<1> DEFINE r == [flow[f] EXCEPT !.at = at]
<1>1. flow' = [flow EXCEPT ![f] = r] /\ modal' = f /\ UNCHANGED ceremony
      /\ overlapped' = (overlapped \/ \E g \in Flows \ {f} : AtDialog(g))
  BY DEF OpenModal, FlowGoes, FlowInv
<1>2. r \in FlowRecords /\ r.at = at /\ r.proof = flow[f].proof
  <2>1. at \in Places
    BY DEF Places
  <2> QED BY <2>1, Records
<1> HIDE DEF r
<1>3. overlapped' \in BOOLEAN /\ (overlapped => overlapped')
      /\ (~overlapped' => \A g \in Flows \ {f} : ~AtDialog(g))
  BY <1>1 DEF FlowInv
<1> QED BY <1>1, <1>2, <1>3, OneFlowMoves

\* A flow at its dialog that stays there, or gives it up, or is cancelled in it.
LEMMA StaysOrLeaves ==
    ASSUME FlowInv, NEW f \in Flows, AtDialog(f), NEW r \in FlowRecords,
           flow' = [flow EXCEPT ![f] = r], UNCHANGED <<ceremony, overlapped>>,
           r.at # "key", r.proof \in {"platform", "security_key"} => r.at \in {"act", "over"},
           InDialog(r) /\ ~r.settled => ~flow[f].settled /\ modal' = modal
    PROVE  FlowInv'
<1>1. flow[f].at # "key"
  BY DEF AtDialog
<1>2. ~overlapped => \A g \in Flows \ {f} : ~AtDialog(g)
  BY DEF FlowInv
<1>3. ~overlapped /\ ~flow[f].settled => modal = f
  BY DEF FlowInv
<1>4. overlapped' \in BOOLEAN
  BY DEF FlowInv
<1> QED BY <1>1, <1>2, <1>3, <1>4, OneFlowMoves

\* FlowGoes and Settles, as the record they leave.
LEMMA GoesRecord ==
    ASSUME FlowInv, NEW f \in Flows, NEW at \in Places, FlowGoes(f, at)
    PROVE  \E r \in FlowRecords : /\ flow' = [flow EXCEPT ![f] = r]
                                  /\ r.at = at /\ r.proof = flow[f].proof
                                  /\ r.settled = flow[f].settled
<1>1. flow' = [flow EXCEPT ![f] = [flow[f] EXCEPT !.at = at]]
  BY DEF FlowGoes, FlowInv
<1> QED BY <1>1, Records

LEMMA SettlesRecord ==
    ASSUME FlowInv, NEW f \in Flows, Settles(f)
    PROVE  \E r \in FlowRecords : /\ flow' = [flow EXCEPT ![f] = r]
                                  /\ r.at = "over" /\ r.proof = flow[f].proof
<1> DEFINE there == [flow[f] EXCEPT !.at = "over"]
<1>1. flow' = [flow EXCEPT ![f] = [there EXCEPT !.settled = TRUE]]
  BY DEF Settles, FlowInv
<1>2. there \in FlowRecords /\ there.at = "over" /\ there.proof = flow[f].proof
  BY Records DEF Places
<1> HIDE DEF there
<1>3. [there EXCEPT !.settled = TRUE] \in FlowRecords /\ [there EXCEPT !.settled = TRUE].at = "over"
      /\ [there EXCEPT !.settled = TRUE].proof = flow[f].proof
  BY <1>2 DEF FlowRecords
<1> QED BY <1>1, <1>3

LEMMA AsksForCode ==
    ASSUME FlowInv, NEW f \in Flows, NEW failed \in BOOLEAN, AskForCode(f, failed),
           flow[f].at # "key", flow[f].proof \notin {"platform", "security_key"}
    PROVE  FlowInv'
<1>1. CASE OpenModal(f, "code")
  BY <1>1, Opens
<1>2. CASE OpenModal(f, "sending")
  BY <1>2, Opens
<1>3. CASE Settles(f) /\ UNCHANGED <<modal, ceremony, overlapped>>
  BY <1>3, SettlesRecord, StepsAside
<1> QED BY <1>1, <1>2, <1>3 DEF AskForCode

\* A flow at its dialog whose call comes back, or that goes on to the next one.
LEMMA Continues ==
    ASSUME FlowInv, NEW f \in Flows, AtDialog(f), NEW at \in {"sending", "code", "verify"},
           FlowGoes(f, at) \/ Resumes(f, at), UNCHANGED <<modal, ceremony, overlapped>>
    PROVE  FlowInv'
<1>1. flow[f].proof \notin {"platform", "security_key"} /\ flow[f].at # "key"
  BY DEF AtDialog, FlowInv
<1>2. CASE FlowGoes(f, at)
  <2>1. at \in Places
    BY DEF Places
  <2>2. PICK r \in FlowRecords : flow' = [flow EXCEPT ![f] = r]
          /\ r.at = at /\ r.proof = flow[f].proof /\ r.settled = flow[f].settled
    BY <1>2, <2>1, GoesRecord
  <2> QED BY <1>1, <2>2, StaysOrLeaves
<1>3. CASE FlowGoes(f, "over")
  <2>1. PICK r \in FlowRecords : flow' = [flow EXCEPT ![f] = r] /\ r.at = "over" /\ r.proof = flow[f].proof
    BY <1>3, GoesRecord DEF Places
  <2> QED BY <1>1, <2>1, StepsAside
<1> QED BY <1>2, <1>3 DEF Resumes

\* The system's sheet: the flow that takes the slot over ends the one that had it, and
\* the answer goes to the one that has it.
LEMMA SheetKeeps ==
    ASSUME FlowInv, Nobody \notin Flows, NEW f \in Flows, StartCeremony(f) \/ CeremonyEnds(f)
    PROVE  FlowInv'
<1> USE DEF FlowRecords, Places, Proofs
<1>1. CASE StartCeremony(f)
  <2>1. flow[f].at = "prepare" /\ flow[f].proof \notin {"platform", "security_key"}
    BY <1>1 DEF StartCeremony, FlowInv
  <2>2. ceremony' = f /\ UNCHANGED <<modal, overlapped>>
    BY <1>1 DEF StartCeremony, InFlight
  <2>3. flow' = [g \in Flows |-> CASE g = f -> [flow[f] EXCEPT !.at = "key"]
                                   [] g = ceremony /\ g # f -> [flow[g] EXCEPT !.at = "over", !.settled = TRUE]
                                   [] OTHER -> flow[g]]
    BY <1>1 DEF StartCeremony
  <2>4. /\ flow'[f] \in FlowRecords /\ flow'[f].at = "key" /\ flow'[f].proof = flow[f].proof
        /\ ~AtDialog(f)'
    BY <2>3 DEF FlowInv, AtDialog
  <2>5. ASSUME NEW g \in Flows \ {f}, g = ceremony
        PROVE  /\ flow'[g] \in FlowRecords /\ flow'[g].at = "over" /\ flow'[g].proof = flow[g].proof
               /\ ~AtDialog(g)'
    <3>1. flow'[g] = [flow[g] EXCEPT !.at = "over", !.settled = TRUE]
      BY <2>3, <2>5
    <3>2. flow[g] \in FlowRecords
      BY DEF FlowInv
    <3>3. flow'[g] = [at |-> "over", proof |-> flow[g].proof, settled |-> TRUE]
      BY <3>1, <3>2
    <3> QED BY <3>2, <3>3 DEF AtDialog
  <2>6. ASSUME NEW g \in Flows \ {f}, g # ceremony
        PROVE  /\ flow'[g] = flow[g] /\ flow[g] \in FlowRecords /\ flow[g].at # "key"
               /\ AtDialog(g)' <=> AtDialog(g)
    BY <2>3, <2>6 DEF FlowInv, AtDialog
  <2>7. flow' \in [Flows -> FlowRecords]
    BY <2>3, <2>4, <2>5, <2>6
  <2> QED BY <2>1, <2>2, <2>4, <2>5, <2>6, <2>7 DEF FlowInv
<1>2. CASE CeremonyEnds(f)
  <2>1. flow[f].at = "key" /\ ceremony = f /\ ceremony' = Nobody /\ UNCHANGED <<modal, overlapped>>
    BY <1>2 DEF CeremonyEnds, FlowInv
  <2>2. PICK r \in FlowRecords :
            flow' = [flow EXCEPT ![f] = r] /\ (r.at = "over" \/ (r.at = "act" /\ r.proof = "security_key"))
            /\ (r.proof \in {"platform", "security_key"} => r.at \in {"act", "over"})
    <3>1. CASE Settles(f)
      <4>1. PICK r \in FlowRecords : flow' = [flow EXCEPT ![f] = r] /\ r.at = "over"
        BY <3>1, SettlesRecord
      <4> QED BY <4>1
    <3>2. CASE flow' = [flow EXCEPT ![f].at = "act", ![f].proof = "security_key"]
      <4> DEFINE moved == [flow[f] EXCEPT !.at = "act"]
      <4>1. moved = [at |-> "act", proof |-> flow[f].proof, settled |-> flow[f].settled]
        BY DEF FlowInv
      <4>2. flow' = [flow EXCEPT ![f] = [moved EXCEPT !.proof = "security_key"]]
        BY <3>2 DEF FlowInv
      <4> HIDE DEF moved
      <4>3. [moved EXCEPT !.proof = "security_key"]
            = [at |-> "act", proof |-> "security_key", settled |-> flow[f].settled]
        BY <4>1
      <4>4. [at |-> "act", proof |-> "security_key", settled |-> flow[f].settled] \in FlowRecords
        BY DEF FlowInv
      <4> QED BY <4>2, <4>3, <4>4
    <3> QED BY <1>2, <3>1, <3>2 DEF CeremonyEnds
  <2>3. flow' \in [Flows -> FlowRecords] /\ flow'[f] = r /\ \A g \in Flows \ {f} : flow'[g] = flow[g]
    BY <2>2 DEF FlowInv
  <2>4. ~AtDialog(f)' /\ \A g \in Flows \ {f} : AtDialog(g)' <=> AtDialog(g)
    BY <2>2, <2>3 DEF AtDialog
  <2>5. \A g \in Flows \ {f} : flow[g].at # "key"
    BY <2>1 DEF FlowInv
  <2> QED BY <2>1, <2>2, <2>3, <2>4, <2>5 DEF FlowInv
<1> QED BY <1>1, <1>2

\* The dialog is closed for its owner; nobody else was at it.
LEMMA CancelKeeps == ASSUME FlowInv, NEW f \in Flows, Cancel(f) PROVE FlowInv'
<1> DEFINE closed == [flow[f] EXCEPT !.settled = TRUE]
           r == [closed EXCEPT !.at = IF @ = "code" THEN "over" ELSE @]
<1>1. modal = f /\ modal' = Nobody /\ UNCHANGED <<ceremony, overlapped>> /\ flow[f] \in FlowRecords
  BY DEF Cancel, FlowInv
<1>2. closed \in FlowRecords /\ closed.settled /\ closed.at = flow[f].at /\ closed.proof = flow[f].proof
  BY <1>1 DEF FlowRecords
<1>3. flow' = [flow EXCEPT ![f] = r]
  BY DEF Cancel, FlowInv
<1> HIDE DEF closed
<1>4. r \in FlowRecords /\ r.settled /\ r.proof = flow[f].proof
      /\ r.at = IF flow[f].at = "code" THEN "over" ELSE flow[f].at
  BY <1>2 DEF FlowRecords, Places
<1> HIDE DEF r
<1>5. flow' \in [Flows -> FlowRecords] /\ flow'[f] = r /\ \A g \in Flows \ {f} : flow'[g] = flow[g]
  BY <1>3, <1>4 DEF FlowInv
<1>6. \A g \in Flows : AtDialog(g)' => AtDialog(g)
  BY <1>4, <1>5 DEF AtDialog
<1>7. ~overlapped => \A g \in Flows \ {f} : AtDialog(g) => flow[g].settled
  BY <1>1 DEF FlowInv
<1>8. ASSUME NEW g \in Flows
      PROVE  /\ flow'[g].proof \in {"platform", "security_key"} => flow'[g].at \in {"act", "over"}
             /\ flow'[g].at = "key" <=> ceremony' = g
  <2>1. CASE g = f
    BY <1>1, <1>4, <1>5, <2>1 DEF FlowInv
  <2>2. CASE g # f
    BY <1>1, <1>5, <2>2 DEF FlowInv
  <2> QED BY <2>1, <2>2
<1>9. ASSUME NEW g \in Flows, ~overlapped, AtDialog(g)'
      PROVE  flow'[g].settled /\ \A h \in Flows \ {g} : ~AtDialog(h)'
  <2>1. \A h \in Flows \ {g} : ~AtDialog(h)'
    BY <1>6, <1>9 DEF FlowInv
  <2>2. flow'[g].settled
    BY <1>4, <1>5, <1>6, <1>7, <1>9
  <2> QED BY <2>1, <2>2
<1> QED BY <1>1, <1>5, <1>8, <1>9 DEF FlowInv

LEMMA FlowStep == Nobody \notin Flows /\ FlowInv /\ [StepNext]_stepVars => FlowInv'
<1> SUFFICES ASSUME Nobody \notin Flows, FlowInv, [StepNext]_stepVars PROVE FlowInv'
  OBVIOUS
<1>0. ASSUME NEW f \in Flows
      PROVE  /\ flow[f].at \notin {"act", "over"} => flow[f].proof \notin {"platform", "security_key"}
             /\ AtDialog(f) => flow[f].at # "key" /\ flow[f].proof \notin {"platform", "security_key"}
  BY DEF FlowInv, AtDialog
<1>1. ASSUME NEW f \in Flows, NEW at \in {"prepare", "sign", "over"}, FlowGoes(f, at),
             flow[f].at \in {"idle", "prepare", "sign"}, UNCHANGED <<modal, ceremony, overlapped>>
      PROVE  FlowInv'
  <2>1. PICK r \in FlowRecords : flow' = [flow EXCEPT ![f] = r] /\ r.at = at /\ r.proof = flow[f].proof
    BY <1>1, GoesRecord DEF Places
  <2> QED BY <1>0, <1>1, <2>1, StepsAside
<1>2. ASSUME NEW f \in Flows, Settles(f), flow[f].at # "key", UNCHANGED <<modal, ceremony, overlapped>>
      PROVE  FlowInv'
  <2>1. PICK r \in FlowRecords : flow' = [flow EXCEPT ![f] = r] /\ r.at = "over" /\ r.proof = flow[f].proof
    BY <1>2, SettlesRecord
  <2> QED BY <1>2, <2>1, StepsAside
<1>3. ASSUME NEW f \in Flows, Settles(f), AtDialog(f), UNCHANGED <<ceremony, overlapped>>
      PROVE  FlowInv'
  <2>1. PICK r \in FlowRecords : flow' = [flow EXCEPT ![f] = r] /\ r.at = "over" /\ r.proof = flow[f].proof
    BY <1>3, SettlesRecord
  <2>2. ~InDialog(r)
    BY <2>1 DEF InDialog
  <2> QED BY <1>3, <2>1, <2>2, StaysOrLeaves
<1>4. ASSUME NEW f \in Flows, Demanded(f) PROVE FlowInv'
  <2>1. flow[f].at = "idle"
    BY <1>4 DEF Demanded
  <2> QED BY <1>0, <1>1, <1>4, <2>1, AsksForCode DEF Demanded
<1>5. ASSUME NEW f \in Flows, Sign(f) PROVE FlowInv'
  <2>1. flow[f].at = "sign"
    BY <1>5 DEF Sign
  <2>2. CASE AskForCode(f, TRUE)
    BY <1>0, <2>1, <2>2, AsksForCode
  <2>3. CASE /\ flow' = [flow EXCEPT ![f].at = "act", ![f].proof = "platform"]
             /\ UNCHANGED <<modal, ceremony, overlapped>>
    <3> DEFINE moved == [flow[f] EXCEPT !.at = "act"]
               signed == [moved EXCEPT !.proof = "platform"]
    <3>1. moved \in FlowRecords /\ moved.at = "act"
      BY Records DEF Places
    <3>2. flow' = [flow EXCEPT ![f] = signed]
      BY <2>3 DEF FlowInv
    <3> HIDE DEF moved
    <3>3. signed \in FlowRecords /\ signed.at = "act" /\ signed.proof = "platform"
      BY <3>1 DEF FlowRecords, Proofs
    <3> HIDE DEF signed
    <3>4. ~InDialog(signed)
      BY <3>3 DEF InDialog
    <3>5. overlapped \in BOOLEAN
          /\ (~overlapped => \A g \in Flows : AtDialog(g) /\ ~flow[g].settled => modal = g)
      BY DEF FlowInv
    <3> QED BY <2>1, <2>3, <3>2, <3>3, <3>4, <3>5, OneFlowMoves
  <2> QED BY <1>5, <2>2, <2>3 DEF Sign
<1>6. ASSUME NEW f \in Flows, StartCeremony(f) \/ CeremonyEnds(f) PROVE FlowInv'
  BY <1>6, SheetKeeps
<1>7. ASSUME NEW f \in Flows, CeremonyFails(f) PROVE FlowInv'
  BY <1>2, <1>7 DEF CeremonyFails
<1>8. ASSUME NEW f \in Flows, Sent(f) \/ Submit(f) \/ Resend(f) PROVE FlowInv'
  <2>1. AtDialog(f) /\ UNCHANGED <<modal, ceremony, overlapped>>
    BY <1>8 DEF Sent, Submit, Resend, AtDialog
  <2> QED BY <1>8, <2>1, Continues DEF Sent, Submit, Resend
<1>9. ASSUME NEW f \in Flows, SendRefused(f) PROVE FlowInv'
  BY <1>3, <1>9 DEF SendRefused, AtDialog
<1>10. ASSUME NEW f \in Flows, Verified(f) PROVE FlowInv'
  <2>1. AtDialog(f) /\ UNCHANGED <<modal, ceremony, overlapped>>
    BY <1>10 DEF Verified, AtDialog
  <2>2. CASE Resumes(f, "code")
    BY <2>1, <2>2, Continues
  <2>3. CASE flow' = [flow EXCEPT ![f].at = "act", ![f].proof = "code"]
    <3> DEFINE moved == [flow[f] EXCEPT !.at = "act"]
               sealed == [moved EXCEPT !.proof = "code"]
    <3>1. moved \in FlowRecords /\ moved.at = "act" /\ moved.settled = flow[f].settled
      BY Records DEF Places
    <3>2. flow' = [flow EXCEPT ![f] = sealed]
      BY <2>3 DEF FlowInv
    <3> HIDE DEF moved
    <3>3. sealed \in FlowRecords /\ sealed.at = "act" /\ sealed.proof = "code" /\ sealed.settled = moved.settled
      BY <3>1 DEF FlowRecords, Proofs
    <3> HIDE DEF sealed
    <3> QED BY <2>1, <3>1, <3>2, <3>3, StaysOrLeaves
  <2> QED BY <1>10, <2>2, <2>3 DEF Verified
<1>11. ASSUME NEW f \in Flows, Cancel(f) PROVE FlowInv'
  BY <1>11, CancelKeeps
<1>12. ASSUME NEW f \in Flows, Acted(f) PROVE FlowInv'
  <2>1. CASE flow[f].proof = "code"
    BY <1>3, <1>12, <2>1 DEF Acted, AtDialog
  <2>2. CASE flow[f].proof # "code"
    BY <1>2, <1>12, <2>2 DEF Acted
  <2> QED BY <2>1, <2>2
<1>13. ASSUME NEW f \in Flows, ActionFails(f) PROVE FlowInv'
  <2>1. CASE flow[f].proof = "code"
    <3>1. AtDialog(f)
      BY <1>13, <2>1 DEF ActionFails, AtDialog
    <3> QED BY <1>13, <2>1, <3>1, Continues DEF ActionFails
  <2>2. CASE flow[f].proof # "code"
    BY <1>2, <1>13, <2>2 DEF ActionFails
  <2> QED BY <2>1, <2>2
<1>14. UNCHANGED dialog => FlowInv'
  BY DEF dialog, FlowInv, AtDialog
<1>15. ASSUME EnrollStart \/ Probed \/ Registered \/ RemoveKey \/ DropLocal
              \/ Elsewhere \/ Authenticator \/ SecurityKey \/ UNCHANGED stepVars
       PROVE  UNCHANGED dialog
  BY <1>15 DEF EnrollStart, Probed, Registered, RemoveKey, DropLocal,
                 Elsewhere, Authenticator, SecurityKey, stepVars
<1>16. CASE AppQuits
  <2>1. IdleFlow \in FlowRecords /\ IdleFlow.at = "idle" /\ IdleFlow.proof = "none"
    BY DEF IdleFlow, FlowRecords, Places, Proofs
  <2>2. flow' \in [Flows -> FlowRecords] /\ overlapped' \in BOOLEAN
    BY <1>16, <2>1 DEF AppQuits
  <2>3. \A f \in Flows : flow'[f].at = "idle" /\ flow'[f].proof = "none" /\ ceremony' # f
    BY <1>16, <2>1 DEF AppQuits
  <2> QED BY <2>2, <2>3 DEF FlowInv, AtDialog
<1> QED BY <1>4, <1>5, <1>6, <1>7, <1>8, <1>9, <1>10, <1>11, <1>12, <1>13, <1>14, <1>15, <1>16 DEF StepNext

-----------------------------------------------------------------------------
\* Every caller that waits for a proof has someone to answer it (runWithStepUp and its
\* dialog, start_on_main and its slot), however many actions are refused at a time.
THEOREM CallersAreAnswered == ASSUME Nobody \notin Flows PROVE StepSpec => []SomeoneAnswers
<1>1. StepInit => FlowInv
  BY FlowInit
<1>2. FlowInv /\ [StepNext]_stepVars => FlowInv'
  BY FlowStep
<1>3. FlowInv => SomeoneAnswers
  BY DEF FlowInv, SomeoneAnswers
<1> QED BY <1>1, <1>2, <1>3, PTL DEF StepSpec

\* A failure after a key has proved the user is reported, and never turned into a weaker
\* factor (runWithStepUp).
THEOREM KeysAreFinal == ASSUME Nobody \notin Flows PROVE StepSpec => []NoCodeAfterKey
<1>1. StepInit => FlowInv
  BY FlowInit
<1>2. FlowInv /\ [StepNext]_stepVars => FlowInv'
  BY FlowStep
<1>3. FlowInv => NoCodeAfterKey
  BY DEF FlowInv, NoCodeAfterKey, AtDialog
<1> QED BY <1>1, <1>2, <1>3, PTL DEF StepSpec

-----------------------------------------------------------------------------
(* StepUp: the two stores of a platform key. *)

\* While a key is being enrolled, the enclave holds that one or none; else it holds what is
\* on the account, unless something came between them.
StoresInv ==
    /\ made \in Nat
    /\ enroll \in [at : {"idle", "probe", "register"}, key : Nat]
    /\ enroll.at # "idle" => enclave \in {0, enroll.key}
    /\ enclave # 0 /\ parted = {} /\ ~dropping /\ enroll.at = "idle" => enclave \in account

LEMMA StoresStep == StoresInv /\ [StepNext]_stepVars => StoresInv'
<1> SUFFICES ASSUME StoresInv, [StepNext]_stepVars PROVE StoresInv'
  OBVIOUS
<1> USE DEF StoresInv
<1>1. CASE EnrollStart
  BY <1>1 DEF EnrollStart, CreateKey, DeleteKey
<1>2. CASE Probed
  <2>1. CASE enroll' = [enroll EXCEPT !.at = "register"] /\ UNCHANGED enclave
    BY <1>2, <2>1 DEF Probed
  <2>2. CASE DeleteKeyUnseen /\ enroll' = NotEnrolling
    <3>1. enclave' # 0 => parted' # {}
      BY <2>2 DEF DeleteKeyUnseen, DeleteKey
    <3> QED BY <1>2, <2>2, <3>1 DEF Probed, NotEnrolling
  <2> QED BY <1>2, <2>1, <2>2 DEF Probed
<1>3. CASE Registered
  BY <1>3 DEF Registered, NotEnrolling
<1>4. CASE RemoveKey
  BY <1>4 DEF RemoveKey
<1>5. CASE DropLocal
  BY <1>5 DEF DropLocal, DeleteKeyUnseen, DeleteKey
<1>6. CASE Elsewhere
  BY <1>6 DEF Elsewhere
<1>7. CASE UNCHANGED platform
  BY <1>7 DEF platform
<1>8. Authenticator \/ SecurityKey \/ UNCHANGED stepVars => UNCHANGED platform
  BY DEF Authenticator, SecurityKey, stepVars
<1>9. ASSUME NEW f \in Flows,
             \/ Demanded(f) \/ Sign(f) \/ StartCeremony(f) \/ CeremonyEnds(f) \/ CeremonyFails(f)
             \/ Sent(f) \/ SendRefused(f) \/ Submit(f) \/ Verified(f) \/ Resend(f) \/ Cancel(f)
             \/ Acted(f) \/ ActionFails(f)
      PROVE  UNCHANGED platform
  BY <1>9 DEF Demanded, Sign, StartCeremony, CeremonyEnds, CeremonyFails, Sent, SendRefused, Submit,
              Verified, Resend, Cancel, Acted, ActionFails, KeepsFactors
<1>10. CASE AppQuits
  <2>1. enroll # NotEnrolling => parted' # {}
    BY <1>10 DEF AppQuits
  <2>2. dropping => parted' # {}
    BY <1>10 DEF AppQuits
  <2>3. enroll.at = "idle" => account' = account
    BY <1>10 DEF AppQuits
  <2>4. parted' = {} => parted = {} /\ enroll = NotEnrolling /\ ~dropping
    BY <1>10, <2>1, <2>2 DEF AppQuits
  <2>5. enroll' = NotEnrolling /\ UNCHANGED <<made, enclave>>
    BY <1>10 DEF AppQuits
  <2> QED BY <2>3, <2>4, <2>5 DEF NotEnrolling
<1> QED BY <1>1, <1>2, <1>3, <1>4, <1>5, <1>6, <1>7, <1>8, <1>9, <1>10 DEF StepNext

\* However enrolments, removals, failed deletions and ends of the application interleave, and for
\* any number of keys, a key reported usable is one the account has (platform_key_status), if
\* nothing came between the two stores since the last enrolment that succeeded.
THEOREM StatusIsTrue == StepSpec => []StatusMeansRegistered
<1>1. StepInit => StoresInv
  BY DEF StepInit, StoresInv, NotEnrolling
<1>2. StoresInv => StatusMeansRegistered
  BY DEF StoresInv, StatusMeansRegistered, Status
<1> QED BY <1>1, <1>2, StoresStep, PTL DEF StepSpec

-----------------------------------------------------------------------------
(* AppSession: the session and the node of this device. *)

CommandSteps == {"idle", "redeem", "validate", "reauth", "info", "enroll", "persist", "rollback",
                 "bring_up", "retire", "clear", "stop"}
Urls         == {"gateway", "region"}
CommandState == [at : CommandSteps, tok : Nat, key : Nat, base : Urls]

SessionTypes ==
    /\ session \in Nat /\ sessionFile \in Nat /\ pending \in Nat /\ minted \in Nat
    /\ node \in Nat /\ agentFile \in Nat /\ nodeKey \in Nat /\ keys \in Nat
    /\ live \subseteq Nat \ {0}
    /\ base \in Urls /\ op \in [Commands -> CommandState]

Quiet(c) == op[c].at = "idle"

\* sign_out that no other command races has cleared the session once it is about to forget the
\* node; and when it has, no command and no link is left that could bring any of it back.
SignOutInv ==
    ~raced =>
        /\ ~Quiet("sign_out") => ~signedOut /\ \A c \in Commands \ {"sign_out"} : Quiet(c)
        /\ At("sign_out", "stop") => session = None /\ ("session file" \notin left => sessionFile = None)
        /\ signedOut /\ left \subseteq {"daemon"} =>
            /\ session = None /\ sessionFile = None /\ pending = None
            /\ node = 0 /\ agentFile = 0 /\ (daemon => "daemon" \in left)
            /\ \A c \in {"check", "connect", "join", "start"} : Quiet(c)

\* Between the enrolment and the file the control plane has the new key already; else the keys
\* agree, in memory too, where connect has no node to begin with.
KeyInv ==
    ~astray =>
        /\ Quiet("connect") \/ (Quiet("join") /\ node = 0)
        /\ node # 0 => node = agentFile
        /\ nodeKey # 0 => \/ agentFile = nodeKey
                          \/ \E c \in {"connect", "join"} :
                                op[c].at \in {"persist", "rollback"} /\ nodeKey = op[c].key
        /\ \A c \in {"connect", "join"} :
              op[c].at \in {"persist", "rollback"} /\ nodeKey # 0 => nodeKey = op[c].key

LEMMA GoesTo ==
    ASSUME SessionTypes, NEW c \in Commands, NEW s, Goes(c, s)
    PROVE  /\ op'[c] = s
           /\ \A d \in Commands \ {c} : op'[d] = op[d]
           /\ s \in CommandState => op' \in [Commands -> CommandState]
           /\ ~raced' => /\ ~raced
                         /\ op'["sign_out"].at # "idle" =>
                               \A d \in Commands \ {"sign_out"} : op'[d].at = "idle"
BY DEF SessionTypes, Goes

LEMMA IdleSteps ==
    /\ Idle \in CommandState /\ Idle.at = "idle"
    /\ \A a \in CommandSteps, t \in Nat, k \in Nat, u \in Urls :
        /\ [Idle EXCEPT !.at = a, !.tok = t] \in CommandState
        /\ [Idle EXCEPT !.at = a, !.tok = t, !.base = u] \in CommandState
        /\ [Idle EXCEPT !.at = a, !.key = k, !.base = u] \in CommandState
        /\ [at |-> a, tok |-> t, key |-> k, base |-> u] \in CommandState
        /\ \A s \in CommandState : [s EXCEPT !.at = a] \in CommandState
<1>1. Idle \in CommandState /\ Idle.at = "idle"
  BY DEF Idle, CommandState, CommandSteps, Urls, None
<1>2. ASSUME NEW a \in CommandSteps, NEW t \in Nat, NEW k \in Nat, NEW u \in Urls
      PROVE  /\ [Idle EXCEPT !.at = a, !.tok = t] \in CommandState
             /\ [Idle EXCEPT !.at = a, !.tok = t, !.base = u] \in CommandState
             /\ [Idle EXCEPT !.at = a, !.key = k, !.base = u] \in CommandState
  BY <1>1 DEF CommandState
<1>3. ASSUME NEW a \in CommandSteps, NEW t \in Nat, NEW k \in Nat, NEW u \in Urls
      PROVE  [at |-> a, tok |-> t, key |-> k, base |-> u] \in CommandState
  BY DEF CommandState
<1>4. ASSUME NEW a \in CommandSteps, NEW s \in CommandState
      PROVE  [s EXCEPT !.at = a] \in CommandState
  BY DEF CommandState
<1> QED BY <1>1, <1>2, <1>3, <1>4

\* A session token is issued; it is none of the earlier ones, and not None.
LEMMA Minted ==
    ASSUME SessionTypes, Mint
    PROVE  minted' \in Nat \ {0} /\ live' \subseteq Nat \ {0}
BY DEF SessionTypes, Mint

\* The session file after save_session_to_disk or clear_session_from_disk.
LEMMA SavedFile ==
    ASSUME SessionTypes
    PROVE  /\ \A tok \in Nat : Save(tok) => sessionFile' \in Nat
           /\ Clear => sessionFile' \in Nat
BY DEF SessionTypes, Save, Clear, None

LEMMA SessionTypesInit == BoundsAssumption /\ Init => SessionTypes
<1> SUFFICES ASSUME BoundsAssumption, Init PROVE SessionTypes
  OBVIOUS
<1>1. PICK enrolled \in BOOLEAN :
          /\ keys = (IF enrolled THEN 1 ELSE 0) /\ agentFile = keys /\ nodeKey = keys
          /\ minted = keys /\ sessionFile = minted /\ live = (IF enrolled THEN {1} ELSE {})
  BY DEF Init
<1>2. op \in [Commands -> CommandState]
  BY IdleSteps DEF Init
<1> QED BY <1>1, <1>2 DEF Init, SessionTypes, None, Urls

LEMMA SessionTypesStep == SessionTypes /\ [Next]_vars => SessionTypes'
<1> SUFFICES ASSUME SessionTypes, [Next]_vars PROVE SessionTypes'
  OBVIOUS
<1>1. \A c \in Commands, s \in CommandState : Goes(c, s) => op' \in [Commands -> CommandState]
  BY GoesTo
<1>2. /\ {"apply", "check", "connect", "join", "start", "sign_out"} \subseteq Commands
      /\ CommandSteps = {"idle", "redeem", "validate", "reauth", "info", "enroll", "persist", "rollback",
                         "bring_up", "retire", "clear", "stop"}
      /\ {"gateway", "region"} = Urls /\ None \in Nat /\ Handoff \in Nat /\ base \in Urls
      /\ Idle \in CommandState
  <2>1. None \in Nat /\ Handoff \in Nat
    BY BoundsAssumption DEF None, Handoff
  <2>2. base \in Urls
    BY DEF SessionTypes
  <2> QED BY <2>1, <2>2, IdleSteps, Zenon DEF Commands, CommandSteps, Urls
<1>3. \A c \in Commands : op[c] \in CommandState /\ op[c].tok \in Nat /\ op[c].key \in Nat /\ op[c].base \in Urls
  BY DEF SessionTypes, CommandState
<1>4. \A c \in Commands : Goes(c, Idle) => op' \in [Commands -> CommandState]
  BY <1>1, <1>2
<1>5. CASE ApplyStart
  <2>1. op' \in [Commands -> CommandState]
    <3>1. CASE foreign
      BY <1>1, <1>2, <1>5, <3>1, IdleSteps DEF ApplyStart
    <3>2. CASE ~foreign
      <4>1. minted' \in Nat /\ Goes("apply", [Idle EXCEPT !.at = "validate", !.tok = minted'])
        BY <1>5, <3>2, Minted DEF ApplyStart
      <4> QED BY <1>1, <1>2, <4>1, IdleSteps
    <3> QED BY <3>1, <3>2
  <2>2. minted' \in Nat /\ live' \subseteq Nat \ {0} /\ base' \in Urls
    BY <1>2, <1>5, Minted DEF ApplyStart, SessionTypes, UpdateRegion
  <2> QED BY <1>5, <2>1, <2>2 DEF ApplyStart, SessionTypes, disk, world
<1>6. CASE Redeemed
  <2>1. minted' \in Nat \ {0} /\ live' \subseteq Nat \ {0}
    BY <1>6, Minted DEF Redeemed
  <2>2. op' \in [Commands -> CommandState]
    BY <1>1, <1>2, <1>6, <2>1, IdleSteps DEF Redeemed
  <2> QED BY <1>6, <2>1, <2>2 DEF Redeemed, SessionTypes, memory, disk, world
<1>7. ASSUME NEW c \in {"apply", "join"}, Applied(c) \/ ApplyFails(c) PROVE SessionTypes'
  <2>1. op' \in [Commands -> CommandState]
    BY <1>2, <1>4, <1>7 DEF Applied, ApplyFails
  <2>2. CASE Applied(c)
    <3>1. sessionFile' \in Nat
      BY <1>2, <1>3, <1>7, <2>2, SavedFile DEF Applied, SignIn, Commands
    <3> QED BY <1>2, <1>3, <1>7, <2>1, <2>2, <3>1 DEF Applied, SignIn, UpdateRegion, SessionTypes, cp
  <2> QED BY <1>7, <2>1, <2>2 DEF ApplyFails, SessionTypes, memory, disk, cp, world
<1>8. CASE DeepLink
  <2>1. minted' \in Nat /\ live' \subseteq Nat \ {0} /\ pending' \in Nat
    BY <1>2, <1>8, Minted DEF DeepLink, SessionTypes
  <2> QED BY <1>8, <2>1 DEF DeepLink, SessionTypes, disk, world
<1>9. TryReauth => op' \in [Commands -> CommandState]
  <2>1. Identity \in Nat
    BY DEF Identity, StoredIdentity, SessionTypes
  <2> QED BY <1>1, <1>2, <2>1, IdleSteps DEF TryReauth
<1>10. CASE CheckStart
  <2>1. session' \in Nat /\ pending' \in Nat
    BY <1>2, <1>10 DEF CheckStart, TakePending, SessionTypes
  <2>2. op' \in [Commands -> CommandState]
    BY <1>1, <1>2, <1>9, <1>10, <2>1, IdleSteps DEF CheckStart
  <2> QED BY <1>10, <2>1, <2>2 DEF CheckStart, SessionTypes, disk, cp, world
<1>11. CASE CheckValid \/ CheckInvalid
  BY <1>2, <1>4, <1>9, <1>11 DEF CheckValid, CheckInvalid, UpdateRegion, SessionTypes, disk, cp, world
<1>12. CASE Refreshed \/ Reauthed
  <2>1. CASE Refreshed
    <3>1. minted' \in Nat \ {0} /\ live' \subseteq Nat \ {0}
      BY <2>1, Minted DEF Refreshed
    <3>2. [op["check"] EXCEPT !.at = "info", !.tok = minted'] \in CommandState
      BY <1>2, <1>3, <3>1 DEF CommandState
    <3>3. op' \in [Commands -> CommandState]
      BY <1>1, <1>2, <2>1, <3>2 DEF Refreshed
    <3> QED BY <2>1, <3>1, <3>3 DEF Refreshed, SessionTypes, memory, disk, world
  <2>2. CASE Reauthed
    <3>1. sessionFile' \in Nat
      BY <1>2, <1>3, <2>2, SavedFile DEF Reauthed, SignIn
    <3>2. op' \in [Commands -> CommandState] /\ session' \in Nat /\ base' \in Urls
      BY <1>2, <1>3, <1>4, <2>2 DEF Reauthed, SignIn, UpdateRegion
    <3> QED BY <2>2, <3>1, <3>2 DEF Reauthed, SessionTypes, cp
  <2> QED BY <1>12, <2>1, <2>2
<1>13. CASE ReauthRefused \/ ReauthInconclusive
  <2>1. op' \in [Commands -> CommandState]
    BY <1>2, <1>4, <1>13 DEF ReauthRefused, LogOut, ReauthInconclusive
  <2>2. CASE ReauthRefused
    BY <1>2, <2>1, <2>2, SavedFile DEF ReauthRefused, LogOut, SessionTypes, cp
  <2>3. CASE ReauthInconclusive
    BY <2>1, <2>3 DEF ReauthInconclusive, SessionTypes, disk, cp, world
  <2> QED BY <1>13, <2>2, <2>3
<1>14. CASE ConnectStart
  <2>1. PICK k \in Keys : /\ KeyToEnrol(k)
                          /\ Goes("connect", [at |-> "enroll", tok |-> session, key |-> k, base |-> base])
    BY <1>14 DEF ConnectStart
  <2>2. k \in Nat /\ keys' \in Nat
    BY <2>1, BoundsAssumption DEF Keys, KeyToEnrol, SessionTypes
  <2>3. op' \in [Commands -> CommandState]
    BY <1>1, <1>2, <2>1, <2>2, IdleSteps DEF SessionTypes
  <2> QED BY <1>14, <2>2, <2>3 DEF ConnectStart, SessionTypes, memory, disk, cp
<1>15. CASE JoinStart
  <2>1. keys' \in Nat
    BY <1>15 DEF JoinStart, SessionTypes
  <2>2. op' \in [Commands -> CommandState]
    BY <1>1, <1>2, <1>15, <2>1, IdleSteps DEF JoinStart
  <2> QED BY <1>15, <2>1, <2>2 DEF JoinStart, SessionTypes, memory, disk, cp
<1>16. ASSUME NEW c \in {"connect", "join"}, Enrolled(c) \/ EnrollFails(c) PROVE SessionTypes'
  <2>1. op' \in [Commands -> CommandState]
    BY <1>1, <1>2, <1>3, <1>16, IdleSteps DEF Enrolled, EnrollFails
  <2> QED BY <1>2, <1>3, <1>16, <2>1 DEF Enrolled, EnrollFails, SessionTypes, memory, disk, cp, world
<1>17. ASSUME NEW c \in {"connect", "join"}, Persisted(c) PROVE SessionTypes'
  <2>1. minted' \in Nat /\ live' \subseteq Nat \ {0}
    BY <1>17, Minted DEF Persisted, SessionTypes
  <2>2. op' \in [Commands -> CommandState]
    BY <1>1, <1>2, <1>17, <2>1, IdleSteps DEF Persisted
  <2> QED BY <1>2, <1>3, <1>17, <2>1, <2>2 DEF Persisted, WriteState, SessionTypes, world
<1>18. ASSUME NEW c \in {"connect", "join"}, PersistFails(c) PROVE SessionTypes'
  <2>1. op' \in [Commands -> CommandState]
    BY <1>1, <1>2, <1>3, <1>18, IdleSteps DEF PersistFails
  <2> QED BY <1>2, <1>3, <1>18, <2>1 DEF PersistFails, SessionTypes, cp
<1>19. CASE Rollback \/ Disconnect
  <2>1. CASE Rollback
    <3>1. op' \in [Commands -> CommandState] /\ nodeKey' \in Nat
      BY <1>2, <1>4, <2>1 DEF Rollback, Delete, SessionTypes
    <3> QED BY <2>1, <3>1 DEF Rollback, SessionTypes, memory, disk, world
  <2>2. CASE Disconnect
    BY <2>2 DEF Disconnect, SessionTypes, disk, cp, world
  <2> QED BY <1>19, <2>1, <2>2
<1>20. CASE StartDataplane \/ BringUp \/ StopDataplane
  <2>1. op' \in [Commands -> CommandState]
    BY <1>1, <1>2, <1>20, IdleSteps DEF StartDataplane, BringUp, StopDataplane, SessionTypes
  <2> QED BY <1>20, <2>1 DEF StartDataplane, BringUp, StopDataplane, SessionTypes, memory, disk, cp, world
<1>21. CASE SignOut
  <2>1. op' \in [Commands -> CommandState]
    BY <1>1, <1>2, <1>3, <1>21, IdleSteps
       DEF SignOut, SignOutStart, Retire, ClearSession, ForgetNode, SessionTypes
  <2>2. CASE SignOutStart
    BY <2>1, <2>2 DEF SignOutStart, SessionTypes, memory, disk, cp, world
  <2>3. CASE Retire
    <3>1. nodeKey' \in Nat
      BY <2>3 DEF Retire, Delete, SessionTypes
    <3> QED BY <2>1, <2>3, <3>1 DEF Retire, SessionTypes, memory, disk, world
  <2>4. CASE ClearSession
    BY <1>2, <2>1, <2>4, SavedFile DEF ClearSession, SessionTypes, cp
  <2>5. CASE ForgetNode
    <3>1. agentFile' \in Nat
      BY <2>5 DEF ForgetNode, SessionTypes
    <3> QED BY <2>1, <2>5, <3>1 DEF ForgetNode, SessionTypes, cp
  <2> QED BY <1>21, <2>2, <2>3, <2>4, <2>5 DEF SignOut
<1>22. CASE Expire \/ Removed
  <2>1. nodeKey' \in Nat /\ live' \subseteq live
    BY <1>22 DEF Expire, Removed, SessionTypes
  <2> QED BY <1>22, <2>1 DEF Expire, Removed, SessionTypes, memory, disk
<1>23. CASE Restart
  BY <1>2, <1>23 DEF Restart, SessionTypes, disk, cp
<1>24. CASE UNCHANGED vars
  BY <1>24 DEF vars, memory, disk, cp, world, SessionTypes
<1> QED
  BY <1>5, <1>6, <1>7, <1>8, <1>10, <1>11, <1>12, <1>13, <1>14, <1>15, <1>16, <1>17, <1>18, <1>19,
     <1>20, <1>21, <1>22, <1>23, <1>24
     DEF Next

LEMMA SignOutInit == Init => SignOutInv
BY IdleSteps DEF Init, SignOutInv, Quiet, At, Commands

\* A step of another command.  sign_out at its last await has no other command beside it, so
\* that a command which leaves the session with nobody knowing moves from rest to rest; after
\* signing out, the only command that can be under way is an apply.
LEMMA OtherStep ==
    ASSUME SessionTypes, SignOutInv, NEW c \in Commands \ {"sign_out"}, NEW s, Goes(c, s),
           Quiet(c) /\ s.at = "idle" => UNCHANGED <<session, sessionFile>>,
           UNCHANGED left, signedOut' => signedOut,
           signedOut' =>
               \/ c # "apply" /\ ~Quiet(c)
               \/ session # None \/ node # 0 \/ agentFile # 0 \/ pending # None
               \/ /\ UNCHANGED <<session, sessionFile, pending, node, agentFile, daemon>>
                  /\ c = "apply" \/ s.at = "idle"
    PROVE  SignOutInv'
<1> SUFFICES ASSUME ~raced' PROVE SignOutInv!2'
  BY DEF SignOutInv
<1>1. /\ ~raced /\ op'[c] = s
      /\ \A d \in Commands \ {c} : op'[d] = op[d]
      /\ op'["sign_out"].at # "idle" => \A d \in Commands \ {"sign_out"} : op'[d].at = "idle"
  BY GoesTo
<1>2. "sign_out" \in Commands \ {c} /\ {"check", "connect", "join", "start"} \subseteq Commands
  BY DEF Commands
<1>3. At("sign_out", "stop")' => session' = None /\ ("session file" \notin left' => sessionFile' = None)
  <2> SUFFICES ASSUME At("sign_out", "stop")'
               PROVE  session' = None /\ ("session file" \notin left' => sessionFile' = None)
    OBVIOUS
  <2>1. op["sign_out"].at = "stop" /\ s.at = "idle"
    BY <1>1, <1>2 DEF At
  <2>2. Quiet(c) /\ session = None /\ ("session file" \notin left => sessionFile = None)
    BY <1>1, <2>1 DEF SignOutInv, Quiet, At
  <2> QED BY <2>1, <2>2
<1>4. signedOut' /\ left' \subseteq {"daemon"}
          => /\ session' = None /\ sessionFile' = None /\ pending' = None
             /\ node' = 0 /\ agentFile' = 0 /\ (daemon' => "daemon" \in left')
             /\ \A d \in {"check", "connect", "join", "start"} : Quiet(d)'
  <2> SUFFICES ASSUME signedOut', left' \subseteq {"daemon"}
               PROVE  /\ session' = None /\ sessionFile' = None /\ pending' = None
                      /\ node' = 0 /\ agentFile' = 0 /\ (daemon' => "daemon" \in left')
                      /\ \A d \in {"check", "connect", "join", "start"} : Quiet(d)'
    OBVIOUS
  <2>1. /\ session = None /\ sessionFile = None /\ pending = None
        /\ node = 0 /\ agentFile = 0 /\ (daemon => "daemon" \in left)
        /\ \A d \in {"check", "connect", "join", "start"} : Quiet(d)
    BY <1>1 DEF SignOutInv
  <2>2. c # "apply" => Quiet(c)
    BY <2>1 DEF Commands
  <2>3. /\ UNCHANGED <<session, sessionFile, pending, node, agentFile, daemon>>
        /\ c = "apply" \/ s.at = "idle"
    BY <2>1, <2>2
  <2>4. \A d \in {"check", "connect", "join", "start"} : op'[d].at = "idle"
    BY <1>1, <1>2, <2>1, <2>3 DEF Quiet
  <2> QED BY <2>1, <2>3, <2>4 DEF Quiet
<1>5. ~Quiet("sign_out")' => ~signedOut' /\ \A d \in Commands \ {"sign_out"} : Quiet(d)'
  <2>1. op'["sign_out"] = op["sign_out"]
    BY <1>1, <1>2
  <2>2. ~Quiet("sign_out") => ~signedOut
    BY <1>1 DEF SignOutInv
  <2> QED BY <1>1, <2>1, <2>2 DEF Quiet
<1> QED BY <1>1, <1>3, <1>4, <1>5

\* A step no command makes, that keeps the session and starts nothing.
LEMMA StepBeside ==
    ASSUME SignOutInv, UNCHANGED <<op, raced, session, sessionFile, left, agentFile>>,
           signedOut' => signedOut /\ UNCHANGED pending,
           node' \in {node, 0}, daemon' => daemon
    PROVE  SignOutInv'
BY DEF SignOutInv, Quiet, At

LEMMA SignOutSteps == SessionTypes /\ SignOutInv /\ SignOut => SignOutInv'
<1> SUFFICES ASSUME SessionTypes, SignOutInv, SignOut, ~raced' PROVE SignOutInv!2'
  BY DEF SignOutInv
<1> USE DEF At, Quiet
<1>1. "sign_out" \in Commands /\ {"check", "connect", "join", "start"} \subseteq Commands \ {"sign_out"}
  BY DEF Commands
<1>2. ASSUME NEW s, Goes("sign_out", s)
      PROVE  /\ ~raced /\ op'["sign_out"] = s
             /\ \A d \in Commands \ {"sign_out"} : op'[d] = op[d]
             /\ s.at # "idle" => \A d \in Commands \ {"sign_out"} : op'[d].at = "idle"
  BY <1>1, <1>2, GoesTo
<1>3. CASE SignOutStart
  <2>1. PICK s : Goes("sign_out", s) /\ s.at \in {"retire", "clear"}
    BY <1>3 DEF SignOutStart
  <2>2. ~signedOut'
    BY <1>3 DEF SignOutStart
  <2> QED BY <1>1, <1>2, <2>1, <2>2
<1>4. CASE Retire
  <2>1. PICK s : Goes("sign_out", s) /\ s.at = "clear"
    <3>1. [op["sign_out"] EXCEPT !.at = "clear"].at = "clear"
      BY <1>1 DEF SessionTypes, CommandState
    <3> QED BY <1>4, <3>1 DEF Retire
  <2>2. ~signedOut'
    BY <1>2, <1>4, <2>1 DEF Retire, SignOutInv
  <2> QED BY <1>1, <1>2, <2>1, <2>2
<1>5. CASE ClearSession
  <2>1. PICK s : Goes("sign_out", s) /\ s.at = "stop"
    <3>1. [op["sign_out"] EXCEPT !.at = "stop"].at = "stop"
      BY <1>1 DEF SessionTypes, CommandState
    <3> QED BY <1>5, <3>1 DEF ClearSession
  <2>2. ~signedOut'
    BY <1>2, <1>5, <2>1 DEF ClearSession, SignOutInv
  <2>3. session' = None /\ ("session file" \notin left' => sessionFile' = None)
    BY <1>5 DEF ClearSession
  <2> QED BY <1>1, <1>2, <2>1, <2>2, <2>3
<1>6. CASE ForgetNode
  <2>1. Goes("sign_out", Idle) /\ op["sign_out"].at = "stop"
    BY <1>6 DEF ForgetNode
  <2>2. /\ session = None /\ ("session file" \notin left => sessionFile = None)
        /\ \A d \in Commands \ {"sign_out"} : op[d].at = "idle"
    BY <1>2, <2>1 DEF SignOutInv
  <2>3. UNCHANGED <<session, sessionFile, pending>> /\ node' = 0
    BY <1>6 DEF ForgetNode
  <2>4. /\ left \subseteq left'
        /\ daemon' => "daemon" \in left'
        /\ agentFile' # 0 => "agent.json" \in left'
        /\ pending # None => "link" \in left'
    BY <1>6 DEF ForgetNode
  <2>5. \A d \in Commands : op'[d].at = "idle"
    <3>1. op'["sign_out"].at = "idle"
      BY <1>2, <2>1, IdleSteps
    <3>2. \A d \in Commands \ {"sign_out"} : op'[d].at = "idle"
      BY <1>2, <2>1, <2>2
    <3> QED BY <3>1, <3>2
  <2>6. left' \subseteq {"daemon"} => "session file" \notin left /\ agentFile' = 0 /\ pending = None
    BY <2>4
  <2> QED BY <1>1, <2>2, <2>3, <2>4, <2>5, <2>6
<1> QED BY <1>3, <1>4, <1>5, <1>6 DEF SignOut

LEMMA SignOutStep == SessionTypes /\ SignOutInv /\ [Next]_vars => SignOutInv'
<1> SUFFICES ASSUME SessionTypes, SignOutInv, [Next]_vars PROVE SignOutInv'
  OBVIOUS
<1>1. /\ {"apply", "check", "connect", "join", "start"} = Commands \ {"sign_out"}
      /\ Idle.at = "idle"
  BY IdleSteps DEF Commands
<1>2. CASE ApplyStart
  <2>1. PICK s : Goes("apply", s) /\ s.at # "idle"
    <3>1. CASE foreign
      <4>1. Goes("apply", [Idle EXCEPT !.at = "redeem", !.tok = Handoff])
        BY <1>2, <3>1 DEF ApplyStart
      <4>2. [Idle EXCEPT !.at = "redeem", !.tok = Handoff].at = "redeem"
        BY DEF Idle
      <4> QED BY <4>1, <4>2
    <3>2. CASE ~foreign
      <4>1. Goes("apply", [Idle EXCEPT !.at = "validate", !.tok = minted'])
        BY <1>2, <3>2 DEF ApplyStart
      <4>2. [Idle EXCEPT !.at = "validate", !.tok = minted'].at = "validate"
        BY DEF Idle
      <4> QED BY <4>1, <4>2
    <3> QED BY <3>1, <3>2
  <2> QED BY <1>1, <1>2, <2>1, OtherStep DEF ApplyStart, disk
<1>3. CASE Redeemed
  <2>1. PICK s : Goes("apply", s)
    BY <1>3 DEF Redeemed
  <2> QED BY <1>1, <1>3, <2>1, OtherStep DEF Redeemed, memory, disk
<1>4. ASSUME NEW c \in {"apply", "join"}, Applied(c) PROVE SignOutInv'
  BY <1>1, <1>4, OtherStep DEF Applied, At, Quiet
<1>5. ASSUME NEW c \in {"apply", "join"}, ApplyFails(c) PROVE SignOutInv'
  BY <1>1, <1>5, OtherStep DEF ApplyFails, memory, disk
<1>6. CASE DeepLink
  BY <1>6, StepBeside DEF DeepLink, disk, history
<1>7. CASE CheckStart
  <2>1. PICK s : /\ Goes("check", s)
                 /\ session' # None => s.at # "idle"
                 /\ session' = None => s.at = "idle" \/ node # 0 \/ agentFile # 0
    BY <1>1, <1>7 DEF CheckStart, TryReauth, Identity, StoredIdentity, Idle
  <2>2. UNCHANGED <<sessionFile, node, agentFile, daemon, signedOut, left>>
    BY <1>7 DEF CheckStart, disk
  <2>3. CASE session = None /\ pending # None
    <3>1. session' # None
      BY <1>7, <2>3 DEF CheckStart, TakePending
    <3> QED BY <1>1, <2>1, <2>2, <2>3, <3>1, OtherStep
  <2>4. CASE ~(session = None /\ pending # None)
    <3>1. UNCHANGED <<session, pending>>
      BY <1>7, <2>4 DEF CheckStart
    <3> QED BY <1>1, <2>1, <2>2, <3>1, OtherStep
  <2> QED BY <2>3, <2>4
<1>8. CASE CheckValid \/ CheckInvalid \/ Refreshed \/ Reauthed \/ ReauthRefused \/ ReauthInconclusive
  <2>1. ~Quiet("check") /\ \E s : Goes("check", s)
    BY <1>8 DEF CheckValid, CheckInvalid, TryReauth, Refreshed, Reauthed, ReauthRefused, LogOut,
                ReauthInconclusive, At, Quiet
  <2>2. UNCHANGED <<signedOut, left>>
    BY <1>8 DEF CheckValid, CheckInvalid, Refreshed, Reauthed, ReauthRefused, LogOut, ReauthInconclusive
  <2> QED BY <1>1, <2>1, <2>2, OtherStep
<1>9. CASE ConnectStart \/ JoinStart
  <2>1. CASE ConnectStart
    <3>1. PICK s : Goes("connect", s)
      BY <2>1 DEF ConnectStart
    <3> QED BY <1>1, <2>1, <3>1, OtherStep DEF ConnectStart, memory, disk
  <2>2. CASE JoinStart
    <3>1. PICK s : Goes("join", s)
      BY <2>2 DEF JoinStart
    <3> QED BY <1>1, <2>2, <3>1, OtherStep DEF JoinStart, memory, disk
  <2> QED BY <1>9, <2>1, <2>2
<1>10. ASSUME NEW c \in {"connect", "join"}, Enrolled(c) \/ EnrollFails(c) \/ Persisted(c) \/ PersistFails(c)
       PROVE  SignOutInv'
  <2>1. ~Quiet(c) /\ \E s : Goes(c, s)
    BY <1>10 DEF Enrolled, EnrollFails, Persisted, PersistFails, At, Quiet
  <2>2. UNCHANGED <<signedOut, left>>
    BY <1>10 DEF Enrolled, EnrollFails, Persisted, PersistFails
  <2> QED BY <1>1, <2>1, <2>2, OtherStep
<1>11. CASE Rollback \/ BringUp
  <2>1. PICK c \in {"connect", "start"} : ~Quiet(c) /\ Goes(c, Idle)
    BY <1>11 DEF Rollback, BringUp, At, Quiet
  <2>2. UNCHANGED <<signedOut, left>>
    BY <1>11 DEF Rollback, BringUp
  <2> QED BY <1>1, <2>1, <2>2, OtherStep
<1>12. CASE Disconnect
  BY <1>12, StepBeside DEF Disconnect, disk, history
<1>13. CASE StartDataplane
  <2>1. PICK s : Goes("start", s)
    BY <1>13 DEF StartDataplane
  <2> QED BY <1>1, <1>13, <2>1, OtherStep DEF StartDataplane, memory, disk
<1>14. CASE StopDataplane
  BY <1>14, StepBeside DEF StopDataplane, memory, disk, history
<1>15. CASE SignOut
  BY <1>15, SignOutSteps
<1>16. CASE Expire \/ Removed
  <2>1. UNCHANGED <<op, raced, session, sessionFile, pending, signedOut, left, agentFile, node, daemon>>
    BY <1>16 DEF Expire, Removed, memory, disk, history
  <2> QED BY <2>1, StepBeside
<1>17. CASE Restart
  <2>1. \A c \in Commands : op'[c].at = "idle"
    BY <1>1, <1>17 DEF Restart
  <2>2. "sign_out" \in Commands /\ {"check", "connect", "join", "start"} \subseteq Commands
    BY DEF Commands
  <2>3. /\ ~raced' => ~raced
        /\ session' = sessionFile /\ pending' = None /\ node' = 0 /\ (daemon' => daemon)
        /\ UNCHANGED <<sessionFile, agentFile, signedOut, left>>
    <3>1. ~raced' => ~raced
      BY <1>17 DEF Restart
    <3>2. daemon' => daemon
      BY <1>17, Zenon DEF Restart
    <3>3. /\ session' = sessionFile /\ pending' = None /\ node' = 0
          /\ UNCHANGED <<sessionFile, agentFile, signedOut, left>>
      BY <1>17 DEF Restart, disk
    <3> QED BY <3>1, <3>2, <3>3
  <2> QED BY <2>1, <2>2, <2>3 DEF SignOutInv, Quiet, At
<1>18. CASE UNCHANGED vars
  <2>1. UNCHANGED <<op, raced, session, sessionFile, pending, signedOut, left, agentFile, node, daemon>>
    BY <1>18 DEF vars, memory, disk, history
  <2> QED BY <2>1, StepBeside
<1> QED
  BY <1>2, <1>3, <1>4, <1>5, <1>6, <1>7, <1>8, <1>9, <1>10, <1>11, <1>12, <1>13, <1>14, <1>15,
     <1>16, <1>17, <1>18
     DEF Next

LEMMA KeyInit == Init => KeyInv
<1> SUFFICES ASSUME Init PROVE KeyInv
  OBVIOUS
<1>1. agentFile = nodeKey /\ node = 0
  BY DEF Init
<1>2. \A c \in Commands : op[c].at = "idle"
  BY IdleSteps DEF Init
<1>3. {"connect", "join"} \subseteq Commands
  BY DEF Commands
<1> QED BY <1>1, <1>2, <1>3 DEF KeyInv, Quiet

Pending(c) == op[c].at \in {"persist", "rollback"}

\* A step that enrols nothing: the node may be lost, by the control plane or in memory, and an
\* enrolment end that has not reached the control plane.
LEMMA StepKeepsKeys ==
    ASSUME KeyInv, UNCHANGED <<agentFile, astray>>, node' \in {node, 0}, nodeKey' \in {nodeKey, 0},
           \A c \in {"connect", "join"} :
               op'[c] = op[c] \/ (op'[c].at = "idle" /\ ~Pending(c))
    PROVE  KeyInv'
BY DEF KeyInv, Quiet, Pending

LEMMA OtherKeepsKeys ==
    ASSUME SessionTypes, KeyInv, NEW c \in Commands, NEW s, Goes(c, s),
           c \notin {"connect", "join"} \/ (s.at = "idle" /\ ~Pending(c)),
           UNCHANGED <<agentFile, astray>>, node' \in {node, 0}, nodeKey' \in {nodeKey, 0}
    PROVE  KeyInv'
<1>1. \A d \in {"connect", "join"} : op'[d] = op[d] \/ (op'[d].at = "idle" /\ ~Pending(d))
  BY GoesTo DEF Commands
<1> QED BY <1>1, StepKeepsKeys

\* connect and join are never both beyond rest, where nothing went astray.
LEMMA EnrollSteps ==
    ASSUME SessionTypes, KeyInv, NEW c \in {"connect", "join"},
           Enrolled(c) \/ EnrollFails(c) \/ Persisted(c) \/ PersistFails(c)
    PROVE  KeyInv'
<1> SUFFICES ASSUME ~astray' PROVE KeyInv!2'
  BY DEF KeyInv
<1> DEFINE other == IF c = "connect" THEN "join" ELSE "connect"
<1>1. /\ c \in Commands /\ other \in Commands \ {c} /\ {c, other} = {"connect", "join"}
      /\ op[c] \in CommandState /\ Idle.at = "idle"
  BY IdleSteps DEF Commands, SessionTypes
<1>2. ~astray
  BY DEF Enrolled, EnrollFails, Persisted, PersistFails
<1>3. Quiet(other) /\ (c = "connect" => node = 0) /\ ~Quiet(c)
  BY <1>1, <1>2 DEF KeyInv, Quiet, Enrolled, EnrollFails, Persisted, PersistFails, At
<1>4. ASSUME NEW s, Goes(c, s) PROVE op'[c] = s /\ op'[other] = op[other]
  BY <1>1, <1>4, GoesTo
<1> HIDE DEF other
<1>5. ASSUME op'[other].at = "idle",
             c = "connect" => op'[c].at = "idle" \/ node' = 0,
             node' # 0 => node' = agentFile',
             nodeKey' # 0 => agentFile' = nodeKey' \/ (Pending(c)' /\ nodeKey' = op'[c].key),
             Pending(c)' /\ nodeKey' # 0 => nodeKey' = op'[c].key
      PROVE  KeyInv!2'
  BY <1>1, <1>5 DEF Quiet, Pending
<1>6. CASE Enrolled(c)
  <2>1. Goes(c, [op[c] EXCEPT !.at = "persist"]) /\ nodeKey' = op[c].key
    BY <1>6 DEF Enrolled
  <2>2. [op[c] EXCEPT !.at = "persist"].at = "persist" /\ [op[c] EXCEPT !.at = "persist"].key = op[c].key
    BY <1>1 DEF CommandState
  <2>3. UNCHANGED <<node, agentFile>> /\ (node # 0 => node = agentFile)
    BY <1>2, <1>6 DEF Enrolled, memory, disk, KeyInv
  <2> QED BY <1>3, <1>4, <1>5, <2>1, <2>2, <2>3 DEF Quiet, Pending
<1>7. CASE EnrollFails(c)
  <2>1. KeyInv'
    BY <1>1, <1>7, OtherKeepsKeys DEF EnrollFails, At, Pending, memory, disk, cp
  <2> QED BY <2>1 DEF KeyInv
<1>8. CASE Persisted(c)
  <2>1. PICK s : Goes(c, s) /\ s.at \in {"idle", "validate"} /\ (s.at = "idle" \/ c = "join")
    <3>1. [Idle EXCEPT !.at = "validate", !.tok = minted'].at = "validate"
      BY DEF Idle
    <3> QED BY <1>1, <1>8, <3>1 DEF Persisted
  <2>2. agentFile' = op[c].key /\ node' = agentFile' /\ nodeKey' = nodeKey
    BY <1>8 DEF Persisted, WriteState
  <2>3. nodeKey # 0 => nodeKey = op[c].key
    BY <1>2, <1>8 DEF Persisted, At, KeyInv
  <2> QED BY <1>3, <1>4, <1>5, <2>1, <2>2, <2>3 DEF Quiet, Pending
<1>9. CASE PersistFails(c)
  <2>1. c = "connect" /\ Goes(c, [op[c] EXCEPT !.at = "rollback"]) /\ node' = node
    BY <1>9 DEF PersistFails
  <2>2. [op[c] EXCEPT !.at = "rollback"].at = "rollback" /\ [op[c] EXCEPT !.at = "rollback"].key = op[c].key
    BY <1>1 DEF CommandState
  <2>3. nodeKey' = nodeKey /\ (nodeKey # 0 => nodeKey = op[c].key)
    BY <1>2, <1>9 DEF PersistFails, At, cp, KeyInv
  <2> QED BY <1>3, <1>4, <1>5, <2>1, <2>2, <2>3 DEF Quiet, Pending
<1> QED BY <1>6, <1>7, <1>8, <1>9

LEMMA KeyStep == SessionTypes /\ KeyInv /\ [Next]_vars => KeyInv'
<1> SUFFICES ASSUME SessionTypes, KeyInv, [Next]_vars PROVE KeyInv'
  OBVIOUS
<1> USE DEF memory, disk, cp
<1>1. Commands = {"check", "connect", "join", "apply", "sign_out", "start"} /\ Idle.at = "idle"
  BY IdleSteps DEF Commands
<1>2. CASE ApplyStart \/ Redeemed
  <2>1. \E s : Goes("apply", s)
    BY <1>2 DEF ApplyStart, Redeemed
  <2>2. UNCHANGED <<agentFile, astray, node, nodeKey>>
    BY <1>2 DEF ApplyStart, Redeemed
  <2> QED BY <1>1, <2>1, <2>2, OtherKeepsKeys
<1>3. ASSUME NEW c \in {"apply", "join"}, Applied(c) \/ ApplyFails(c) PROVE KeyInv'
  <2>1. Goes(c, Idle) /\ ~Pending(c)
    BY <1>3 DEF Applied, ApplyFails, At, Pending
  <2>2. UNCHANGED <<agentFile, astray, node, nodeKey>>
    BY <1>3 DEF Applied, ApplyFails
  <2> QED BY <1>1, <2>1, <2>2, OtherKeepsKeys
<1>4. CASE CheckStart \/ CheckValid \/ CheckInvalid \/ Refreshed \/ Reauthed \/ ReauthRefused \/ ReauthInconclusive
  <2>1. \E s : Goes("check", s)
    BY <1>4 DEF CheckStart, TryReauth, CheckValid, CheckInvalid, Refreshed, Reauthed, ReauthRefused, LogOut,
                ReauthInconclusive
  <2>2. UNCHANGED <<agentFile, astray, nodeKey>> /\ node' \in {node, 0}
    BY <1>4 DEF CheckStart, CheckValid, CheckInvalid, Refreshed, Reauthed, ReauthRefused, LogOut,
                ReauthInconclusive
  <2> QED BY <1>1, <2>1, <2>2, OtherKeepsKeys
<1>5. CASE ConnectStart \/ JoinStart
  <2>0. PICK c \in {"connect", "join"} :
            (\E s : Goes(c, s) /\ s.at = "enroll") /\ (c = "connect" => node = 0)
    <3>1. ConnectStart => node = 0 /\ \E s : Goes("connect", s) /\ s.at = "enroll"
      BY DEF ConnectStart
    <3>2. JoinStart => \E s : Goes("join", s) /\ s.at = "enroll"
      BY DEF JoinStart
    <3> QED BY <1>5, <3>1, <3>2
  <2>1. PICK s : Goes(c, s) /\ s.at = "enroll" /\ (c = "connect" => node = 0)
    BY <2>0
  <2>2. UNCHANGED <<agentFile, node, nodeKey>> /\ astray' = (astray \/ Enrolling # {})
    BY <1>5 DEF ConnectStart, JoinStart
  <2>3. /\ op'[c] = s
        /\ \A d \in {"connect", "join"} \ {c} : op'[d] = op[d]
    BY <1>1, <2>1, GoesTo
  <2>4. ~astray' => ~astray /\ Quiet("connect") /\ Quiet("join")
    BY <2>2 DEF Enrolling, Quiet
  <2> QED BY <2>1, <2>2, <2>3, <2>4 DEF KeyInv, Quiet
<1>6. ASSUME NEW c \in {"connect", "join"}, Enrolled(c) \/ EnrollFails(c) \/ Persisted(c) \/ PersistFails(c)
      PROVE  KeyInv'
  BY <1>6, EnrollSteps
<1>7. CASE Rollback
  <2>1. Goes("connect", Idle) /\ UNCHANGED <<agentFile, node>> /\ ~Quiet("connect")
    BY <1>7 DEF Rollback, At, Quiet
  <2>2. ~astray' => ~astray /\ nodeKey' = 0
    BY <1>7 DEF Rollback, Delete
  <2>3. op'["connect"].at = "idle" /\ op'["join"] = op["join"]
    BY <1>1, <2>1, GoesTo
  <2> QED BY <2>1, <2>2, <2>3 DEF KeyInv, Quiet
<1>8. CASE Disconnect \/ StopDataplane \/ DeepLink
  <2>1. UNCHANGED <<op, agentFile, astray, nodeKey>> /\ node' \in {node, 0}
    BY <1>8 DEF Disconnect, StopDataplane, DeepLink, history
  <2> QED BY <2>1, StepKeepsKeys
<1>9. CASE StartDataplane \/ BringUp
  <2>1. (\E s : Goes("start", s)) /\ UNCHANGED <<agentFile, astray, node, nodeKey>>
    BY <1>9 DEF StartDataplane, BringUp
  <2> QED BY <1>1, <2>1, OtherKeepsKeys
<1>10. CASE SignOutStart \/ Retire \/ ClearSession
  <2>1. \E s : Goes("sign_out", s)
    BY <1>10 DEF SignOutStart, Retire, ClearSession
  <2>2. UNCHANGED <<agentFile, astray, node>> /\ nodeKey' \in {nodeKey, 0}
    BY <1>10 DEF SignOutStart, Retire, ClearSession, Delete
  <2> QED BY <1>1, <2>1, <2>2, OtherKeepsKeys
<1>11. CASE ForgetNode
  <2>1. Goes("sign_out", Idle) /\ node' = 0 /\ nodeKey' = nodeKey
        /\ astray' = (astray \/ nodeKey # 0)
    BY <1>11 DEF ForgetNode
  <2>2. op'["connect"] = op["connect"] /\ op'["join"] = op["join"]
    BY <1>1, <2>1, GoesTo
  <2> QED BY <2>1, <2>2 DEF KeyInv, Quiet
<1>12. CASE Expire \/ Removed
  <2>1. UNCHANGED <<op, agentFile, astray, node>> /\ nodeKey' \in {nodeKey, 0}
    BY <1>12 DEF Expire, Removed, history
  <2> QED BY <2>1, StepKeepsKeys
<1>13. CASE Restart
  <2>1. op'["connect"].at = "idle" /\ op'["join"].at = "idle"
    BY <1>1, <1>13 DEF Restart
  <2>2. /\ node' = 0 /\ UNCHANGED <<agentFile, nodeKey>>
        /\ ~astray' => ~astray /\ Quiet("connect") /\ Quiet("join")
    BY <1>13 DEF Restart, Enrolling, Quiet
  <2> QED BY <2>1, <2>2 DEF KeyInv, Quiet
<1>14. CASE UNCHANGED vars
  <2>1. UNCHANGED <<op, agentFile, astray, node, nodeKey>>
    BY <1>14 DEF vars, history
  <2> QED BY <2>1, StepKeepsKeys
<1> QED
  BY <1>2, <1>3, <1>4, <1>5, <1>6, <1>7, <1>8, <1>9, <1>10, <1>11, <1>12, <1>13, <1>14
     DEF Next, SignOut

\* Signing out that no other command races leaves no session, in memory or on disk, no node and
\* no daemon, and none of it comes back until the user signs in: no check, connect or start that
\* is under way can bring it, for none is.  What sign_out could not remove is excepted, and a
\* link it still held.
THEOREM SigningOutIsLasting == Spec => []SignedOutStaysOut
<1>1. Init => SessionTypes /\ SignOutInv
  BY BoundsAssumption, SessionTypesInit, SignOutInit
<1>2. (SessionTypes /\ SignOutInv) /\ [Next]_vars => (SessionTypes /\ SignOutInv)'
  BY SessionTypesStep, SignOutStep
<1>3. SignOutInv => SignedOutStaysOut
  BY DEF SignOutInv, SignedOutStaysOut
<1> QED BY <1>1, <1>2, <1>3, PTL DEF Spec

\* Connects, invites and their rollbacks one after the other: whenever none is under way, the key
\* of the device's node at the control plane is the one in agent.json, and so is the one in
\* memory; between the two, the enrolment that knows the key is still there to write it.
THEOREM TheKeysAgree == Spec => []KeysAgree
<1>1. Init => SessionTypes /\ KeyInv
  BY BoundsAssumption, SessionTypesInit, KeyInit
<1>2. (SessionTypes /\ KeyInv) /\ [Next]_vars => (SessionTypes /\ KeyInv)'
  BY SessionTypesStep, KeyStep
<1>3. KeyInv => KeysAgree
  BY DEF KeyInv, KeysAgree, Enrolling
<1> QED BY <1>1, <1>2, <1>3, PTL DEF Spec

\* While the control plane vouches for the device and no sign_out is under way, no step of any
\* command takes the stored session away and leaves none in memory: not an expired one, not a
\* request without an answer, not a file that cannot be written.  The check alone may, where the
\* session it was just issued is refused in its turn.
THEOREM VouchedDevicesStayIn == Spec => VouchedStaysIn
<1>1. ASSUME SessionTypes, [Next]_vars, ~foreign, trusted, nodeKey # 0, sessionFile # None,
             At("sign_out", "idle"), At("check", "info") => op["check"].tok \in live
      PROVE  sessionFile' # None \/ session' # None
  <2>1. live \subseteq Nat \ {0}
    BY <1>1 DEF SessionTypes
  <2>2. ASSUME NEW c \in {"apply", "join"}, Applied(c) PROVE session' # None
    BY <2>1, <2>2 DEF Applied, Valid, SignIn, None
  <2>3. Reauthed => session' # None
    BY <2>1 DEF Reauthed, Valid, SignIn, None
  <2>4. ~ReauthRefused
    BY <1>1 DEF ReauthRefused, Vouches, Valid, Serves
  <2>5. ~ClearSession
    BY <1>1 DEF ClearSession, At
  <2>6. ApplyStart \/ Redeemed \/ DeepLink \/ CheckStart \/ CheckValid \/ CheckInvalid \/ Refreshed
        \/ ReauthInconclusive \/ ConnectStart \/ JoinStart \/ Rollback \/ Disconnect
            => UNCHANGED sessionFile
    BY DEF ApplyStart, Redeemed, DeepLink, CheckStart, CheckValid, CheckInvalid, Refreshed,
           ReauthInconclusive, ConnectStart, JoinStart, Rollback, Disconnect, disk
  <2>7. ASSUME NEW c \in {"apply", "join"}, ApplyFails(c) PROVE UNCHANGED sessionFile
    BY <2>7 DEF ApplyFails, disk
  <2>8. ASSUME NEW c \in {"connect", "join"},
               Enrolled(c) \/ EnrollFails(c) \/ Persisted(c) \/ PersistFails(c)
        PROVE  UNCHANGED sessionFile
    BY <2>8 DEF Enrolled, EnrollFails, Persisted, PersistFails, disk
  <2>9. StartDataplane \/ BringUp \/ StopDataplane \/ SignOutStart \/ Retire \/ ForgetNode
        \/ Expire \/ Removed \/ Restart \/ UNCHANGED vars
            => UNCHANGED sessionFile
    BY DEF StartDataplane, BringUp, StopDataplane, SignOutStart, Retire, ForgetNode, Expire,
           Removed, Restart, vars, disk
  <2> QED
    BY <1>1, <2>2, <2>3, <2>4, <2>5, <2>6, <2>7, <2>8, <2>9 DEF Next, SignOut
<1>2. Init => SessionTypes
  BY BoundsAssumption, SessionTypesInit
<1>3. SessionTypes /\ [Next]_vars => SessionTypes'
  BY SessionTypesStep
<1>4. SessionTypes /\ [Next]_vars
          => [~foreign /\ trusted /\ nodeKey # 0 /\ sessionFile # None /\ At("sign_out", "idle")
                /\ (At("check", "info") => op["check"].tok \in live)
                  => sessionFile' # None \/ session' # None]_vars
  BY <1>1
<1> QED BY <1>2, <1>3, <1>4, PTL DEF Spec, VouchedStaysIn

\* The comment at check_auth_state, with what it leaves out: a re-authentication brings back a
\* deliberate sign-out only where a command raced that sign_out, or where it could not remove
\* a file, or held a link (ReauthRespectsSignOut without the condition does not hold of the code).
THEOREM ReauthRespectsUnracedSignOut ==
    Spec => [][Reauthed => ~signedOut \/ raced \/ ~(left \subseteq {"daemon"})]_vars
<1>1. ASSUME SignOutInv, Reauthed PROVE ~signedOut \/ raced \/ ~(left \subseteq {"daemon"})
  BY <1>1 DEF SignOutInv, Reauthed, At, Quiet
<1>2. Init => SessionTypes /\ SignOutInv
  BY BoundsAssumption, SessionTypesInit, SignOutInit
<1>3. (SessionTypes /\ SignOutInv) /\ [Next]_vars => (SessionTypes /\ SignOutInv)'
  BY SessionTypesStep, SignOutStep
<1>4. (SessionTypes /\ SignOutInv) /\ [Next]_vars
          => [Reauthed => ~signedOut \/ raced \/ ~(left \subseteq {"daemon"})]_vars
  BY <1>1
<1> QED BY <1>2, <1>3, <1>4, PTL DEF Spec
=============================================================================
