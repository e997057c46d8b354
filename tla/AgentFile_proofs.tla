--------------------------- MODULE AgentFile_proofs ---------------------------
(***************************************************************************)
(* Proofs about AgentFile, for any number of tokens, CRLs, enrolments,     *)
(* crashes and failures of the file.                                       *)
(***************************************************************************)
EXTENDS AgentFile, TLAPS

USE ConstantsAssumption

-----------------------------------------------------------------------------
(* Types. *)

\* Every keypair but the first costs an enrolment.
KeyBudget == keys + credit <= 1 + Enrolments

TypeInv == TypeOK /\ KeyBudget

LEMMA TypeInit == Init => TypeInv
<1> SUFFICES ASSUME Init PROVE TypeInv
  OBVIOUS
<1>1. PICK enrolled \in {TRUE, FALSE}, token \in {NoToken, 1} :
        /\ ~enrolled => token = NoToken
        /\ file = IF enrolled THEN File("ok", [key |-> 1, token |-> token, crl |-> 0])
                  ELSE File("absent", Blank)
        /\ keys = (IF enrolled THEN 1 ELSE 0) /\ nodeKey = keys
        /\ valid = token /\ stored = [token |-> token, crl |-> 0]
  BY DEF Init
<1>2. file \in Files /\ keys \in Keys /\ valid \in Tokens /\ stored \in [token : Tokens, crl : Crls]
  BY <1>1 DEF Files, File, States, Blank, Keys, Tokens, Crls, NoToken
<1>3. Blank \in States /\ NoToken \in Tokens /\ 0 \in Crls
  BY DEF Blank, States, Keys, Tokens, Crls, NoToken
<1>4. fresh \in [Tasks -> Nat] /\ fresh["renewal"] \in Tokens /\ fresh["crl"] \in Crls
  BY DEF Init, Tasks, Tokens, Crls
<1>5. KeyBudget
  BY <1>1 DEF Init, KeyBudget
<1> QED BY <1>1, <1>2, <1>3, <1>4, <1>5 DEF Init, TypeInv, TypeOK, Keys

\* What persist_state is given is a state.
LEMMA ChangedType ==
    ASSUME TypeOK, NEW w \in Tasks
    PROVE  Changed(w) \in States
BY DEF TypeOK, Changed, Tasks, Files, States

LEMMA TypeStep == TypeInv /\ [Next]_vars => TypeInv'
<1> SUFFICES ASSUME TypeInv, [Next]_vars PROVE TypeInv'
  OBVIOUS
<1> USE DEF TypeInv
<1>0. Blank \in States /\ NoToken \in Tokens /\ 0 \in Crls /\ Writers = {"renewal", "crl", "enrol"}
  BY DEF Blank, States, Keys, Tokens, Crls, NoToken, Writers, Tasks
<1>1. CASE StartFromFile
  BY <1>1 DEF StartFromFile, TypeOK, KeyBudget, Files, States
<1>2. CASE StartEnrolling
  <2>1. nodeKey' \in Keys /\ keys' \in Keys /\ credit' \in 0..Enrolments /\ KeyBudget'
    BY <1>2 DEF StartEnrolling, TypeOK, KeyBudget, Keys, Files, States
  <2>2. valid' \in Tokens
    BY <1>2 DEF StartEnrolling, TypeOK, Tokens
  <2>3. [key |-> nodeKey', token |-> valid', crl |-> 0] \in States
    BY <1>0, <2>1, <2>2 DEF States
  <2>4. buf' \in [Writers -> States] /\ pc' \in [Writers -> {"sleep", "posted", "publish", "load", "open", "write"}]
    BY <1>2, <2>3 DEF StartEnrolling, Goto, TypeOK
  <2> QED BY <1>2, <2>1, <2>2, <2>4 DEF StartEnrolling, TypeOK
<1>3. CASE StartFails
  BY <1>3 DEF StartFails, vars, TypeOK, KeyBudget
<1>4. CASE PostRenewal
  BY <1>0, <1>4 DEF PostRenewal, Goto, TypeOK, KeyBudget
<1>5. CASE RenewalAnswered
  BY <1>0, <1>5 DEF RenewalAnswered, Goto, TypeOK, KeyBudget, Tasks, Tokens
<1>6. CASE RenewalFails
  BY <1>0, <1>6 DEF RenewalFails, Goto, Blame, TypeOK, KeyBudget, Causes
<1>7. CASE Publish
  BY <1>7 DEF Publish, Goto, TypeOK, KeyBudget
<1>8. CASE FetchCrl
  <2>1. latestCrl \in Crls /\ latestCrl \in Nat
    BY DEF TypeOK, Crls
  <2>2. fresh' \in [Tasks -> Nat] /\ fresh'["renewal"] \in Tokens /\ fresh'["crl"] \in Crls
    BY <1>8, <2>1 DEF FetchCrl, TypeOK, Tasks
  <2> QED BY <1>8, <2>2 DEF FetchCrl, Goto, TypeOK, KeyBudget
<1>9. ASSUME NEW t \in Tasks, Load(t) PROVE TypeInv'
  <2>1. Changed(t) \in States
    BY ChangedType
  <2>2. buf' \in [Writers -> States]
    BY <1>9, <2>1 DEF Load, TypeOK, Writers
  <2>3. pc' \in [Writers -> {"sleep", "posted", "publish", "load", "open", "write"}]
    BY <1>9 DEF Load, Goto, TypeOK
  <2>4. causes' \subseteq Causes
    BY <1>9 DEF Load, Blame, TypeOK, Causes
  <2> QED BY <1>9, <2>2, <2>3, <2>4 DEF Load, TypeOK, KeyBudget
<1>10. ASSUME NEW w \in Writers, Truncate(w) PROVE TypeInv'
  <2>1. file' \in Files
    BY <1>0, <1>10 DEF Truncate, Files, File
  <2>2. causes' \subseteq Causes
    BY <1>10 DEF Truncate, Blame, TypeOK, Causes
  <2> QED BY <1>10, <2>1, <2>2 DEF Truncate, Goto, TypeOK, KeyBudget
<1>11. ASSUME NEW w \in Writers, Write(w) PROVE TypeInv'
  <2>1. buf[w] \in States
    BY DEF TypeOK
  <2>2. file' \in Files
    BY <1>0, <1>11, <2>1 DEF Write, Written, Files, File
  <2>3. stored' \in [token : Tokens, crl : Crls]
    BY <1>0, <1>11, <2>1 DEF Write, Store, TypeOK, States
  <2>4. cell' \in Tokens
    BY <1>11, <2>1 DEF Write, TypeOK, States
  <2> QED BY <1>11, <2>2, <2>3, <2>4 DEF Write, Goto, TypeOK, KeyBudget
<1>12. ASSUME NEW token \in wire, Rotate(token) PROVE TypeInv'
  <2>0. valid' \in Tokens /\ wire' \subseteq Tokens
    <3>1. valid \in 0..MaxTokens /\ valid < MaxTokens /\ valid' = valid + 1
      BY <1>12 DEF Rotate, TypeOK, Tokens
    <3>2. wire' = wire \ {token} /\ wire \subseteq Tokens
      BY <1>12 DEF Rotate, TypeOK
    <3>3. valid' \in Tokens
      BY <3>1 DEF Tokens
    <3> QED BY <3>2, <3>3
  <2>1. reply' \in Tokens
    <3>1. reply' \in {valid', reply}
      BY <1>12 DEF Rotate
    <3> QED BY <2>0, <3>1 DEF TypeOK
  <2>2. causes' \subseteq Causes
    BY <1>12 DEF Rotate, Blame, TypeOK, Causes
  <2> QED BY <1>12, <2>0, <2>1, <2>2 DEF Rotate, TypeOK, KeyBudget
<1>13. CASE PublishCrl
  BY <1>13 DEF PublishCrl, TypeOK, KeyBudget, Crls
<1>14. CASE Crash
  <2>1. causes' \subseteq Causes
    BY <1>14 DEF Crash, TypeOK, Causes
  <2>2. fresh' \in [Tasks -> Nat] /\ fresh'["renewal"] \in Tokens /\ fresh'["crl"] \in Crls
    BY <1>0, <1>14 DEF Crash, Tasks, NoToken
  <2>3. pc' \in [Writers -> {"sleep", "posted", "publish", "load", "open", "write"}]
    BY <1>14 DEF Crash
  <2>4. buf' \in [Writers -> States]
    BY <1>0, <1>14 DEF Crash
  <2>5. daemon' \in {"down", "enrolling", "up"} /\ faults' \in 0..MaxFaults
    <3>1. faults \in 0..MaxFaults /\ faults < MaxFaults /\ faults' = faults + 1
      BY <1>14 DEF Crash, TypeOK
    <3>2. faults' \in 0..MaxFaults
      BY <3>1
    <3> QED BY <1>14, <3>2 DEF Crash
  <2>6. cell' \in Tokens /\ reply' \in Tokens
    BY <1>0, <1>14 DEF Crash
  <2> QED BY <1>14, <2>1, <2>2, <2>3, <2>4, <2>5, <2>6 DEF Crash, TypeOK, KeyBudget
<1>15. CASE UNCHANGED vars
  BY <1>15 DEF vars, TypeOK, KeyBudget
<1>16. ASSUME NEW w \in Writers, PersistFails(w) PROVE TypeInv'
  <2>1. file' \in Files
    <3>1. File("torn", Blank) \in Files /\ file \in Files
      BY <1>0 DEF TypeOK, Files, File
    <3> QED BY <1>16, <3>1 DEF PersistFails
  <2>2. causes' \subseteq Causes
    BY <1>16 DEF PersistFails, TypeOK, Causes
  <2>3. faults' \in 0..MaxFaults
    <3>1. faults \in 0..MaxFaults /\ faults < MaxFaults /\ faults' = faults + 1
      BY <1>16 DEF PersistFails, TypeOK
    <3> QED BY <3>1
  <2>4. /\ pc' \in [Writers -> {"sleep", "posted", "publish", "load", "open", "write"}]
        /\ daemon' \in {"down", "enrolling", "up"}
    BY <1>16 DEF PersistFails, Goto, TypeOK
  <2> QED BY <1>16, <2>1, <2>2, <2>3, <2>4 DEF PersistFails, TypeOK, KeyBudget
<1> QED BY <1>1, <1>2, <1>3, <1>4, <1>5, <1>6, <1>7, <1>8, <1>9, <1>10, <1>11, <1>12, <1>13,
           <1>14, <1>15, <1>16 DEF Next, Renewal

\* Type correctness: agent.json, the token cell, the writers' buffers and the
\* requests under way stay what up.rs declares them to be.
THEOREM TypeCorrect == Spec => []TypeOK
<1>1. TypeInv => TypeOK
  BY DEF TypeInv
<1> QED BY <1>1, TypeInit, TypeStep, PTL DEF Spec

-----------------------------------------------------------------------------
(* The key in the file, and the token in memory. *)

\* The tasks run while the daemon is up, an enrolment writes before that.
PhaseInv ==
    /\ daemon # "up" => \A t \in Tasks : pc[t] = "sleep"
    /\ daemon # "enrolling" => pc["enrol"] = "sleep"
    /\ daemon = "enrolling" => pc["enrol"] \in {"open", "write"}

\* What a writer is about to write has the node's key.
KeyInv ==
    /\ FileKeyIsRegistered
    /\ \A w \in Writers : Writing(w) => buf[w].key = nodeKey

\* A token travels from the reply to fresh, to memory, to a buffer and to the
\* file, and is never older than what comes after it on this way.
TokenInv ==
    /\ FileNeverAhead
    /\ At("renewal", "posted") /\ reply # NoToken => cell <= reply
    /\ At("renewal", "publish") => cell <= fresh["renewal"]
    /\ At("renewal", "load") => fresh["renewal"] <= cell
    /\ daemon = "up" => \A t \in Tasks : Writing(t) => buf[t].token <= cell

IInv == PhaseInv /\ KeyInv /\ TokenInv

LEMMA IInvInit == Init => IInv
<1> SUFFICES ASSUME Init PROVE IInv
  OBVIOUS
<1>1. PhaseInv /\ \A w \in Writers : ~Writing(w)
  BY DEF Init, PhaseInv, Tasks, Writers, Writing
<1>2. KeyInv
  <2>1. file.status = "ok" => file.state.key = nodeKey
    BY DEF Init, File
  <2> QED BY <1>1, <2>1 DEF KeyInv, FileKeyIsRegistered
<1>3. TokenInv
  <2>1. daemon = "down" /\ pc["renewal"] = "sleep"
    BY DEF Init, Writers, Tasks
  <2> QED BY <2>1 DEF TokenInv, FileNeverAhead, At
<1> QED BY <1>1, <1>2, <1>3 DEF IInv

LEMMA PhaseStep == TypeOK /\ PhaseInv /\ [Next]_vars => PhaseInv'
<1> SUFFICES ASSUME TypeOK /\ PhaseInv, [Next]_vars PROVE PhaseInv'
  OBVIOUS
<1>0. pc \in [Writers -> {"sleep", "posted", "publish", "load", "open", "write"}] 
      /\ Tasks = {"renewal", "crl"} /\ Writers = {"renewal", "crl", "enrol"}
  BY DEF TypeOK, Tasks, Writers
<1>1. CASE StartFromFile
  BY <1>0, <1>1 DEF StartFromFile, PhaseInv, At, Goto
<1>2. CASE StartEnrolling
  BY <1>0, <1>2 DEF StartEnrolling, PhaseInv, At, Goto
<1>3. CASE StartFails
  BY <1>0, <1>3 DEF StartFails, vars, PhaseInv, At, Goto
<1>4. CASE PostRenewal
  BY <1>0, <1>4 DEF PostRenewal, PhaseInv, At, Goto
<1>5. CASE RenewalAnswered
  BY <1>0, <1>5 DEF RenewalAnswered, PhaseInv, At, Goto
<1>6. CASE RenewalFails
  BY <1>0, <1>6 DEF RenewalFails, PhaseInv, At, Goto
<1>7. CASE Publish
  BY <1>0, <1>7 DEF Publish, PhaseInv, At, Goto
<1>8. CASE FetchCrl
  BY <1>0, <1>8 DEF FetchCrl, PhaseInv, At, Goto
<1>9. ASSUME NEW t \in Tasks, Load(t) PROVE PhaseInv'
  BY <1>0, <1>9 DEF Load, PhaseInv, At, Goto
<1>10. ASSUME NEW w \in Writers, Truncate(w) PROVE PhaseInv'
  BY <1>0, <1>10 DEF Truncate, PhaseInv, At, Goto
<1>11. ASSUME NEW w \in Writers, Write(w) PROVE PhaseInv'
  BY <1>0, <1>11 DEF Write, PhaseInv, At, Goto
<1>12. ASSUME NEW token \in wire, Rotate(token) PROVE PhaseInv'
  BY <1>0, <1>12 DEF Rotate, PhaseInv, At, Goto
<1>13. CASE PublishCrl
  BY <1>0, <1>13 DEF PublishCrl, PhaseInv, At, Goto
<1>14. CASE Crash
  BY <1>0, <1>14 DEF Crash, PhaseInv, At, Goto
<1>15. CASE UNCHANGED vars
  BY <1>0, <1>15 DEF vars, PhaseInv, At, Goto
<1>16. ASSUME NEW w \in Writers, PersistFails(w) PROVE PhaseInv'
  BY <1>0, <1>16 DEF PersistFails, PhaseInv, At, Goto
<1> QED BY <1>1, <1>2, <1>3, <1>4, <1>5, <1>6, <1>7, <1>8, <1>9, <1>10, <1>11, <1>12, <1>13, <1>14, <1>15, <1>16
        DEF Next, Renewal

LEMMA KeyStep == TypeOK /\ PhaseInv /\ KeyInv /\ [Next]_vars => KeyInv'
<1> SUFFICES ASSUME TypeOK /\ PhaseInv /\ KeyInv, [Next]_vars PROVE KeyInv'
  OBVIOUS
<1>0. pc \in [Writers -> {"sleep", "posted", "publish", "load", "open", "write"}] /\ buf \in [Writers -> States] /\ file \in Files
      /\ Tasks = {"renewal", "crl"} /\ Writers = {"renewal", "crl", "enrol"}
  BY DEF TypeOK, Tasks, Writers
<1>1. CASE StartFromFile
  BY <1>0, <1>1 DEF StartFromFile, KeyInv, FileKeyIsRegistered, Writing, At, Goto
<1>2. CASE StartEnrolling
  BY <1>0, <1>2 DEF StartEnrolling, PhaseInv, KeyInv, FileKeyIsRegistered, Writing, Goto
<1>3. CASE StartFails
  BY <1>0, <1>3 DEF StartFails, vars, KeyInv, FileKeyIsRegistered, Writing, At, Goto
<1>4. CASE PostRenewal
  BY <1>0, <1>4 DEF PostRenewal, KeyInv, FileKeyIsRegistered, Writing, At, Goto
<1>5. CASE RenewalAnswered
  BY <1>0, <1>5 DEF RenewalAnswered, KeyInv, FileKeyIsRegistered, Writing, At, Goto
<1>6. CASE RenewalFails
  BY <1>0, <1>6 DEF RenewalFails, KeyInv, FileKeyIsRegistered, Writing, At, Goto
<1>7. CASE Publish
  BY <1>0, <1>7 DEF Publish, KeyInv, FileKeyIsRegistered, Writing, At, Goto
<1>8. CASE FetchCrl
  BY <1>0, <1>8 DEF FetchCrl, KeyInv, FileKeyIsRegistered, Writing, At, Goto
<1>9. ASSUME NEW t \in Tasks, Load(t) PROVE KeyInv'
  <2>1. Changed(t).key = file.state.key
    BY <1>0 DEF Changed, Files, States
  <2> QED BY <1>0, <1>9, <2>1 DEF Load, KeyInv, FileKeyIsRegistered, Writing, At, Goto
<1>10. ASSUME NEW w \in Writers, Truncate(w) PROVE KeyInv'
  BY <1>0, <1>10 DEF Truncate, KeyInv, FileKeyIsRegistered, Writing, At, Goto, File
<1>11. ASSUME NEW w \in Writers, Write(w) PROVE KeyInv'
  <2>1. file'.status = "ok" => file'.state.key = buf[w].key
    BY <1>11 DEF Write, Written, File
  <2> QED BY <1>0, <1>11, <2>1 DEF Write, KeyInv, FileKeyIsRegistered, Writing, At, Goto
<1>12. ASSUME NEW token \in wire, Rotate(token) PROVE KeyInv'
  BY <1>0, <1>12 DEF Rotate, KeyInv, FileKeyIsRegistered, Writing, At, Goto
<1>13. CASE PublishCrl
  BY <1>0, <1>13 DEF PublishCrl, KeyInv, FileKeyIsRegistered, Writing, At, Goto
<1>14. CASE Crash
  BY <1>0, <1>14 DEF Crash, KeyInv, FileKeyIsRegistered, Writing, At, Goto
<1>15. CASE UNCHANGED vars
  BY <1>0, <1>15 DEF vars, KeyInv, FileKeyIsRegistered, Writing, At, Goto
<1>16. ASSUME NEW w \in Writers, PersistFails(w) PROVE KeyInv'
  <2>1. file'.status = "ok" => file' = file
    <3>1. file' = file \/ file' = File("torn", Blank)
      BY <1>16 DEF PersistFails
    <3> QED BY <3>1 DEF File
  <2>2. pc' = [pc EXCEPT ![w] = "sleep"] /\ daemon' \in {daemon, "down"}
    BY <1>16 DEF PersistFails, Goto
  <2> QED BY <1>0, <1>16, <2>1, <2>2 DEF PersistFails, KeyInv, FileKeyIsRegistered, Writing
<1> QED BY <1>1, <1>2, <1>3, <1>4, <1>5, <1>6, <1>7, <1>8, <1>9, <1>10, <1>11, <1>12, <1>13, <1>14, <1>15, <1>16
        DEF Next, Renewal

LEMMA TokenStep == TypeOK /\ PhaseInv /\ TokenInv /\ [Next]_vars => TokenInv'
<1> SUFFICES ASSUME TypeOK /\ PhaseInv /\ TokenInv, [Next]_vars PROVE TokenInv'
  OBVIOUS
<1>0. pc \in [Writers -> {"sleep", "posted", "publish", "load", "open", "write"}] /\ buf \in [Writers -> States] /\ file \in Files
      /\ Tasks = {"renewal", "crl"} /\ Writers = {"renewal", "crl", "enrol"}
      /\ cell \in Int /\ reply \in Int /\ valid \in Int /\ fresh \in [Tasks -> Int]
      /\ file.state.token \in Int /\ \A w \in Writers : buf[w].token \in Int
  <2>1. States = [key : Keys, token : Tokens, crl : Crls] /\ \A x \in Tokens : x \in Int
    BY DEF States, Tokens
  <2>2. file.state \in States /\ \A w \in Writers : buf[w] \in States
    BY DEF TypeOK, Files
  <2>3. file.state.token \in Int /\ \A w \in Writers : buf[w].token \in Int
    BY <2>1, <2>2
  <2> QED BY <2>1, <2>3 DEF TypeOK, Tasks, Writers
<1>1. CASE StartFromFile
  BY <1>0, <1>1 DEF StartFromFile, TokenInv, FileNeverAhead, PhaseInv, Writing, At, Files, States, Tokens
<1>2. CASE StartEnrolling
  BY <1>0, <1>2 DEF StartEnrolling, TokenInv, FileNeverAhead, PhaseInv, Writing, At, Goto
<1>3. CASE StartFails
  BY <1>0, <1>3 DEF StartFails, vars, TokenInv, FileNeverAhead, PhaseInv, Writing, At, Goto
<1>4. CASE PostRenewal
  BY <1>0, <1>4 DEF PostRenewal, TokenInv, FileNeverAhead, PhaseInv, Writing, At, Goto
<1>5. CASE RenewalAnswered
  BY <1>0, <1>5 DEF RenewalAnswered, TokenInv, FileNeverAhead, PhaseInv, Writing, At, Goto
<1>6. CASE RenewalFails
  BY <1>0, <1>6 DEF RenewalFails, TokenInv, FileNeverAhead, PhaseInv, Writing, At, Goto
<1>7. CASE Publish
  BY <1>0, <1>7 DEF Publish, TokenInv, FileNeverAhead, PhaseInv, Writing, At, Goto
<1>8. CASE FetchCrl
  BY <1>0, <1>8 DEF FetchCrl, TokenInv, FileNeverAhead, PhaseInv, Writing, At, Goto
<1>9. ASSUME NEW t \in Tasks, Load(t) PROVE TokenInv'
  <2>1. t = "crl" => Changed(t).token = file.state.token
    BY <1>0 DEF Changed, Files, States
  <2>2. t = "renewal" => Changed(t).token = fresh["renewal"]
    BY <1>0 DEF Changed, Files, States
  <2> QED BY <1>0, <1>9, <2>1, <2>2 DEF Load, TokenInv, FileNeverAhead, PhaseInv, Writing, At, Goto
<1>10. ASSUME NEW w \in Writers, Truncate(w) PROVE TokenInv'
  BY <1>0, <1>10 DEF Truncate, TokenInv, FileNeverAhead, PhaseInv, Writing, At, Goto, File
<1>11. ASSUME NEW w \in Writers, Write(w) PROVE TokenInv'
  <2>1. file'.status = "ok" => file'.state.token = buf[w].token
    BY <1>11 DEF Write, Written, File
  <2>2. CASE w = "enrol"
    BY <1>0, <1>11, <2>1, <2>2 DEF Write, TokenInv, FileNeverAhead, PhaseInv, Writing, At, Goto, States, Tokens
  <2>3. CASE w \in Tasks
    BY <1>0, <1>11, <2>1, <2>3 DEF Write, TokenInv, FileNeverAhead, PhaseInv, Writing, At, Goto
  <2> QED BY <1>0, <2>2, <2>3
<1>12. ASSUME NEW token \in wire, Rotate(token) PROVE TokenInv'
  <2>1. At("renewal", "posted") /\ token = cell => cell <= reply'
    <3>1. token = valid /\ valid' = valid + 1
      BY <1>12 DEF Rotate
    <3>2. At("renewal", "posted") /\ token = cell => reply' = valid'
      BY <1>12 DEF Rotate
    <3> QED BY <1>0, <3>1, <3>2
  <2>2. ~(At("renewal", "posted") /\ token = cell) => reply' = reply
    BY <1>12 DEF Rotate
  <2> QED BY <1>12, <2>1, <2>2 DEF Rotate, TokenInv, FileNeverAhead, Writing, At
<1>13. CASE PublishCrl
  BY <1>0, <1>13 DEF PublishCrl, TokenInv, FileNeverAhead, PhaseInv, Writing, At, Goto
<1>14. CASE Crash
  BY <1>0, <1>14 DEF Crash, TokenInv, FileNeverAhead, PhaseInv, Writing, At, Goto
<1>15. CASE UNCHANGED vars
  BY <1>0, <1>15 DEF vars, TokenInv, FileNeverAhead, PhaseInv, Writing, At, Goto
<1>16. ASSUME NEW w \in Writers, PersistFails(w) PROVE TokenInv'
  <2>1. file'.status = "ok" => file' = file
    <3>1. file' = file \/ file' = File("torn", Blank)
      BY <1>16 DEF PersistFails
    <3> QED BY <3>1 DEF File
  <2>2. pc' = [pc EXCEPT ![w] = "sleep"] /\ daemon' \in {daemon, "down"}
    BY <1>16 DEF PersistFails, Goto
  <2> QED BY <1>0, <1>16, <2>1, <2>2 DEF PersistFails, TokenInv, FileNeverAhead, Writing, At
<1> QED BY <1>1, <1>2, <1>3, <1>4, <1>5, <1>6, <1>7, <1>8, <1>9, <1>10, <1>11, <1>12, <1>13, <1>14, <1>15, <1>16
        DEF Next, Renewal

LEMMA Invariance == Spec => [](TypeOK /\ IInv)
<1>1. Init => IInv
  BY IInvInit
<1>2. TypeOK /\ IInv /\ [Next]_vars => IInv'
  BY PhaseStep, KeyStep, TokenStep DEF IInv
<1>3. Spec => []TypeOK
  BY TypeCorrect
<1> QED BY <1>1, <1>2, <1>3, PTL DEF Spec

\* Whatever crashes, interleavings and lost answers there were, a running
\* daemon holds no token older than the one in agent.json (spawn_token_renewal
\* publishes before it persists).
THEOREM MemoryIsNeverOlder == Spec => []FileNeverAhead
<1>1. IInv => FileNeverAhead
  BY DEF IInv, TokenInv
<1> QED BY <1>1, Invariance, PTL

\* The key in agent.json is the one the control plane knows the node by: no
\* crash around an enrolment leaves another one behind (enroll_inputs).
THEOREM KeyStaysRegistered == Spec => []FileKeyIsRegistered
<1>1. IInv => FileKeyIsRegistered
  BY DEF IInv, KeyInv
<1> QED BY <1>1, Invariance, PTL
-----------------------------------------------------------------------------
(* What locks a node out. *)

Blameless == causes = {}

\* While nothing went wrong: the token the control plane accepts is in memory,
\* or a renewal has it; who is about to write has the token in memory, unless
\* the renewal is about to read the file; the file of a node that is not up
\* has the accepted token or none.
LockInv ==
    Blameless =>
        /\ LockoutHasACause
        /\ daemon # "down" => valid # NoToken
        /\ daemon = "enrolling" => buf["enrol"].token = valid
        /\ At("renewal", "posted") /\ reply # NoToken => reply = valid
        /\ At("renewal", "publish") => fresh["renewal"] = valid
        /\ At("renewal", "load") => fresh["renewal"] = cell
        /\ Writing("renewal") => buf["renewal"].token = cell
        /\ Writing("crl") => ~Writing("renewal")
        /\ Writing("crl") => buf["crl"].token = cell \/ At("renewal", "load")
        /\ file.status = "ok" /\ daemon = "up" =>
              file.state.token = cell \/ At("renewal", "load") \/ Writing("renewal")
        /\ file.status = "ok" /\ daemon # "up" => file.state.token \in {NoToken, valid}

LEMMA LockInit == Init => LockInv
<1> SUFFICES ASSUME Init PROVE LockInv
  OBVIOUS
<1>1. daemon = "down" /\ \A w \in Writers : pc[w] = "sleep"
  BY DEF Init
<1>2. \A t \in Tasks : ~Writing(t) /\ At(t, "sleep")
  BY <1>1 DEF Writing, At, Tasks, Writers
<1>3. file.status = "ok" => file.state.token = valid
  BY DEF Init, File
<1> QED BY <1>1, <1>2, <1>3 DEF LockInv, LockoutHasACause, At, Tasks

LEMMA LockStep == TypeOK /\ PhaseInv /\ LockInv /\ [Next]_vars => LockInv'
<1> SUFFICES ASSUME TypeOK /\ PhaseInv /\ LockInv, [Next]_vars, Blameless' PROVE LockInv'
  BY DEF LockInv
<1>0. pc \in [Writers -> {"sleep", "posted", "publish", "load", "open", "write"}] /\ buf \in [Writers -> States] /\ file \in Files
      /\ Tasks = {"renewal", "crl"} /\ Writers = {"renewal", "crl", "enrol"}
      /\ daemon \in {"down", "enrolling", "up"} /\ fresh \in [Tasks -> Nat]
      /\ valid \in Nat /\ NoToken = 0
  BY DEF TypeOK, Tasks, Writers, NoToken, Tokens
<1>1. CASE StartFromFile
  BY <1>0, <1>1 DEF StartFromFile, LockInv, Blameless, LockoutHasACause, PhaseInv, Writing, At, Goto
<1>2. CASE StartEnrolling
  <2>1. valid' # NoToken
    BY <1>0, <1>2 DEF StartEnrolling
  <2>2. buf'["enrol"].token = valid'
    BY <1>0, <1>2 DEF StartEnrolling
  <2>3. file.status = "ok" => file.state.token = NoToken
    BY <1>2 DEF StartEnrolling
  <2> QED BY <1>0, <1>2, <2>1, <2>2, <2>3 DEF StartEnrolling, LockInv, Blameless, LockoutHasACause, PhaseInv, Writing, At, Goto
<1>3. CASE StartFails
  BY <1>0, <1>3 DEF StartFails, LockInv, Blameless, LockoutHasACause, PhaseInv, Writing, At, vars
<1>4. CASE PostRenewal
  BY <1>0, <1>4 DEF PostRenewal, LockInv, Blameless, LockoutHasACause, PhaseInv, Writing, At, Goto
<1>5. CASE RenewalAnswered
  BY <1>0, <1>5 DEF RenewalAnswered, LockInv, Blameless, LockoutHasACause, PhaseInv, Writing, At, Goto
<1>6. CASE RenewalFails
  BY <1>0, <1>6 DEF RenewalFails, LockInv, Blameless, LockoutHasACause, PhaseInv, Writing, At, Goto, Blame
<1>7. CASE Publish
  BY <1>0, <1>7 DEF Publish, LockInv, Blameless, LockoutHasACause, PhaseInv, Writing, At, Goto
<1>8. CASE FetchCrl
  BY <1>0, <1>8 DEF FetchCrl, LockInv, Blameless, LockoutHasACause, PhaseInv, Writing, At, Goto
<1>9. ASSUME NEW t \in Tasks, Load(t) PROVE LockInv'
  <2>1. t = "crl" => Changed(t).token = file.state.token
    BY <1>0 DEF Changed, Files, States
  <2>2. t = "renewal" => Changed(t).token = fresh["renewal"]
    BY <1>0 DEF Changed, Files, States
  <2>3. Blameless /\ \A v \in Writers \ {t} : ~Writing(v)
    BY <1>9 DEF Load, Blame, Blameless
  <2>4. CASE t = "crl"
    BY <1>0, <1>9, <2>1, <2>3, <2>4 DEF Load, LockInv, Blameless, LockoutHasACause, PhaseInv, Writing, At, Goto
  <2>5. CASE t = "renewal"
    BY <1>0, <1>9, <2>2, <2>3, <2>5 DEF Load, LockInv, Blameless, LockoutHasACause, PhaseInv, Writing, At, Goto
  <2> QED BY <1>0, <2>4, <2>5
<1>10. ASSUME NEW w \in Writers, Truncate(w) PROVE LockInv'
  <2>1. Blameless
    BY <1>10 DEF Truncate, Blame, Blameless
  <2> QED BY <1>0, <1>10, <2>1 DEF Truncate, LockInv, Blameless, LockoutHasACause, PhaseInv, Writing, At, Goto, File
<1>11. ASSUME NEW w \in Writers, Write(w) PROVE LockInv'
  <2>1. file'.status = "ok" => file'.state.token = buf[w].token
    BY <1>11 DEF Write, Written, File
  <2>2. Blameless /\ w \in Tasks => daemon = "up"
    BY <1>0, <1>11 DEF Write, PhaseInv, At, Writing, Blameless
  <2>3. CASE w = "enrol"
    BY <1>0, <1>11, <2>1, <2>3 DEF Write, LockInv, Blameless, LockoutHasACause, PhaseInv, Writing, At, Goto
  <2>4. CASE w = "renewal"
    BY <1>0, <1>11, <2>1, <2>2, <2>4 DEF Write, LockInv, Blameless, LockoutHasACause, PhaseInv, Writing, At, Goto
  <2>5. CASE w = "crl"
    BY <1>0, <1>11, <2>1, <2>2, <2>5 DEF Write, LockInv, Blameless, LockoutHasACause, PhaseInv, Writing, At, Goto
  <2> QED BY <1>0, <2>3, <2>4, <2>5
<1>12. ASSUME NEW token \in wire, Rotate(token) PROVE LockInv'
  <2>1. Blameless /\ At("renewal", "posted") /\ token = cell
    BY <1>12 DEF Rotate, Blame, Blameless
  <2>2. token = valid /\ valid' = valid + 1 /\ reply' = valid'
    BY <1>12, <2>1 DEF Rotate
  <2>3. valid' # NoToken
    BY <1>0, <2>2
  <2>4. daemon = "up"
    BY <1>0, <2>1 DEF PhaseInv, At
  <2> QED BY <1>0, <1>12, <2>1, <2>2, <2>3, <2>4 DEF Rotate, LockInv, Blameless, LockoutHasACause, PhaseInv, Writing, At
<1>13. CASE PublishCrl
  BY <1>0, <1>13 DEF PublishCrl, LockInv, Blameless, LockoutHasACause, PhaseInv, Writing, At, Goto
<1>14. CASE Crash
  <2>1. Blameless /\ At("renewal", "sleep") /\ \A w \in Writers : ~At(w, "write")
    BY <1>14 DEF Crash, Blameless
  <2> QED BY <1>0, <1>14, <2>1 DEF Crash, LockInv, Blameless, LockoutHasACause, PhaseInv, Writing, At
<1>15. CASE UNCHANGED vars
  BY <1>0, <1>15 DEF LockInv, Blameless, LockoutHasACause, PhaseInv, Writing, At, vars
<1>16. ASSUME NEW w \in Writers, PersistFails(w) PROVE LockInv'
  <2>1. Blameless /\ w # "renewal" /\ pc[w] \in {"load", "open"}
    <3>1. causes' = causes \cup {c \in {"failed write", "renewal not stored"} :
                    IF c = "failed write" THEN At(w, "write") ELSE w = "renewal"}
      BY <1>16 DEF PersistFails
    <3>2. causes' = {} /\ "failed write" \notin causes' /\ "renewal not stored" \notin causes'
      BY DEF Blameless
    <3>3. causes = {} /\ ~At(w, "write") /\ w # "renewal"
      BY <3>1, <3>2
    <3> QED BY <1>16, <3>3 DEF PersistFails, Blameless, At
  <2>2. file' = file /\ pc' = [pc EXCEPT ![w] = "sleep"] /\ daemon' = IF w = "enrol" THEN "down" ELSE daemon
    BY <1>16, <2>1 DEF PersistFails, Goto, At
  <2>3. UNCHANGED <<buf, cell, fresh, valid, reply>>
    BY <1>16 DEF PersistFails
  <2> QED BY <1>0, <2>1, <2>2, <2>3 DEF LockInv, Blameless, LockoutHasACause, PhaseInv, Writing, At
<1> QED BY <1>1, <1>2, <1>3, <1>4, <1>5, <1>6, <1>7, <1>8, <1>9, <1>10, <1>11, <1>12, <1>13, <1>14, <1>15, <1>16
        DEF Next, Renewal

\* A running daemon's token is refused only when an answer was lost, two writers
\* overlapped, the daemon died in a renewal or a write, or what a renewal brought
\* could not be stored (spawn_token_renewal): no order of the other steps locks a
\* node out.
THEOREM LockoutIsCaused == Spec => []LockoutHasACause
<1>1. Init => LockInv
  BY LockInit
<1>2. TypeOK /\ IInv /\ LockInv /\ [Next]_vars => LockInv'
  BY LockStep DEF IInv
<1>3. LockInv => LockoutHasACause
  BY DEF LockInv, LockoutHasACause, Blameless
<1> QED BY <1>1, <1>2, <1>3, Invariance, PTL DEF Spec

-----------------------------------------------------------------------------
(* The two fields of the file. *)

Clean == causes \cap {"overlap", "crash in write", "failed write"} = {}
Whole == file.status # "absent" =>
    file.status = "ok" /\ file.state.token = stored.token /\ file.state.crl = stored.crl

\* While nothing overlapped, one writer at a time has the file: before it truncates, the
\* file is whole, and its buffer has the field it does not write.
QuietInv == Clean =>
    /\ \A v, w \in Writers : Writing(v) /\ Writing(w) => v = w
    /\ (\A w \in Writers : pc[w] # "write") => Whole
    /\ \A w \in Writers : pc[w] = "write" => file.status = "empty"
    /\ Writing("renewal") => buf["renewal"].crl = stored.crl
    /\ Writing("crl") => buf["crl"].token = stored.token

LEMMA QuietInit == Init => QuietInv
<1> SUFFICES ASSUME Init PROVE QuietInv
  OBVIOUS
<1>1. Whole
  BY DEF Init, Whole, File
<1>2. \A w \in Writers : ~Writing(w) /\ pc[w] # "write"
  BY DEF Init, Writing
<1>3. "renewal" \in Writers /\ "crl" \in Writers
  BY DEF Writers, Tasks
<1> QED BY <1>1, <1>2, <1>3 DEF QuietInv

\* A step that touches neither the file nor what is to be written.
LEMMA QuietElsewhere ==
    ASSUME TypeOK, QuietInv, UNCHANGED <<file, buf, stored>>, causes \subseteq causes',
           \A w \in Writers : /\ Writing(w)' => Writing(w)
                              /\ (pc'[w] = "write" <=> pc[w] = "write") \/ ~Clean'
    PROVE  QuietInv'
<1>1. "renewal" \in Writers /\ "crl" \in Writers
  BY DEF Writers, Tasks
<1>2. Clean' => Clean
  BY DEF Clean
<1> QED BY <1>1, <1>2 DEF QuietInv, Whole

LEMMA QuietStep == TypeOK /\ PhaseInv /\ QuietInv /\ [Next]_vars => QuietInv'
<1> SUFFICES ASSUME TypeOK, PhaseInv, QuietInv, [Next]_vars PROVE QuietInv'
  OBVIOUS
<1>0. /\ pc \in [Writers -> {"sleep", "posted", "publish", "load", "open", "write"}]
      /\ buf \in [Writers -> States] /\ file \in Files /\ stored \in [token : Tokens, crl : Crls]
      /\ Tasks = {"renewal", "crl"} /\ Writers = {"renewal", "crl", "enrol"}
  BY DEF TypeOK, Tasks, Writers
<1>1. CASE StartFromFile \/ StartFails \/ PublishCrl \/ UNCHANGED vars
  BY <1>1, QuietElsewhere DEF StartFromFile, StartFails, PublishCrl, vars, Writing
<1>2. CASE StartEnrolling
  <2>1. \A w \in Writers : pc[w] = "sleep"
    BY <1>0, <1>2 DEF StartEnrolling, PhaseInv
  <2>2. /\ pc' = [pc EXCEPT !["enrol"] = "open"] /\ UNCHANGED <<file, stored, causes>>
        /\ \A t \in Tasks : buf'[t] = buf[t]
    BY <1>0, <1>2 DEF StartEnrolling, Goto
  <2>3. \A w \in Writers : pc'[w] # "write" /\ pc[w] # "write" /\ (Writing(w)' => w = "enrol")
    BY <1>0, <2>1, <2>2 DEF Writing
  <2>4. (Clean' <=> Clean) /\ (Whole' <=> Whole)
    BY <2>2 DEF Clean, Whole
  <2>5. ~Writing("renewal")' /\ ~Writing("crl")'
    BY <1>0, <2>3
  <2> QED BY <2>3, <2>4, <2>5 DEF QuietInv
<1>3. CASE PostRenewal \/ RenewalAnswered \/ Publish \/ FetchCrl
  <2>1. UNCHANGED <<file, buf, stored, causes>>
    BY <1>3 DEF PostRenewal, RenewalAnswered, Publish, FetchCrl
  <2>2. PICK w \in Tasks, there \in {"posted", "publish", "load"} :
            pc' = [pc EXCEPT ![w] = there] /\ pc[w] \in {"sleep", "posted", "publish"}
    BY <1>0, <1>3 DEF PostRenewal, RenewalAnswered, Publish, FetchCrl, Goto, At
  <2>3. \A v \in Writers : (Writing(v)' <=> Writing(v)) /\ (pc'[v] = "write" <=> pc[v] = "write")
    BY <1>0, <2>2 DEF Writing
  <2> QED BY <2>1, <2>3, QuietElsewhere
<1>4. CASE RenewalFails
  <2>1. UNCHANGED <<file, buf, stored>> /\ causes \subseteq causes'
    BY <1>4 DEF RenewalFails, Blame
  <2>2. \A w \in Writers : (Writing(w)' => Writing(w)) /\ (pc'[w] = "write" <=> pc[w] = "write")
    BY <1>0, <1>4 DEF RenewalFails, Goto, At, Writing
  <2> QED BY <2>1, <2>2, QuietElsewhere
<1>5. ASSUME NEW token \in wire, Rotate(token) PROVE QuietInv'
  <2>1. UNCHANGED <<file, buf, stored, pc>> /\ causes \subseteq causes'
    BY <1>5 DEF Rotate, Blame
  <2> QED BY <2>1, QuietElsewhere DEF Writing
<1>6. CASE Crash
  <2>1. UNCHANGED <<file, stored>> /\ causes \subseteq causes' /\ \A w \in Writers : pc'[w] = "sleep"
    BY <1>6 DEF Crash
  <2>2. Clean' => Clean /\ \A w \in Writers : pc[w] # "write"
    BY <1>6 DEF Crash, Clean, At
  <2> QED BY <1>0, <2>1, <2>2 DEF QuietInv, Whole, Writing
<1>7. ASSUME NEW w \in Tasks, Load(w) PROVE QuietInv'
  <2>1. w \in Writers /\ pc[w] = "load" /\ UNCHANGED <<file, stored>> /\ causes \subseteq causes'
    BY <1>0, <1>7 DEF Load, At, Blame
  <2>2. CASE file.status # "ok"
    <3>1. UNCHANGED buf /\ pc' = [pc EXCEPT ![w] = "sleep"]
      BY <1>7, <2>2 DEF Load, Goto
    <3>2. \A v \in Writers : (Writing(v)' => Writing(v)) /\ (pc'[v] = "write" <=> pc[v] = "write")
      BY <1>0, <2>1, <3>1 DEF Writing
    <3> QED BY <2>1, <3>1, <3>2, QuietElsewhere
  <2>3. CASE file.status = "ok"
    <3>1. buf' = [buf EXCEPT ![w] = Changed(w)] /\ pc' = [pc EXCEPT ![w] = "open"]
      BY <1>7, <2>3 DEF Load, Goto
    <3>2. Clean' => Clean /\ \A v \in Writers : ~Writing(v)
      BY <1>0, <1>7 DEF Load, Blame, Clean, At, Writing
    <3>3. /\ w = "renewal" => Changed(w).crl = file.state.crl
          /\ w = "crl" => Changed(w).token = file.state.token
      BY <1>0 DEF Changed, Files, States
    <3>4. Clean' => Whole /\ \A v \in Writers : pc'[v] # "write"
      BY <1>0, <3>1, <3>2 DEF QuietInv, Writing
    <3> QED BY <1>0, <2>1, <2>3, <3>1, <3>2, <3>3, <3>4 DEF QuietInv, Whole, Writing
  <2> QED BY <2>2, <2>3
<1>8. ASSUME NEW w \in Writers, Truncate(w) PROVE QuietInv'
  <2>1. pc[w] = "open" /\ pc' = [pc EXCEPT ![w] = "write"] /\ file'.status = "empty" /\ UNCHANGED <<buf, stored>>
    BY <1>8 DEF Truncate, At, Goto, File
  <2>2. Clean' => Clean /\ \A v \in Writers \ {w} : ~Writing(v)
    BY <1>8 DEF Truncate, Blame, Clean
  <2> QED BY <1>0, <2>1, <2>2 DEF QuietInv, Writing
<1>9. ASSUME NEW w \in Writers, Write(w) PROVE QuietInv'
  <2>1. pc[w] = "write" /\ pc' = [pc EXCEPT ![w] = "sleep"] /\ UNCHANGED <<buf, causes>> /\ Store(w)
    BY <1>9 DEF Write, At, Goto
  <2>2. Clean => file' = File("ok", buf[w]) /\ \A v \in Writers \ {w} : ~Writing(v)
    BY <1>9, <2>1 DEF Write, Written, QuietInv, Writing
  <2>3. Clean => buf[w].token = stored'.token /\ buf[w].crl = stored'.crl
    BY <1>0, <2>1 DEF Store, QuietInv, Writing
  <2>4. Clean => Whole'
    BY <2>2, <2>3 DEF Whole, File
  <2>5. Clean => \A v \in Writers : ~Writing(v)' /\ pc'[v] # "write"
    BY <1>0, <2>1, <2>2 DEF Writing
  <2>6. Clean' <=> Clean
    BY <2>1 DEF Clean
  <2> QED BY <1>0, <2>4, <2>5, <2>6 DEF QuietInv
<1>10. ASSUME NEW w \in Writers, PersistFails(w) PROVE QuietInv'
  <2>1. UNCHANGED <<buf, stored>> /\ pc' = [pc EXCEPT ![w] = "sleep"] /\ causes \subseteq causes'
    BY <1>10 DEF PersistFails, Goto
  <2>2. CASE pc[w] = "write"
    BY <1>10, <2>2 DEF PersistFails, At, Clean, QuietInv
  <2>3. CASE pc[w] # "write"
    <3>1. file' = file
      BY <1>10, <2>3 DEF PersistFails, At
    <3>2. \A v \in Writers : (Writing(v)' => Writing(v)) /\ (pc'[v] = "write" <=> pc[v] = "write")
      BY <1>0, <2>1, <2>3 DEF Writing
    <3> QED BY <2>1, <3>1, <3>2, QuietElsewhere
  <2> QED BY <2>2, <2>3
<1> QED BY <1>1, <1>2, <1>3, <1>4, <1>5, <1>6, <1>7, <1>8, <1>9, <1>10 DEF Next, Renewal

\* Writers that do not overlap, crashes between writes and files that cannot be read
\* or opened keep each other's field (persist_service_token, refresh_crl_once):
\* between writes the file holds what was last stored, unless a write itself failed.
THEOREM QuietWritesKeepBoth == Spec => []QuietFileIsWhole
<1>1. Init => TypeInv /\ IInv /\ QuietInv
  BY TypeInit, IInvInit, QuietInit
<1>2. TypeInv /\ [Next]_vars => TypeInv'
  BY TypeStep
<1>3. TypeInv /\ PhaseInv /\ QuietInv /\ [Next]_vars => QuietInv'
  BY QuietStep DEF TypeInv
<1>4. TypeInv /\ PhaseInv /\ [Next]_vars => PhaseInv'
  BY PhaseStep DEF TypeInv
<1>5. QuietInv => QuietFileIsWhole
  BY DEF QuietInv, QuietFileIsWhole, Clean, Whole, Writing
<1>6. IInv => PhaseInv
  BY DEF IInv
<1> QED BY <1>1, <1>2, <1>3, <1>4, <1>5, <1>6, PTL DEF Spec

\* The comment at persist_service_token, with what it leaves out: a renewal drops a CRL that was
\* written meanwhile only where the two writers overlapped or a crash or an error cut one of
\* them off (RenewalKeepsCrl without the condition does not hold of the code).
THEOREM RenewalKeepsCrlUnlessOverlapped ==
    Spec => [][/\ At("renewal", "write") /\ pc'["renewal"] = "sleep" /\ file'.status = "ok"
               /\ causes' \cap {"overlap", "crash in write", "failed write"} = {}
               => file'.state.crl >= stored.crl]_vars
<1>1. ASSUME TypeInv, PhaseInv, QuietInv, [Next]_vars,
             At("renewal", "write"), pc'["renewal"] = "sleep", file'.status = "ok", Clean'
      PROVE  file'.state.crl >= stored.crl
  <2>1. /\ pc \in [Writers -> {"sleep", "posted", "publish", "load", "open", "write"}]
        /\ stored.crl \in Nat /\ pc["renewal"] = "write"
        /\ Tasks = {"renewal", "crl"} /\ Writers = {"renewal", "crl", "enrol"}
    BY <1>1 DEF TypeInv, TypeOK, Crls, Tasks, Writers, At
  <2>2. Write("renewal")
    <3>1. UNCHANGED pc => FALSE
      BY <1>1, <2>1
    <3>2. ~(StartFromFile \/ StartFails \/ PublishCrl \/ UNCHANGED vars)
      BY <3>1 DEF StartFromFile, StartFails, PublishCrl, vars
    <3>3. ~StartEnrolling
      BY <1>1, <2>1 DEF StartEnrolling, Goto
    <3>4. ~(PostRenewal \/ RenewalAnswered \/ RenewalFails \/ Publish \/ FetchCrl)
      BY <1>1, <2>1 DEF PostRenewal, RenewalAnswered, RenewalFails, Publish, FetchCrl, Goto, At
    <3>5. ~Crash
      BY <1>1, <2>1 DEF Crash, Clean, At
    <3>6. \A token \in wire : ~Rotate(token)
      BY <3>1 DEF Rotate
    <3>7. \A w \in Tasks : ~Load(w)
      BY <1>1, <2>1 DEF Load, Goto, At
    <3>8. \A w \in Writers : ~Truncate(w) /\ (Write(w) => w = "renewal")
      BY <1>1, <2>1 DEF Truncate, Write, Goto, At
    <3>9. \A w \in Writers : ~PersistFails(w)
      BY <1>1, <2>1 DEF PersistFails, Clean, Goto, At
    <3> QED BY <1>1, <3>2, <3>3, <3>4, <3>5, <3>6, <3>7, <3>8, <3>9 DEF Next, Renewal
  <2>3. Clean /\ stored'.crl = stored.crl
    BY <1>1, <2>1, <2>2 DEF Write, Store, Clean, TypeInv, TypeOK
  <2>4. file' = File("ok", buf["renewal"]) /\ buf["renewal"].crl = stored.crl
    BY <1>1, <2>1, <2>2, <2>3 DEF QuietInv, Write, Written, Writing
  <2> QED BY <2>1, <2>4 DEF File
<1>2. Init => TypeInv /\ IInv /\ QuietInv
  BY TypeInit, IInvInit, QuietInit
<1>3. TypeInv /\ [Next]_vars => TypeInv'
  BY TypeStep
<1>4. TypeInv /\ PhaseInv /\ QuietInv /\ [Next]_vars => QuietInv' /\ PhaseInv'
  BY QuietStep, PhaseStep DEF TypeInv
<1>5. IInv => PhaseInv
  BY DEF IInv
<1>6. TypeInv /\ PhaseInv /\ QuietInv /\ [Next]_vars
          => [/\ At("renewal", "write") /\ pc'["renewal"] = "sleep" /\ file'.status = "ok"
              /\ causes' \cap {"overlap", "crash in write", "failed write"} = {}
              => file'.state.crl >= stored.crl]_vars
  BY <1>1 DEF Clean
<1> QED BY <1>2, <1>3, <1>4, <1>5, <1>6, PTL DEF Spec
=============================================================================
