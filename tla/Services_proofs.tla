--------------------------- MODULE Services_proofs ----------------------------
(***************************************************************************)
(* Proofs about three services of a node: its private names (Subdomains),  *)
(* the userspace tunnel of a deploy (Netstack) and its calls to the        *)
(* control plane (CpCalls), for any names, numbers of bytes, restarts and  *)
(* rows.                                                                   *)
(***************************************************************************)
EXTENDS Subdomains, Netstack, CpCalls, TLAPS, FiniteSetTheorems

-----------------------------------------------------------------------------
(* Subdomains: keys and certificates. *)

Certs  == [key : Int, serial : Nat]
Orders == [owner : {"none", "me", "other"}, issued : BOOLEAN, cert : Certs]
Rows   == [cert : Certs, key : Int]
Tables ==
    /\ cp \in [Names -> Orders]
    /\ keyFile \in [Names -> Int] /\ certFile \in [Names -> Certs]
    /\ sni \in [Names -> Rows]

\* As long as the key of a name was not replaced there is one, and every order, certificate
\* and row of the listener is for it, or is empty, or torn.
OneKeyOf(n) ==
    /\ keyFile[n] \in {TornKey, 0, 1}
    /\ cp[n].cert.key \in {0, 1}
    /\ cp[n].issued => cp[n].cert.key = 1
    /\ certFile[n] \in {NoCert, TornCert} \/ certFile[n].key = 1
    /\ sni[n] = NotServed \/ (sni[n].cert.key = 1 /\ sni[n].key = 1)

OneKey == \A n \in Names : n \notin replaced => OneKeyOf(n)

KeyInv == Tables /\ OneKey

LEMMA EmptyCerts ==
    /\ NoCert \in Certs /\ TornCert \in Certs /\ NotServed \in Rows /\ Unordered \in Orders
    /\ NoCert.key = 0 /\ TornCert.key = TornKey /\ TornKey \in Int /\ TornKey \notin {0, 1}
    /\ Unordered.cert = NoCert /\ ~Unordered.issued
<1>1. TornKey \in Int /\ TornKey \notin {0, 1}
  BY DEF TornKey
<1>2. NoCert \in Certs /\ TornCert \in Certs /\ NoCert.key = 0 /\ TornCert.key = TornKey
  BY <1>1 DEF NoCert, TornCert, Certs
<1>3. NotServed \in Rows
  BY <1>2 DEF NotServed, Rows
<1>4. Unordered \in Orders /\ Unordered.cert = NoCert /\ ~Unordered.issued
  BY <1>2 DEF Unordered, Orders
<1> QED BY <1>1, <1>2, <1>3, <1>4

LEMMA KeyInit == Init => KeyInv
<1> SUFFICES ASSUME Init PROVE KeyInv
  OBVIOUS
<1>1. Tables
  BY EmptyCerts DEF Init, Tables
<1>2. ASSUME NEW n \in Names PROVE OneKeyOf(n)
  <2>1. cp[n] = Unordered /\ keyFile[n] = 0 /\ certFile[n] = NoCert /\ sni[n] = NotServed
    BY DEF Init
  <2> QED BY <2>1, EmptyCerts DEF OneKeyOf
<1> QED BY <1>1, <1>2 DEF KeyInv, OneKey

\* ensure_listener presents what is on disk, if that can be used.
LEMMA ListenerLoads ==
    ASSUME KeyInv, NEW names, NEW certs \in [Names -> Certs],
           \A n \in Names \ replaced : certs[n] \in {NoCert, TornCert} \/ certs[n].key = 1,
           EnsureListener(names, certs)
    PROVE  /\ sni' \in [Names -> Rows]
           /\ \A n \in Names \ replaced :
                sni'[n] = NotServed \/ (sni'[n].cert.key = 1 /\ sni'[n].key = 1)
<1>1. sni' = [n \in Names |-> IF n \in names THEN Loaded(sni, certs, n) ELSE sni[n]]
  BY DEF EnsureListener
<1>2. ASSUME NEW n \in Names PROVE Certified(certs, n) \in Rows
  <2>1. certs[n] \in Certs /\ keyFile[n] \in Int
    BY DEF KeyInv, Tables
  <2> QED BY <2>1 DEF Certified, Rows
<1>3. ASSUME NEW n \in Names PROVE Loaded(sni, certs, n) \in Rows
  BY <1>2 DEF Loaded, KeyInv, Tables
<1>4. ASSUME NEW n \in Names \ replaced, Usable(certs, n)
      PROVE  Certified(certs, n).cert.key = 1 /\ Certified(certs, n).key = 1
  <2>1. certs[n].key = 1 /\ keyFile[n] = 1
    BY <1>4 DEF Usable, KeyInv, OneKey, OneKeyOf
  <2> QED BY <2>1 DEF Certified
<1>5. ASSUME NEW n \in Names PROVE sni'[n] = Loaded(sni, certs, n) \/ sni'[n] = sni[n]
  BY <1>1
<1>6. sni' \in [Names -> Rows]
  BY <1>1, <1>3 DEF KeyInv, Tables
<1>7. ASSUME NEW n \in Names \ replaced
      PROVE  sni'[n] = NotServed \/ (sni'[n].cert.key = 1 /\ sni'[n].key = 1)
  <2>1. sni[n] = NotServed \/ (sni[n].cert.key = 1 /\ sni[n].key = 1)
    BY DEF KeyInv, OneKey, OneKeyOf
  <2>2. CASE Usable(certs, n)
    BY <1>4, <1>5, <2>1, <2>2 DEF Loaded
  <2>3. CASE ~Usable(certs, n)
    BY <1>5, <2>1, <2>3 DEF Loaded
  <2> QED BY <2>2, <2>3
<1> QED BY <1>6, <1>7

\* load_or_generate_keypair makes the one key of a name, unless it replaces one.
LEMMA GeneratesOnce ==
    ASSUME KeyInv, NEW n \in Names, LoadOrGenerate(n)
    PROVE  /\ keyFile' \in [Names -> Int] /\ \A m \in Names \ {n} : keyFile'[m] = keyFile[m]
           /\ replaced \subseteq replaced'
           /\ n \notin replaced' => keyFile'[n] \in {TornKey, 0, 1}
<1>1. keyFile \in [Names -> Int] /\ TornKey \in Int /\ (n \notin replaced => keyFile[n] \in {TornKey, 0, 1})
  BY EmptyCerts DEF KeyInv, Tables, OneKey, OneKeyOf
<1>2. CASE keyFile' = [keyFile EXCEPT ![n] = KeyFor(n)] /\ UNCHANGED replaced
  <2>1. KeyFor(n) \in Int /\ (n \notin replaced => KeyFor(n) \in {TornKey, 0, 1})
    BY <1>1 DEF KeyFor
  <2> QED BY <1>1, <1>2, <2>1
<1>3. CASE keyFile[n] = 0 /\ keyFile' \in {keyFile, [keyFile EXCEPT ![n] = TornKey]} /\ UNCHANGED replaced
  BY <1>1, <1>3
<1>4. CASE /\ replaced' = replaced \cup {n}
           /\ \E key \in {2, TornKey} : keyFile' = [keyFile EXCEPT ![n] = key]
  BY <1>1, <1>4
<1> QED BY <1>2, <1>3, <1>4 DEF LoadOrGenerate

LEMMA SubmitKeeps == ASSUME KeyInv, NEW n \in Names, Submit(n) PROVE KeyInv'
<1>0. UNCHANGED <<certFile, sni>>
  BY DEF Submit, mem
<1>1. CASE UNCHANGED <<cp, keyFile, replaced>>
  BY <1>0, <1>1 DEF KeyInv, Tables, OneKey, OneKeyOf, NoCert, TornCert, NotServed, TornKey
<1>2. CASE LoadOrGenerate(n) /\ \/ UNCHANGED cp
                                \/ /\ keyFile'[n] \notin {0, TornKey}
                                   /\ cp' = [cp EXCEPT ![n].cert.key = keyFile'[n], ![n].issued = FALSE]
  <2>1. /\ keyFile' \in [Names -> Int] /\ \A m \in Names \ {n} : keyFile'[m] = keyFile[m]
        /\ replaced \subseteq replaced'
        /\ n \notin replaced' => keyFile'[n] \in {TornKey, 0, 1}
    BY <1>2, GeneratesOnce
  <2>2. /\ cp' \in [Names -> Orders] /\ \A m \in Names \ {n} : cp'[m] = cp[m]
        /\ n \notin replaced' => /\ cp'[n].cert.key \in {0, 1}
                                 /\ cp'[n].issued => cp'[n].cert.key = 1
    <3>1. CASE UNCHANGED cp
      <4>1. n \notin replaced' => cp[n].cert.key \in {0, 1} /\ (cp[n].issued => cp[n].cert.key = 1)
        BY <2>1 DEF KeyInv, OneKey, OneKeyOf
      <4> QED BY <3>1, <4>1 DEF KeyInv, Tables
    <3>2. CASE /\ keyFile'[n] \notin {0, TornKey}
               /\ cp' = [cp EXCEPT ![n].cert.key = keyFile'[n], ![n].issued = FALSE]
      <4> DEFINE cert == [cp[n].cert EXCEPT !.key = keyFile'[n]]
                 order == [[cp[n] EXCEPT !.cert = cert] EXCEPT !.issued = FALSE]
      <4>1. cp' = [cp EXCEPT ![n] = order]
        BY <3>2, Zenon DEF KeyInv, Tables
      <4>2. cp[n] \in Orders /\ cp[n].cert \in Certs /\ keyFile'[n] \in Int
        BY <2>1 DEF KeyInv, Tables, Orders
      <4>3. cert \in Certs /\ cert.key = keyFile'[n]
        BY <4>2 DEF Certs
      <4> HIDE DEF cert
      <4> DEFINE keyed == [cp[n] EXCEPT !.cert = cert]
      <4>4. keyed = [owner |-> cp[n].owner, issued |-> cp[n].issued, cert |-> cert]
        BY <4>2 DEF Orders
      <4>9. order = [keyed EXCEPT !.issued = FALSE]
        OBVIOUS
      <4> HIDE DEF keyed, order
      <4>5. order = [owner |-> cp[n].owner, issued |-> FALSE, cert |-> cert]
        BY <4>4, <4>9
      <4>6. order \in Orders /\ order.cert = cert /\ order.issued = FALSE
        BY <4>2, <4>3, <4>5 DEF Orders
      <4>7. cp \in [Names -> Orders]
        BY DEF KeyInv, Tables
      <4>8. cp' \in [Names -> Orders] /\ cp'[n] = order /\ \A m \in Names \ {n} : cp'[m] = cp[m]
        BY <4>1, <4>6, <4>7
      <4> QED BY <2>1, <3>2, <4>3, <4>6, <4>8
    <3> QED BY <1>2, <3>1, <3>2
  <2>3. Tables'
    BY <1>0, <2>1, <2>2 DEF KeyInv, Tables
  <2>4. ASSUME NEW m \in Names, m \notin replaced' PROVE OneKeyOf(m)'
    <3>1. OneKeyOf(m)
      BY <2>1, <2>4 DEF KeyInv, OneKey
    <3>2. /\ keyFile'[m] \in {TornKey, 0, 1} /\ cp'[m].cert.key \in {0, 1}
          /\ cp'[m].issued => cp'[m].cert.key = 1
      BY <2>1, <2>2, <2>4, <3>1 DEF OneKeyOf
    <3> QED BY <1>0, <3>1, <3>2 DEF OneKeyOf, NoCert, TornCert, NotServed, TornKey
  <2> QED BY <2>3, <2>4 DEF KeyInv, OneKey
<1> QED BY <1>1, <1>2 DEF Submit

\* What is stored is what the control plane issued, or torn.
LEMMA StoredKeeps ==
    ASSUME KeyInv, NEW n \in Names, NEW cert \in {cp[n].cert, TornCert},
           cp[n].issued, certFile' = [certFile EXCEPT ![n] = cert]
    PROVE  /\ certFile' \in [Names -> Certs]
           /\ \A m \in Names \ replaced : certFile'[m] \in {NoCert, TornCert} \/ certFile'[m].key = 1
<1>1. cert \in Certs
  BY EmptyCerts DEF KeyInv, Tables, Orders
<1>2. n \notin replaced => cert = TornCert \/ cert.key = 1
  BY DEF KeyInv, OneKey, OneKeyOf
<1> QED BY <1>1, <1>2 DEF KeyInv, Tables, OneKey, OneKeyOf

\* Steps that touch neither the orders nor the keys.
LEMMA FilesKeep ==
    ASSUME KeyInv, UNCHANGED <<cp, keyFile, replaced>>,
           certFile' \in [Names -> Certs],
           \A n \in Names \ replaced : certFile'[n] \in {NoCert, TornCert} \/ certFile'[n].key = 1,
           sni' \in [Names -> Rows],
           \A n \in Names \ replaced : sni'[n] = NotServed \/ (sni'[n].cert.key = 1 /\ sni'[n].key = 1)
    PROVE  KeyInv'
<1>1. Tables'
  BY DEF KeyInv, Tables
<1>2. ASSUME NEW n \in Names, n \notin replaced' PROVE OneKeyOf(n)'
  BY <1>2 DEF KeyInv, OneKey, OneKeyOf, NoCert, TornCert, NotServed, TornKey
<1> QED BY <1>1, <1>2 DEF KeyInv, OneKey

LEMMA FilesAsTheyWere ==
    ASSUME KeyInv
    PROVE  /\ certFile \in [Names -> Certs] /\ sni \in [Names -> Rows]
           /\ \A n \in Names \ replaced : certFile[n] \in {NoCert, TornCert} \/ certFile[n].key = 1
           /\ \A n \in Names \ replaced : sni[n] = NotServed \/ (sni[n].cert.key = 1 /\ sni[n].key = 1)
BY DEF KeyInv, Tables, OneKey, OneKeyOf

LEMMA PollHitKeeps == ASSUME KeyInv, NEW n \in Names, PollHit(n) PROVE KeyInv'
<1>1. UNCHANGED <<cp, keyFile, replaced>>
  BY DEF PollHit
<1>2. PICK read \in SUBSET {n} : EnsureListener(read, certFile')
  BY DEF PollHit
<1>3. /\ certFile' \in [Names -> Certs]
      /\ \A m \in Names \ replaced : certFile'[m] \in {NoCert, TornCert} \/ certFile'[m].key = 1
  <2>1. CASE certFile' = certFile
    BY <2>1, FilesAsTheyWere
  <2>2. CASE cp[n].issued /\ certFile' = [certFile EXCEPT ![n] = cp[n].cert]
    BY <2>2, StoredKeeps
  <2> QED BY <2>1, <2>2 DEF PollHit
<1>4. /\ sni' \in [Names -> Rows]
      /\ \A m \in Names \ replaced : sni'[m] = NotServed \/ (sni'[m].cert.key = 1 /\ sni'[m].key = 1)
  BY <1>2, <1>3, ListenerLoads
<1> QED BY <1>1, <1>3, <1>4, FilesKeep

LEMMA StoreKeeps == ASSUME KeyInv, NEW n \in Names, PollMiss(n) \/ Push(n) PROVE KeyInv'
<1>1. UNCHANGED <<cp, keyFile, replaced, sni>>
  BY DEF PollMiss, Push, mem
<1>2. \/ certFile' = certFile
      \/ cp[n].issued /\ \E cert \in {cp[n].cert, TornCert} : certFile' = [certFile EXCEPT ![n] = cert]
  BY DEF PollMiss, Push
<1>3. CASE certFile' = certFile
  BY <1>1, <1>3, FilesAsTheyWere, FilesKeep
<1>4. CASE cp[n].issued /\ \E cert \in {cp[n].cert, TornCert} : certFile' = [certFile EXCEPT ![n] = cert]
  <2>1. /\ certFile' \in [Names -> Certs]
        /\ \A m \in Names \ replaced : certFile'[m] \in {NoCert, TornCert} \/ certFile'[m].key = 1
    BY <1>4, StoredKeeps
  <2> QED BY <1>1, <2>1, FilesAsTheyWere, FilesKeep
<1> QED BY <1>2, <1>3, <1>4

\* The control plane changes an order, and never the key of one.
LEMMA OrderKeeps == ASSUME KeyInv, NEW n \in Names, Register(n) \/ Remove(n) \/ Issue(n) PROVE KeyInv'
<1>0. UNCHANGED <<keyFile, certFile, replaced, sni>>
  BY DEF Register, Remove, Issue, disk, mem
<1>1. cp \in [Names -> Orders] /\ cp[n] \in Orders /\ cp[n].cert \in Certs
  BY DEF KeyInv, Tables, Orders
<1>2. \E order \in Orders :
        /\ cp' = [cp EXCEPT ![n] = order] /\ order.cert.key = cp[n].cert.key
        /\ order.issued => cp[n].issued \/ cp[n].cert.key # 0
  <2>1. CASE Register(n)
    <3>1. PICK o \in {"me", "other"} : cp' = [cp EXCEPT ![n].owner = o]
      BY <2>1 DEF Register
    <3> DEFINE order == [cp[n] EXCEPT !.owner = o]
    <3>2. order \in Orders /\ order.cert = cp[n].cert /\ order.issued = cp[n].issued
      BY <1>1 DEF Orders
    <3>3. cp' = [cp EXCEPT ![n] = order]
      BY <3>1
    <3> HIDE DEF order
    <3> QED BY <3>2, <3>3
  <2>2. CASE Remove(n)
    <3> DEFINE freed == [cp[n] EXCEPT !.owner = "none"]
               order == [freed EXCEPT !.issued = FALSE]
    <3>1. cp' = [cp EXCEPT ![n].owner = "none", ![n].issued = FALSE]
      BY <2>2 DEF Remove
    <3>2. cp' = [cp EXCEPT ![n] = order]
      BY <1>1, <3>1, Zenon
    <3>4. freed \in Orders /\ freed.cert = cp[n].cert
      BY <1>1 DEF Orders
    <3> HIDE DEF freed
    <3>3. order \in Orders /\ order.cert = cp[n].cert /\ order.issued = FALSE
      BY <3>4 DEF Orders
    <3> HIDE DEF order
    <3> QED BY <3>2, <3>3
  <2>3. CASE Issue(n)
    <3> DEFINE cert == [key |-> cp[n].cert.key, serial |-> cp[n].cert.serial + 1]
               order == [owner |-> cp[n].owner, issued |-> TRUE, cert |-> cert]
    <3>1. cp' = [cp EXCEPT ![n].issued = TRUE, ![n].cert.serial = @ + 1] /\ cp[n].cert.key # 0
      BY <2>3 DEF Issue
    <3>2. cp' = [cp EXCEPT ![n] = order]
      BY <1>1, <3>1 DEF Orders, Certs
    <3>3. cert \in Certs /\ cert.key = cp[n].cert.key
      BY <1>1 DEF Certs
    <3> HIDE DEF cert
    <3>4. order \in Orders /\ order.cert = cert
      BY <1>1, <3>3 DEF Orders
    <3> HIDE DEF order
    <3> QED BY <3>1, <3>2, <3>3, <3>4
  <2> QED BY <2>1, <2>2, <2>3
<1>3. PICK order \in Orders :
        /\ cp' = [cp EXCEPT ![n] = order] /\ order.cert.key = cp[n].cert.key
        /\ order.issued => cp[n].issued \/ cp[n].cert.key # 0
  BY <1>2
<1>4. cp' \in [Names -> Orders] /\ cp'[n] = order /\ \A m \in Names \ {n} : cp'[m] = cp[m]
  BY <1>1, <1>3
<1>5. Tables'
  BY <1>0, <1>4 DEF KeyInv, Tables
<1>6. ASSUME NEW m \in Names, m \notin replaced' PROVE OneKeyOf(m)'
  <2>1. OneKeyOf(m)
    BY <1>0, <1>6 DEF KeyInv, OneKey
  <2>2. cp'[m].cert.key \in {0, 1} /\ (cp'[m].issued => cp'[m].cert.key = 1)
    BY <1>3, <1>4, <2>1 DEF OneKeyOf
  <2> QED BY <1>0, <2>1, <2>2 DEF OneKeyOf, NoCert, TornCert, NotServed, TornKey
<1> QED BY <1>5, <1>6 DEF KeyInv, OneKey

LEMMA KeyStep == KeyInv /\ [Next]_vars => KeyInv'
<1> SUFFICES ASSUME KeyInv, [Next]_vars PROVE KeyInv'
  OBVIOUS
<1>1. ASSUME NEW unread \in SUBSET Names, Resync(unread) PROVE KeyInv'
  <2>1. UNCHANGED <<cp, keyFile, certFile, replaced>> /\ EnsureListener((Owned \cap attempted) \ unread, certFile)
    BY <1>1 DEF Resync, disk
  <2> QED BY <2>1, FilesAsTheyWere, ListenerLoads, FilesKeep
<1>2. CASE Rotate \/ ListenerEnds \/ UNCHANGED vars
  <2>1. UNCHANGED <<cp, keyFile, certFile, replaced, sni>>
    BY <1>2 DEF Rotate, ListenerEnds, vars, disk, mem
  <2> QED BY <2>1, FilesAsTheyWere, FilesKeep
<1>3. CASE Restart
  <2>1. UNCHANGED <<cp, keyFile, certFile, replaced>> /\ sni' = [n \in Names |-> NotServed]
    BY <1>3 DEF Restart, disk
  <2> QED BY <2>1, EmptyCerts, FilesAsTheyWere, FilesKeep
<1>4. ASSUME NEW n \in Names, Submit(n) PROVE KeyInv'
  BY <1>4, SubmitKeeps
<1>5. ASSUME NEW n \in Names, PollHit(n) PROVE KeyInv'
  BY <1>5, PollHitKeeps
<1>6. ASSUME NEW n \in Names, PollMiss(n) \/ Push(n) PROVE KeyInv'
  BY <1>6, StoreKeeps
<1>7. ASSUME NEW n \in Names, Register(n) \/ Remove(n) \/ Issue(n) PROVE KeyInv'
  BY <1>7, OrderKeeps
<1> QED BY <1>1, <1>2, <1>3, <1>4, <1>5, <1>6, <1>7 DEF Next

\* Whatever submissions are repeated or lost, whatever writes are cut off, whatever restarts
\* and renewals come between, a certificate is presented with the key it was issued for
\* (load_or_generate_keypair, ensure_csr_submitted, ensure_listener): unless the key on
\* disk could not be read and was replaced.
THEOREM CertificatesMatchTheirKeys == Spec => []KeyMatchesCert
<1>1. KeyInv => KeyMatchesCert
  BY DEF KeyInv, OneKey, OneKeyOf, KeyMatchesCert
<1> QED BY <1>1, KeyInit, KeyStep, PTL DEF Spec

-----------------------------------------------------------------------------
(* Netstack: where the bytes are. *)

States == {"none", "synSent", "established", "closeWait", "finWait", "lastAck", "timeWait", "closed"}

Shapes ==
    /\ client \in [wrote : Nat, unread : Nat, got : Nat, eof : BOOLEAN, gone : BOOLEAN]
    /\ bridge \in [toSocket : Nat, toStream : Nat, clientEof : BOOLEAN, socketClosed : BOOLEAN]
    /\ sock \in [state : States, tx : Nat, rx : Nat, finSeen : BOOLEAN]
    /\ remote \in [wrote : Nat, got : Nat, eof : BOOLEAN]

\* Where every byte is, in each direction, as long as the client is there.
Conserved ==
    /\ client.wrote = client.unread + bridge.toSocket + sock.tx + remote.got
    /\ ~client.gone => remote.wrote = sock.rx + bridge.toStream + client.got

\* The end of the client's side follows its bytes: out of the client, out of the bridge,
\* out of the socket.
EndFollows ==
    /\ bridge.clientEof /\ ~client.gone => client.eof /\ client.unread = 0
    /\ bridge.socketClosed => bridge.clientEof /\ (client.gone \/ bridge.toSocket = 0)
    /\ sock.state \in {"finWait", "lastAck", "timeWait"} => bridge.socketClosed
    /\ sock.state \in {"none", "synSent", "established", "closeWait"} => ~bridge.socketClosed
    /\ sock.finSeen => bridge.socketClosed /\ sock.tx = 0

\* Nothing is open before the engine accepts, and a finished bridge stays finished.
Lifecycle ==
    /\ conn \in {"none", "asking", "accepted", "open", "reaped", "refused", "torn"}
    /\ conn \in {"none", "asking", "accepted", "refused"} <=> sock.state = "none"
    /\ conn = "reaped" => Finished

TunnelInv == Shapes /\ Conserved /\ EndFollows /\ Lifecycle

LEMMA TunnelInit == NetInit => TunnelInv
BY DEF NetInit, Started, Bridged, TunnelInv, Shapes, States, Conserved, EndFollows, Lifecycle, Finished

\* The tunnel and the stack.
LEMMA EnginePollKeeps == TunnelInv /\ Poll => TunnelInv'
<1> SUFFICES ASSUME TunnelInv, Poll PROVE TunnelInv'
  OBVIOUS
<1> USE DEF TunnelInv, Shapes, States, Conserved, EndFollows, Lifecycle, Finished
<1>0. UNCHANGED <<conn, client, bridge>>
  BY DEF Poll
<1>1. CASE UNCHANGED <<sock, remote>>
  BY <1>0, <1>1
<1>2. CASE sock.state = "synSent" /\ sock' = [sock EXCEPT !.state = "established"] /\ UNCHANGED remote
  BY <1>0, <1>2
<1>3. CASE sock.state \notin {"none", "closed", "timeWait"} /\ sock' = [sock EXCEPT !.state = "closed"]
           /\ UNCHANGED remote
  BY <1>0, <1>3
<1>4. CASE sock.state \in {"established", "finWait"} /\ sock' = [sock EXCEPT !.rx = @ + 1]
           /\ remote' = [remote EXCEPT !.wrote = @ + 1]
  BY <1>0, <1>4
<1>5. CASE /\ sock.state \in {"established", "finWait"}
           /\ sock' = [sock EXCEPT !.state =
                  IF sock.state = "established" THEN "closeWait" ELSE IF sock.finSeen THEN "timeWait" ELSE "finWait"]
           /\ remote' = [remote EXCEPT !.eof = TRUE]
  BY <1>0, <1>5
<1>6. CASE Encapsulated
  <2>1. CASE /\ sock.state \in {"established", "closeWait", "finWait", "lastAck"} /\ sock.tx > 0
             /\ sock' = [sock EXCEPT !.tx = @ - 1] /\ remote' = [remote EXCEPT !.got = @ + 1]
    <3>1. sock' = [state |-> sock.state, tx |-> sock.tx - 1, rx |-> sock.rx, finSeen |-> sock.finSeen]
          /\ remote' = [wrote |-> remote.wrote, got |-> remote.got + 1, eof |-> remote.eof]
      BY <2>1
    <3>2. sock.tx - 1 \in Nat /\ ~sock.finSeen /\ conn # "reaped"
      BY <2>1
    <3>3. Shapes'
      BY <1>0, <3>1, <3>2
    <3>4. sock'.tx = sock.tx - 1 /\ sock'.rx = sock.rx /\ remote'.got = remote.got + 1
          /\ remote'.wrote = remote.wrote
      BY <3>1
    <3>5. Conserved'
      BY <1>0, <3>4
    <3>6. EndFollows' /\ Lifecycle'
      BY <1>0, <2>1, <3>1, <3>2
    <3> QED BY <3>3, <3>5, <3>6
  <2>2. CASE /\ sock.state \in {"finWait", "lastAck"} /\ sock.tx = 0
             /\ sock' = [sock EXCEPT !.finSeen = TRUE, !.state =
                    IF sock.state = "lastAck" THEN "closed" ELSE IF remote.eof THEN "timeWait" ELSE "finWait"]
             /\ UNCHANGED remote
    BY <1>0, <2>2
  <2> QED BY <1>6, <2>1, <2>2 DEF Encapsulated
<1> QED BY <1>1, <1>2, <1>3, <1>4, <1>5, <1>6 DEF Poll

\* Bytes move from the client to the socket and from the socket to the client; the end
\* only after the last of them.
LEMMA MoveKeeps == SockBuf \in Nat /\ TunnelInv /\ Move => TunnelInv'
<1> SUFFICES ASSUME SockBuf \in Nat, TunnelInv, Move PROVE TunnelInv'
  OBVIOUS
<1> USE DEF TunnelInv, Shapes, States, Conserved, EndFollows, Lifecycle, Finished
<1>0. UNCHANGED <<conn, client, remote>>
  BY DEF Move, ends
<1>1. CASE conn # "open"
  BY <1>0, <1>1 DEF Move
<1>2. CASE conn = "open"
  <2> DEFINE sent == IF CanSend THEN Lesser(bridge.toSocket, SockBuf - sock.tx) ELSE 0
             left == bridge.toSocket - sent
             fin  == bridge.clientEof /\ EndDue(left) /\ ~bridge.socketClosed
  <2>1. bridge' = [bridge EXCEPT !.toSocket = left, !.toStream = @ + sock.rx, !.socketClosed = @ \/ fin]
        /\ sock' = [sock EXCEPT !.tx = @ + sent, !.rx = 0, !.state = IF fin THEN AfterClose(@) ELSE @]
    BY <1>2 DEF Move
  <2>2. sent \in Nat /\ left \in Nat /\ (sent # 0 => CanSend)
    BY DEF CanSend, Lesser
  <2>3. fin \in BOOLEAN /\ (fin => bridge.clientEof /\ left = 0 /\ ~bridge.socketClosed)
    BY DEF EndDue
  <2>4. /\ AfterClose(sock.state) \in States
        /\ AfterClose(sock.state) \notin {"synSent", "established", "closeWait"}
        /\ AfterClose(sock.state) = "none" => sock.state = "none"
    BY DEF AfterClose
  <2> HIDE DEF sent, left, fin
  <2>5. CASE fin
    <3>1. bridge' = [toSocket |-> left, toStream |-> bridge.toStream + sock.rx, clientEof |-> bridge.clientEof,
                     socketClosed |-> TRUE]
          /\ sock' = [state |-> AfterClose(sock.state), tx |-> sock.tx + sent, rx |-> 0, finSeen |-> sock.finSeen]
      BY <2>1, <2>5
    <3> QED BY <1>0, <1>2, <2>2, <2>3, <2>4, <2>5, <3>1 DEF left
  <2>6. CASE ~fin
    <3>1. bridge' = [toSocket |-> left, toStream |-> bridge.toStream + sock.rx, clientEof |-> bridge.clientEof,
                     socketClosed |-> bridge.socketClosed]
          /\ sock' = [state |-> sock.state, tx |-> sock.tx + sent, rx |-> 0, finSeen |-> sock.finSeen]
      BY <2>1, <2>6
    <3> QED BY <1>0, <1>2, <2>2, <2>6, <3>1 DEF left, CanSend
  <2> QED BY <2>5, <2>6
<1> QED BY <1>1, <1>2

LEMMA TunnelStep == SockBuf \in Nat /\ TunnelInv /\ [NetNext]_netVars => TunnelInv'
<1> SUFFICES ASSUME SockBuf \in Nat, TunnelInv, [NetNext]_netVars PROVE TunnelInv'
  OBVIOUS
<1> USE DEF TunnelInv, Shapes, States, Conserved, EndFollows, Lifecycle, Finished
<1>1. CASE Settle \/ CommandEnds \/ Ask
  BY <1>1 DEF Settle, CommandEnds, Ask, ends
<1>2. CASE Handshake
  BY <1>2 DEF Handshake, ends
<1>3. CASE ClientWrites
  <2>1. client' = [wrote |-> client.wrote + 1, unread |-> client.unread + 1, got |-> client.got,
                   eof |-> client.eof, gone |-> client.gone]
    BY <1>3 DEF ClientWrites
  <2>2. UNCHANGED <<conn, bridge, sock, remote>> /\ ~client.eof
    BY <1>3 DEF ClientWrites
  <2> QED BY <2>1, <2>2
<1>4. CASE ClientEnds
  <2>1. UNCHANGED <<conn, bridge, sock, remote>>
    BY <1>4 DEF ClientEnds
  <2>2. PICK gone \in BOOLEAN : client' = [wrote |-> client.wrote, unread |-> client.unread,
                                         got |-> client.got, eof |-> TRUE, gone |-> gone]
                             /\ (client.gone => gone)
    <3>1. CASE client' = [client EXCEPT !.eof = TRUE]
      BY <3>1
    <3>2. CASE client' = [client EXCEPT !.eof = TRUE, !.gone = TRUE]
      BY <3>2
    <3> QED BY <1>4, <3>1, <3>2 DEF ClientEnds
  <2>3. Shapes' /\ Conserved'
    BY <2>1, <2>2
  <2>4. EndFollows' /\ Lifecycle'
    BY <2>1, <2>2
  <2> QED BY <2>3, <2>4
<1>5. CASE Top
  BY <1>5 DEF Top, ends
<1>6. CASE Accept
  BY <1>6 DEF Accept, ends, Tick
<1>7. CASE Read
  <2>0. UNCHANGED <<conn, sock, remote>>
    BY <1>7 DEF Read
  <2>1. CASE UNCHANGED <<client, bridge>>
    BY <2>0, <2>1
  <2>2. CASE /\ conn = "open" /\ ~bridge.clientEof
             /\ client' = [client EXCEPT !.unread = 0]
             /\ bridge' = [bridge EXCEPT !.toSocket = @ + client.unread,
                                         !.clientEof = client.gone \/ (client.eof /\ client.unread = 0)]
    <3>1. client' = [wrote |-> client.wrote, unread |-> 0, got |-> client.got,
                     eof |-> client.eof, gone |-> client.gone]
      BY <2>2
    <3>2. bridge' = [toSocket |-> bridge.toSocket + client.unread, toStream |-> bridge.toStream,
                     clientEof |-> client.gone \/ (client.eof /\ client.unread = 0),
                     socketClosed |-> bridge.socketClosed]
      BY <2>2
    <3>3. ~bridge.socketClosed
      BY <2>2
    <3> QED BY <2>0, <2>2, <3>1, <3>2, <3>3
  <2> QED BY <1>7, <2>1, <2>2 DEF Read
<1>8. CASE Poll
  BY <1>8, EnginePollKeeps
<1>9. CASE Move
  BY <1>9, MoveKeeps
<1>10. CASE Flush
  <2>1. PICK n \in 0 .. bridge.toStream :
          /\ bridge' = [bridge EXCEPT !.toStream = @ - n]
          /\ client' = [client EXCEPT !.got = IF client.gone THEN @ ELSE @ + n]
    BY <1>10 DEF Flush
  <2>2. UNCHANGED <<conn, sock, remote>> /\ n \in Nat /\ bridge.toStream - n \in Nat
    BY <1>10, <2>1 DEF Flush
  <2>3. bridge' = [toSocket |-> bridge.toSocket, toStream |-> bridge.toStream - n,
                   clientEof |-> bridge.clientEof, socketClosed |-> bridge.socketClosed]
    BY <2>1
  <2>4. client' = [wrote |-> client.wrote, unread |-> client.unread,
                   got |-> IF client.gone THEN client.got ELSE client.got + n,
                   eof |-> client.eof, gone |-> client.gone]
    BY <2>1
  <2>5. bridge.toStream = 0 => n = 0
    BY <2>1
  <2> QED BY <2>2, <2>3, <2>4, <2>5
<1>11. CASE Reap
  BY <1>11 DEF Reap, ends, Tick
<1>12. CASE UNCHANGED netVars
  BY <1>12 DEF netVars, ends
<1> QED BY <1>1, <1>2, <1>3, <1>4, <1>5, <1>6, <1>7, <1>8, <1>9, <1>10, <1>11, <1>12 DEF NetNext

\* Every byte arrives before the bridge is taken down, and the end of the client's side
\* never before its last byte (engine_loop), however slow the client, the tunnel and the
\* remote end are.
THEOREM TunnelLosesNothing == ASSUME SockBuf \in Nat PROVE NetSpec => []NothingLost
<1>1. TunnelInv => NothingLost
  BY DEF TunnelInv, Shapes, Conserved, EndFollows, Lifecycle, Finished, NothingLost
<1>2. TunnelInv /\ [NetNext]_netVars => TunnelInv'
  BY TunnelStep
<1> QED BY <1>1, <1>2, TunnelInit, PTL DEF NetSpec

-----------------------------------------------------------------------------
(* CpCalls: requests, the export, the sample demo. *)

\* An endpoint that takes a proof, or may be told to prefer a stronger factor.
Demanding(e) == e.sensitive \/ e.name = "request_step_up"

\* How each of them authenticates and what it keeps of a refusal: the demands, if it may
\* make one.
Hear(endpoints) == \A e \in endpoints :
    /\ e.auth \in {"token", "body"} /\ e.sensitive \in BOOLEAN
    /\ e.error \in {"typed", "message", "status"}
    /\ Demanding(e) => e.error = "typed"

LEMMA FamiliesAreHeard ==
    ASSUME NEW names
    PROVE  /\ "request_step_up" \notin names =>
                /\ Hear(Get(names))
                /\ \A error \in {"typed", "status"} : Hear(Bearing(names, error))
           /\ Hear(Write(names)) /\ Hear(Sensitive(names)) /\ Hear(Unbounded(names))
BY DEF Hear, Demanding, Get, Write, Sensitive, Bearing, Unbounded

LEMMA DemandsAreHeard == Hear(Endpoints)
<1>0. ASSUME NEW S, NEW T, Hear(S), Hear(T) PROVE Hear(S \cup T)
  BY <1>0 DEF Hear
<1> USE <1>0, FamiliesAreHeard
<1>1. Hear(SessionEndpoints)
  <2>1. Hear([name : {"post_diagnostics"}, auth : {"token"}, sensitive : {FALSE}, timed : {TRUE},
              error : {"status"}])
    BY DEF Hear, Demanding
  <2> QED BY <2>1 DEF SessionEndpoints
<1>2. Hear(RosterEndpoints) /\ Hear(EnrollEndpoints)
  BY DEF RosterEndpoints, EnrollEndpoints
<1>3. Hear(SshEndpoints)
  BY DEF SshEndpoints
<1>4. Hear(SubdomainEndpoints)
  BY DEF SubdomainEndpoints
<1>5. Hear(MemberEndpoints)
  BY DEF MemberEndpoints
<1>6. Hear(PolicyEndpoints) /\ Hear(WorkloadEndpoints) /\ Hear(ApprovalEndpoints) /\ Hear(GrantEndpoints)
  BY DEF PolicyEndpoints, WorkloadEndpoints, ApprovalEndpoints, GrantEndpoints
<1>7. Hear(ExportEndpoints)
  BY DEF ExportEndpoints
<1>8. Hear(AgentEndpoints)
  <2>1. Hear([name : {"mint_agent_token"}, auth : {"token"}, sensitive : {FALSE}, timed : {TRUE},
              error : {"message"}])
    BY DEF Hear, Demanding
  <2> QED BY <2>1 DEF AgentEndpoints
<1>9. Hear(CiEndpoints) /\ Hear(TagEndpoints)
  BY DEF CiEndpoints, TagEndpoints
<1>10. Hear(StepUpEndpoints) /\ Hear(WebAuthnEndpoints)
  BY DEF StepUpEndpoints, WebAuthnEndpoints
<1>11. Hear(FactorEndpoints) /\ Hear(PlatformKeyEndpoints)
  BY DEF FactorEndpoints, PlatformKeyEndpoints
<1> QED BY <1>1, <1>2, <1>3, <1>4, <1>5, <1>6, <1>7, <1>8, <1>9, <1>10, <1>11 DEF Hear, Endpoints

Results == {"none", "ok", "session_expired", "transport", "step_up_required",
            "strong_factor_required", "server", "status"}
Bodies  == [json : BOOLEAN, message : BOOLEAN, stepUp : BOOLEAN, strongFactor : BOOLEAN]
Calls   == [at : {"idle", "sent", "answered"}, endpoint : Endpoints, proof : BOOLEAN,
            body : Bodies, result : Results]

\* Nothing is left of an earlier refusal when a request is sent.
DemandInv ==
    /\ call \in Calls
    /\ call.at # "answered" => call.body = Garbled
    /\ DemandIsHeard

LEMMA BodiesOfRefusals ==
    /\ Garbled \in Bodies /\ ~Garbled.stepUp /\ ~Garbled.strongFactor
    /\ \A m \in BOOLEAN : /\ Plain(m) \in Bodies /\ ~Plain(m).stepUp /\ ~Plain(m).strongFactor
                          /\ Plain(m).json
BY DEF Garbled, Plain, Bodies

LEMMA QuotaIsServed == NoCall \in Calls /\ NoCall.at = "idle" /\ NoCall.body = Garbled
<1>1. \E e \in Endpoints : e.name = "quota"
  <2>1. [name |-> "quota", auth |-> "token", sensitive |-> FALSE, timed |-> TRUE, error |-> "status"]
          \in RosterEndpoints
    BY DEF RosterEndpoints, Get
  <2> QED BY <2>1 DEF Endpoints
<1> QED BY <1>1, BodiesOfRefusals DEF NoCall, Calls, Results

\* What is demanded of an endpoint is what its caller is told.
LEMMA DenialIsDemanded ==
    ASSUME call \in Calls, NEW b \in Denials(call)
    PROVE  /\ b \in Bodies
           /\ b.stepUp \/ b.strongFactor => Demanding(call.endpoint) /\ b.json
<1>1. CASE b \in {Plain(TRUE), Garbled}
  BY <1>1, BodiesOfRefusals
<1>2. CASE \E m \in BOOLEAN : call.endpoint.sensitive /\ b = [Plain(m) EXCEPT !.stepUp = TRUE]
  <2>1. PICK m \in BOOLEAN : call.endpoint.sensitive /\ b = [Plain(m) EXCEPT !.stepUp = TRUE]
    BY <1>2
  <2> QED BY <2>1, BodiesOfRefusals DEF Bodies, Demanding
<1>3. CASE \E m \in BOOLEAN : call.endpoint.name = "request_step_up" /\ b = [Plain(m) EXCEPT !.strongFactor = TRUE]
  <2>1. PICK m \in BOOLEAN : call.endpoint.name = "request_step_up" /\ b = [Plain(m) EXCEPT !.strongFactor = TRUE]
    BY <1>3
  <2> QED BY <2>1, BodiesOfRefusals DEF Bodies, Demanding
<1>4. \/ b \in {Plain(TRUE), Garbled}
      \/ call.endpoint.sensitive /\ b \in {[Plain(m) EXCEPT !.stepUp = TRUE] : m \in BOOLEAN}
      \/ /\ call.endpoint.name = "request_step_up"
         /\ b \in {[Plain(m) EXCEPT !.strongFactor = TRUE] : m \in BOOLEAN}
  <2>1. CASE call.endpoint.auth = "token" /\ ~signedIn
    BY <2>1 DEF Denials
  <2>2. CASE ~(call.endpoint.auth = "token" /\ ~signedIn) /\ (call.endpoint.auth = "body" \/ signedIn)
    BY <2>2 DEF Denials
  <2>3. call.endpoint.auth \in {"token", "body"}
    BY DemandsAreHeard DEF Calls, Hear
  <2> QED BY <2>1, <2>2, <2>3
<1> QED BY <1>1, <1>2, <1>3, <1>4

LEMMA DemandStep == DemandInv /\ [CallNext]_callVars => DemandInv'
<1> SUFFICES ASSUME DemandInv, [CallNext]_callVars PROVE DemandInv'
  OBVIOUS
<1>1. ASSUME NEW e \in Endpoints, Send(e) PROVE DemandInv'
  <2>1. \/ call' = [NoCall EXCEPT !.at = "answered", !.endpoint = e, !.result = "session_expired"]
        \/ \E proof \in BOOLEAN : call' = [NoCall EXCEPT !.at = "sent", !.endpoint = e, !.proof = proof]
    BY <1>1, DemandsAreHeard DEF Send, Hear
  <2> QED BY <2>1, QuotaIsServed, BodiesOfRefusals DEF DemandInv, DemandIsHeard, Calls, Results
<1>2. CASE Served
  <2>1. CASE call' = [call EXCEPT !.at = "answered", !.result = "ok"]
    BY <2>1 DEF DemandInv, DemandIsHeard, Calls, Results
  <2>2. ASSUME NEW b \in Denials(call) \cup {Plain(TRUE), Plain(FALSE), Garbled},
               call' = [call EXCEPT !.at = "answered", !.body = b, !.result = ErrorOf(call.endpoint, b)]
        PROVE  DemandInv'
    <3>1. b \in Bodies /\ (b.stepUp \/ b.strongFactor => call.endpoint.error = "typed" /\ b.json)
      BY <2>2, DenialIsDemanded, BodiesOfRefusals, DemandsAreHeard DEF DemandInv, Calls, Hear
    <3>2. /\ ErrorOf(call.endpoint, b) \in Results
          /\ b.stepUp => ErrorOf(call.endpoint, b) = "step_up_required"
          /\ b.strongFactor /\ ~b.stepUp => ErrorOf(call.endpoint, b) = "strong_factor_required"
      <4>1. StatusError(b) \in Results
        BY DEF StatusError, Results
      <4>2. call.endpoint.error \in {"typed", "message", "status"}
        BY DemandsAreHeard DEF DemandInv, Calls, Hear
      <4>3. ErrorOf(call.endpoint, b) \in Results
        BY <4>1, <4>2 DEF ErrorOf, Results
      <4>4. CASE b.stepUp \/ b.strongFactor
        BY <3>1, <4>3, <4>4 DEF ErrorOf, StatusError, Bodies
      <4> QED BY <4>3, <4>4
    <3>3. call' \in Calls /\ call'.at = "answered" /\ call'.body = b /\ call'.result = ErrorOf(call.endpoint, b)
      BY <2>2, <3>1, <3>2 DEF DemandInv, Calls
    <3> QED BY <3>2, <3>3 DEF DemandInv, DemandIsHeard
  <2> QED BY <1>2, <2>1, <2>2 DEF Served
<1>3. CASE TimesOut \/ Break
  <2>1. call.at = "sent" /\ call' = [call EXCEPT !.at = "answered", !.result = "transport"]
    BY <1>3 DEF TimesOut, Break
  <2> QED BY <2>1, BodiesOfRefusals DEF DemandInv, DemandIsHeard, Calls, Results
<1>4. CASE Told
  BY <1>4, BodiesOfRefusals DEF Told, DemandInv, DemandIsHeard, Calls, Results
<1>5. CASE UNCHANGED call
  BY <1>5 DEF DemandInv, DemandIsHeard, Calls
<1>6. ExportStart \/ PageRead \/ Capped \/ PageFails \/ Exported \/ PublishStart \/ Listed \/ Unpublish
          => UNCHANGED call
  BY DEF ExportStart, PageRead, Capped, PageFails, Exported, PublishStart, Listed, Unpublish
<1>7. \A l : RegisterLabel(l) \/ LateArrival(l) => UNCHANGED call
  BY DEF RegisterLabel, LateArrival
<1>8. UNCHANGED callVars => UNCHANGED call
  BY DEF callVars
<1> QED BY <1>1, <1>2, <1>3, <1>4, <1>5, <1>6, <1>7, <1>8 DEF CallNext

\* Every sensitive endpoint, and the one that is refused a downgrade, keeps what the control
\* plane demands, in every order of requests, refusals and timeouts (status_error).
THEOREM DemandsReachTheCaller == CallSpec => []DemandIsHeard
<1>1. CallInit => DemandInv
  BY QuotaIsServed DEF CallInit, DemandInv, DemandIsHeard
<1>2. DemandInv => DemandIsHeard
  BY DEF DemandInv
<1> QED BY <1>1, <1>2, DemandStep, PTL DEF CallSpec

\* While the walk goes on, it has every row up to the cursor and the ledger only grows; it ends
\* as complete with the rows up to a tail, or on a page whose cursor is missing.
WalkInv ==
    /\ rows \in Nat
    /\ walk.complete \in BOOLEAN
    /\ walk.at = "page" =>
        /\ walk.after \in Nat /\ walk.had \in Nat /\ walk.had <= rows
        /\ 1..walk.after \subseteq walk.got
        /\ ~walk.complete
    /\ walk.at \in {"write", "done"} /\ walk.complete /\ ~walk.cut => 1..walk.had \subseteq walk.got

\* For any number of rows, any page size and any cap on the pages, though every page that is
\* read appends to the ledger, an export called complete has what was there (export_ledger),
\* unless a page short of the tail came without its cursor.
THEOREM CompleteExportsHaveAll == CallSpec => []CompleteMeansAll
<1>1. CallInit => WalkInv
  BY DEF CallInit, NoWalk, WalkInv
<1>2. WalkInv /\ [CallNext]_callVars => WalkInv'
  <2> SUFFICES ASSUME WalkInv, [CallNext]_callVars PROVE WalkInv'
    OBVIOUS
  <2>1. CASE ExportStart
    <3>1. walk' = [at |-> "page", got |-> {}, had |-> rows, after |-> 0, pages |-> 0,
                   complete |-> FALSE, cut |-> FALSE]
          /\ rows' = rows
      BY <2>1 DEF ExportStart, NoWalk
    <3> QED BY <3>1 DEF WalkInv
  <2>2. CASE PageRead
    <3>1. PICK last \in walk.after..rows, legible \in BOOLEAN :
             LET tail == last = rows
                 next == ~tail /\ legible
             IN  walk' = [walk EXCEPT !.got = @ \cup (walk.after + 1)..last,
                                      !.after = last,
                                      !.pages = @ + 1,
                                      !.complete = tail \/ ~next,
                                      !.cut = ~tail /\ ~next,
                                      !.at = IF tail \/ ~next THEN "write" ELSE "page"]
      BY <2>2 DEF PageRead
    <3>2. rows' \in {rows, rows + 1} /\ walk.at = "page"
      BY <2>2 DEF PageRead
    <3>3. CASE last = rows
      BY <3>1, <3>2, <3>3 DEF WalkInv
    <3>4. CASE last # rows
      BY <3>1, <3>2, <3>4 DEF WalkInv
    <3> QED BY <3>3, <3>4
  <2>3. CASE Capped
    BY <2>3 DEF Capped, WalkInv
  <2>4. CASE PageFails \/ Exported
    <3>1. UNCHANGED rows
      BY <2>4 DEF PageFails, Exported
    <3>2. CASE walk' = NoWalk
      BY <3>1, <3>2 DEF NoWalk, WalkInv
    <3>3. CASE walk.at = "write" /\ walk' = [walk EXCEPT !.at = "done"]
      BY <3>1, <3>3 DEF WalkInv
    <3> QED BY <2>4, <3>2, <3>3 DEF PageFails, Exported
  <2>5. CASE UNCHANGED <<walk, rows>>
    BY <2>5 DEF WalkInv
  <2>6. ASSUME \/ \E e : Send(e) \/ RegisterLabel(e) \/ LateArrival(e)
               \/ Served \/ TimesOut \/ Break \/ Told \/ PublishStart \/ Listed \/ Unpublish
               \/ UNCHANGED callVars
        PROVE  UNCHANGED <<walk, rows>>
    BY <2>6 DEF Send, RegisterLabel, LateArrival, Served, TimesOut, Break, Told, PublishStart, Listed,
                Unpublish, TheRest, callVars
  <2> QED BY <2>1, <2>2, <2>3, <2>4, <2>5, <2>6 DEF CallNext
<1>3. WalkInv => CompleteMeansAll
  BY DEF WalkInv, CompleteMeansAll
<1> QED BY <1>1, <1>2, <1>3, PTL DEF CallSpec

\* The one name the control plane gives this node's demo, whether the plain one is taken or not.
TheLabel == IF taken THEN "demo-2" ELSE "demo"

\* A name is asked for only when there is none, and a suffix only where the plain name is taken;
\* what arrives late is the same name again.
DemoInv ==
    ~overtaken =>
        /\ demos \subseteq {TheLabel}
        /\ late \subseteq {"demo", TheLabel}
        /\ publish.at \in {"register", "register_suffixed"} => demos = {}
        /\ publish.at = "register_suffixed" => taken

\* However often answers are lost, requests time out and the user tries again, there is one
\* demo (publish_sample_demo), unless a registration given up before arrives between the list
\* and the registration of a later try.
THEOREM PublishingAgainMintsNone == CallSpec => []OneDemo
<1>1. CallInit => DemoInv
  BY DEF CallInit, DemoInv, NotPublishing
<1>2. DemoInv /\ [CallNext]_callVars => DemoInv'
  <2> SUFFICES ASSUME DemoInv, [CallNext]_callVars, ~overtaken' PROVE DemoInv!2'
    BY DEF DemoInv
  <2>0. taken' = taken /\ (overtaken => overtaken')
    <3>1. \/ \E e : Send(e)
          \/ Served \/ TimesOut \/ Break \/ Told \/ UNCHANGED callVars
          => UNCHANGED <<taken, overtaken>>
      BY DEF Send, Served, TimesOut, Break, Told, TheRest, labels, callVars
    <3>2. ExportStart \/ PageRead \/ Capped \/ PageFails \/ Exported => UNCHANGED <<taken, overtaken>>
      BY DEF ExportStart, PageRead, Capped, PageFails, Exported, labels
    <3>3. PublishStart \/ Listed \/ Unpublish => UNCHANGED <<taken, overtaken>>
      BY DEF PublishStart, Listed, Unpublish, labels
    <3>4. \A l : RegisterLabel(l) => UNCHANGED <<taken, overtaken>>
      BY DEF RegisterLabel
    <3>5. ASSUME NEW l, LateArrival(l) PROVE UNCHANGED taken /\ (overtaken => overtaken')
      <4>1. UNCHANGED taken
        BY <3>5 DEF LateArrival
      <4>2. UNCHANGED overtaken
            \/ overtaken' = (overtaken \/ publish.at \in {"register", "register_suffixed"})
        BY <3>5 DEF LateArrival
      <4>3. overtaken => overtaken'
        BY <4>2, Zenon
      <4> QED BY <4>1, <4>3
    <3> QED BY <3>1, <3>2, <3>3, <3>4, <3>5 DEF CallNext
  <2>a. ~overtaken /\ TheLabel' = TheLabel /\ DemoInv!2
    BY <2>0 DEF DemoInv, TheLabel
  <2>1. CASE PublishStart
    BY <2>1, <2>a DEF PublishStart, labels
  <2>2. CASE Listed
    BY <2>2, <2>a, <2>0 DEF Listed, NotPublishing, labels
  <2>3. ASSUME NEW l \in {"demo", "demo-2"}, RegisterLabel(l) PROVE DemoInv!2'
    <3>1. /\ publish.at = (IF l = "demo" THEN "register" ELSE "register_suffixed")
          /\ demos = {} /\ (l = "demo-2" => taken)
      BY <2>3, <2>a DEF RegisterLabel
    <3>2. CASE Registers(l) /\ publish' = NotPublishing /\ UNCHANGED late
      <4>1. l = TheLabel /\ demos' = {l}
        BY <3>1, <3>2 DEF Registers, TheLabel
      <4> QED BY <2>a, <3>2, <4>1 DEF NotPublishing
    <3>3. CASE /\ l = "demo" /\ (taken \/ l \in demos)
               /\ publish' = [publish EXCEPT !.at = "register_suffixed"] /\ UNCHANGED <<demos, late>>
      BY <2>0, <2>a, <3>1, <3>3
    <3>4. CASE publish' = NotPublishing /\ UNCHANGED demos /\ late' \subseteq late \cup {l}
      <4>1. l \in {"demo", TheLabel}
        BY <3>1 DEF TheLabel
      <4> QED BY <2>a, <3>4, <4>1 DEF NotPublishing
    <3> QED BY <2>3, <3>2, <3>3, <3>4 DEF RegisterLabel
  <2>4. ASSUME NEW l \in {"demo", "demo-2"}, LateArrival(l) PROVE DemoInv!2'
    <3>1. l \in {"demo", TheLabel} /\ late' \subseteq late /\ publish' = publish
      BY <2>4, <2>a DEF LateArrival
    <3>2. CASE UNCHANGED demos
      BY <2>0, <2>a, <3>1, <3>2
    <3>3. CASE Registers(l) /\ overtaken' = (overtaken \/ publish.at \in {"register", "register_suffixed"})
      <4>1. demos' = demos \cup {l} /\ l = TheLabel
        BY <3>1, <3>3 DEF Registers, TheLabel
      <4> QED BY <2>a, <3>1, <3>3, <4>1
    <3> QED BY <2>4, <3>2, <3>3 DEF LateArrival
  <2>5. CASE Unpublish
    BY <2>5, <2>a DEF Unpublish
  <2>6. CASE UNCHANGED <<demos, late, publish>>
    BY <2>6, <2>0, <2>a
  <2>7. ASSUME \/ \E e : Send(e)
               \/ Served \/ TimesOut \/ Break \/ Told
               \/ ExportStart \/ PageRead \/ Capped \/ PageFails \/ Exported
               \/ UNCHANGED callVars
        PROVE  UNCHANGED <<demos, late, publish>>
    BY <2>7 DEF Send, Served, TimesOut, Break, Told, ExportStart, PageRead, Capped, PageFails, Exported,
                TheRest, labels, callVars
  <2> QED BY <2>1, <2>2, <2>3, <2>4, <2>5, <2>6, <2>7 DEF CallNext
<1>3. DemoInv => OneDemo
  <2> SUFFICES ASSUME DemoInv, ~overtaken PROVE Cardinality(demos) <= 1
    BY DEF OneDemo
  <2>1. demos = {} \/ demos = {TheLabel}
    BY DEF DemoInv
  <2>2. CASE demos = {}
    BY <2>2, FS_EmptySet
  <2>3. CASE demos = {TheLabel}
    BY <2>3, FS_Singleton
  <2> QED BY <2>1, <2>2, <2>3
<1> QED BY <1>1, <1>2, <1>3, PTL DEF CallSpec

=============================================================================
