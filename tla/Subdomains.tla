----------------------------- MODULE Subdomains ------------------------------
(***************************************************************************)
(* The private names of a node (agent-daemon/src/tls_relay.rs, resolver.rs *)
(* and the resync of up.rs): the resolver's table, the two listeners that  *)
(* relay a name to a local port, and the way of a name from no certificate *)
(* to one that is served.                                                  *)
(***************************************************************************)
EXTENDS Integers, FiniteSets

CONSTANTS
    Names,       \* fully qualified names
    MaxSerial,   \* bound: certificates the control plane issues per name
    MaxPolls,    \* polls of an owner task (30 in the code)
    MaxRestarts  \* bound: restarts of the agent

VARIABLES
    cp,       \* the control plane: owner, certificate order, its key and serial
    keyFile,  \* per name, the key on disk (0: none, TornKey)
    certFile, \* per name, the certificate on disk
    replaced, \* history: names whose key could not be read and was replaced
    table,    \* names the resolver answers
    routes,   \* names the listeners relay
    sni,      \* per name, what the TLS listener presents: certificate and key
    attempted,  \* names an owner task was spawned for
    task,     \* per name, the owner task: where it is, polls made, token refused
    tls,      \* the TLS listener: off, serving, failed (not bound, or ended by an error)
    restarts

vars == <<cp, keyFile, certFile, replaced, table, routes, sni, attempted, task, tls, restarts>>

\* What a write leaves that is cut off by an error or the end of the process: a file
\* that cannot be parsed.
TornKey  == -1
TornCert == [key |-> TornKey, serial |-> 0]

NoCert == [key |-> 0, serial |-> 0]
Unordered == [owner |-> "none", issued |-> FALSE, cert |-> NoCert]
NoTask == [at |-> "none", polls |-> 0, stale |-> FALSE]
NotServed == [cert |-> NoCert, key |-> 0]

disk == <<keyFile, certFile, replaced>>
mem  == <<table, routes, sni, attempted, tls>>

Init ==
    /\ cp = [n \in Names |-> Unordered]
    /\ keyFile = [n \in Names |-> 0] /\ certFile = [n \in Names |-> NoCert]
    /\ replaced = {} /\ table = {} /\ routes = {} /\ attempted = {} /\ tls = "off"
    /\ sni = [n \in Names |-> NotServed] /\ task = [n \in Names |-> NoTask]
    /\ restarts = 0

Owned == {n \in Names : cp[n].owner = "me"}

-----------------------------------------------------------------------------
(* The listener. *)

\* A row of SniCerts: what the listener presents to a client that asks for the name.
Certified(certs, n) == [cert |-> certs[n], key |-> keyFile[n]]

\* certified_key: the two files can be parsed.  It does not compare them.
Usable(certs, n) == certs[n] \notin {NoCert, TornCert} /\ keyFile[n] \notin {0, TornKey}

\* Mistaken variant: a name that is served already is left as it is.
LoadedOnce(served, certs, n) ==
    IF ~Usable(certs, n) \/ served[n] # NotServed THEN served[n] ELSE Certified(certs, n)

\* ensure_listener: what is on disk now goes into the table, renewed or not; a pair that
\* is not usable leaves what was there.
Loaded(served, certs, n) == IF Usable(certs, n) THEN Certified(certs, n) ELSE served[n]

\* run_tls_listener: one bind for all names.
RunTlsListener == tls' \in {"serving", "failed"}

\* ensure_listener for some names, those whose two files can be read: their row, and the
\* shared listener once; a bind that fails is not tried again.
EnsureListener(names, certs) ==
    /\ sni' = [n \in Names |-> IF n \in names THEN Loaded(sni, certs, n) ELSE sni[n]]
    /\ IF tls = "off" /\ (\E n \in names : Usable(certs, n)) THEN RunTlsListener ELSE UNCHANGED tls

\* An error of accept ends the listener's task, and none is spawned again.
ListenerEnds ==
    /\ tls = "serving" /\ tls' = "failed"
    /\ UNCHANGED <<cp, disk, table, routes, sni, attempted, task, restarts>>

\* Resolver::set, with the names of every node of the tenant.
SetTable == table' = {n \in Names : cp[n].owner # "none"}

\* ensure_http_listener: a name needs no certificate to be relayed.
EnsureHttpListener(names) == routes' = routes \cup names

\* spawn_owner_task, once for each name in the life of the process.
SpawnOwnerTasks(names) ==
    /\ attempted' = attempted \cup names
    /\ task' = [n \in Names |-> IF n \in names \ attempted THEN [NoTask EXCEPT !.at = "submit"] ELSE task[n]]

\* A resync: the table is replaced, every name of this node has a route at once, and
\* an owner task the first time it is seen.  Files of some names may not be readable now.
Resync(unread) ==
    /\ SetTable /\ EnsureHttpListener(Owned) /\ SpawnOwnerTasks(Owned)
    /\ EnsureListener((Owned \cap attempted) \ unread, certFile)
    /\ UNCHANGED <<cp, disk, restarts>>

-----------------------------------------------------------------------------
(* An owner task. *)

\* Mistaken variant: every submission has a key of its own.
FreshKey(n) == keyFile[n] + 1

\* The key of a name: the one on disk, or the first.
KeyFor(n) == IF keyFile[n] = 0 THEN 1 ELSE keyFile[n]

\* load_or_generate_keypair: the key on disk, torn or not, or a new one, whose write may
\* not begin or be cut off.  A file that cannot be read counts as none and is replaced
\* (bound: once for a name).
LoadOrGenerate(n) ==
    \/ keyFile' = [keyFile EXCEPT ![n] = KeyFor(n)] /\ UNCHANGED replaced
    \/ keyFile[n] = 0 /\ keyFile' \in {keyFile, [keyFile EXCEPT ![n] = TornKey]} /\ UNCHANGED replaced
    \/ /\ keyFile[n] # 0 /\ n \notin replaced /\ replaced' = replaced \cup {n}
       /\ \E key \in {2, TornKey} : keyFile' = [keyFile EXCEPT ![n] = key]

\* The certificate request, unless there is a certificate on disk that can be read.  There
\* may be no key for it, it may not get there, its answer may be lost, the token may be
\* stale: polling starts anyway.
Submit(n) ==
    /\ task[n].at = "submit" /\ task' = [task EXCEPT ![n].at = "poll"]
    /\ \/ certFile[n] # NoCert /\ UNCHANGED <<cp, keyFile, replaced>>
       \/ /\ LoadOrGenerate(n)
          /\ \/ /\ ~task[n].stale /\ cp[n].owner = "me" /\ keyFile'[n] \notin {0, TornKey}
                /\ cp' = [cp EXCEPT ![n].cert.key = keyFile'[n], ![n].issued = FALSE]
             \/ UNCHANGED cp
    /\ UNCHANGED <<certFile, mem, restarts>>

\* One poll: a certificate on disk, torn or not, or one to be had and stored, ends the
\* task; its listener may find the files unreadable.
PollHit(n) ==
    /\ task[n].at = "poll"
    /\ \/ certFile[n] # NoCert /\ UNCHANGED certFile
       \/ ~task[n].stale /\ cp[n].issued /\ certFile' = [certFile EXCEPT ![n] = cp[n].cert]
    /\ \E read \in SUBSET {n} : EnsureListener(read, certFile')
    /\ routes' = routes \cup {n}
    /\ task' = [task EXCEPT ![n] = NoTask]
    /\ UNCHANGED <<cp, keyFile, replaced, table, attempted, restarts>>

\* None yet, no answer, or the write of it fails, which may leave a torn file or a whole
\* one; after the last poll the task gives up.
PollMiss(n) ==
    /\ task[n].at = "poll"
    /\ \/ UNCHANGED certFile
       \/ /\ ~task[n].stale /\ cp[n].issued
          /\ \E cert \in {cp[n].cert, TornCert} : certFile' = [certFile EXCEPT ![n] = cert]
    /\ task' = [task EXCEPT ![n] = IF @.polls + 1 = MaxPolls THEN NoTask ELSE [@ EXCEPT !.polls = @ + 1]]
    /\ UNCHANGED <<cp, keyFile, replaced, mem, restarts>>

\* The event cert_issued, if the stream is up: on disk, perhaps torn, and served from the
\* next resync.
Push(n) ==
    /\ cp[n].issued
    /\ \E cert \in {cp[n].cert, TornCert} : certFile' = [certFile EXCEPT ![n] = cert]
    /\ UNCHANGED <<cp, keyFile, replaced, mem, task, restarts>>

-----------------------------------------------------------------------------
(* The control plane, the token and the process. *)

Register(n) ==
    /\ cp[n].owner = "none" /\ \E o \in {"me", "other"} : cp' = [cp EXCEPT ![n].owner = o]
    /\ UNCHANGED <<disk, mem, task, restarts>>

Remove(n) ==
    /\ cp[n].owner # "none" /\ cp' = [cp EXCEPT ![n].owner = "none", ![n].issued = FALSE]
    /\ UNCHANGED <<disk, mem, task, restarts>>

\* The first certificate of an order, or its renewal.
Issue(n) ==
    /\ cp[n].owner = "me" /\ cp[n].cert.key # 0 /\ cp[n].cert.serial < MaxSerial
    /\ cp' = [cp EXCEPT ![n].issued = TRUE, ![n].cert.serial = @ + 1]
    /\ UNCHANGED <<disk, mem, task, restarts>>

\* The service token is rotated: running tasks keep the one they were given.
Rotate ==
    /\ task' = [n \in Names |-> IF task[n].at = "none" THEN task[n] ELSE [task[n] EXCEPT !.stale = TRUE]]
    /\ UNCHANGED <<cp, disk, mem, restarts>>

Restart ==
    /\ restarts < MaxRestarts /\ restarts' = restarts + 1
    /\ table' = {} /\ routes' = {} /\ attempted' = {} /\ tls' = "off"
    /\ sni' = [n \in Names |-> NotServed] /\ task' = [n \in Names |-> NoTask]
    /\ UNCHANGED <<cp, disk>>

Next ==
    \/ Rotate \/ Restart \/ ListenerEnds
    \/ \E unread \in SUBSET Names : Resync(unread)
    \/ \E n \in Names :
        \/ Submit(n) \/ PollHit(n) \/ PollMiss(n) \/ Push(n)
        \/ Register(n) \/ Remove(n) \/ Issue(n)

\* The loop of the daemon resyncs at least once a minute, and what is on disk can be read
\* again.
Fairness == WF_vars(Resync({}))

Spec == Init /\ [][Next]_vars /\ Fairness

-----------------------------------------------------------------------------
(* Properties. *)

\* The key the listener presents is the one its certificate was issued for, whatever
\* restarts, failed writes and repeated submissions came between: unless the key on disk
\* could not be read when it was needed, and another was put in its place.
KeyMatchesCert ==
    \A n \in Names : n \notin replaced /\ sni[n] # NotServed => sni[n].cert.key = sni[n].key

\* A name of this node whose key and certificate are whole on disk, and whose listener
\* has not failed.
Servable(n) == n \in Owned /\ Usable(certFile, n) /\ tls # "failed"

\* The listener comes to present what is on disk now, first or renewed, without a
\* restart: as long as the name is this node's, the files are whole and the listener,
\* which is bound once, has not failed.
RenewalIsServed ==
    \A n \in Names :
        Servable(n) ~> ~Servable(n) \/ (tls = "serving" /\ sni[n] = Certified(certFile, n))
=============================================================================
