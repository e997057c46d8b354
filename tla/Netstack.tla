------------------------------ MODULE Netstack -------------------------------
(***************************************************************************)
(* The userspace tunnel of a deploy (agent-daemon/src/netstack.rs): a      *)
(* SOCKS proxy for the deploy command, and the single thread that turns    *)
(* each accepted connection into one over the tunnel, in ticks of fixed    *)
(* order.  One connection: they share nothing but the tick.  Bytes are     *)
(* counted.                                                                *)
(***************************************************************************)
EXTENDS Integers

CONSTANTS
    MaxUp,   \* bound: bytes the client writes
    MaxDown, \* bound: bytes the remote end writes
    SockBuf  \* bytes a socket buffer holds (64 KiB in the code)

VARIABLES
    deploy,  \* run_deploy: settling, running, stopping, done
    at,      \* where the engine is in its tick
    ready,   \* the handshake of the tunnel is done
    conn,    \* none, asking, accepted, open, reaped, refused, torn
    client,  \* the client: bytes written, not yet read here, received; end of its side; gone
    bridge,  \* to_socket, to_stream, client_eof, socket_closed
    sock,    \* the TCP socket: state, send and receive buffers, whether its FIN arrived
    remote   \* the remote end: bytes written, received, end of its side

netVars == <<deploy, at, ready, conn, client, bridge, sock, remote>>
ends == <<client, remote>>

\* run_deploy sets up the tunnel and the proxy and starts the engine.
Started == deploy = "settling" /\ conn = "none"

Bridged == bridge = [toSocket |-> 0, toStream |-> 0, clientEof |-> FALSE, socketClosed |-> FALSE]

NetInit ==
    /\ Started /\ Bridged /\ at = "top" /\ ready = FALSE
    /\ client = [wrote |-> 0, unread |-> 0, got |-> 0, eof |-> FALSE, gone |-> FALSE]
    /\ sock = [state |-> "none", tx |-> 0, rx |-> 0, finSeen |-> FALSE]
    /\ remote = [wrote |-> 0, got |-> 0, eof |-> FALSE]

Lesser(a, b) == IF a < b THEN a ELSE b

-----------------------------------------------------------------------------
(* run_deploy and the proxy. *)

\* The wait before the command is unconditional, handshake or not.
Settle == deploy = "settling" /\ deploy' = "running" /\ UNCHANGED <<at, ready, conn, ends, bridge, sock>>

CommandEnds == deploy = "running" /\ deploy' = "stopping" /\ UNCHANGED <<at, ready, conn, ends, bridge, sock>>

Ask == deploy = "running" /\ conn = "none" /\ conn' = "asking" /\ UNCHANGED <<deploy, at, ready, ends, bridge, sock>>

\* Only CONNECT, only to an address; the client hears of success before there is a
\* connection.
Handshake ==
    /\ conn = "asking" /\ conn' \in {"accepted", "refused"}
    /\ UNCHANGED <<deploy, at, ready, ends, bridge, sock>>

ClientWrites ==
    /\ conn \in {"accepted", "open"} /\ ~client.eof /\ client.wrote < MaxUp
    /\ client' = [client EXCEPT !.wrote = @ + 1, !.unread = @ + 1]
    /\ UNCHANGED <<deploy, at, ready, conn, bridge, sock, remote>>

\* It shuts its side, or goes away.
ClientEnds ==
    /\ conn \in {"accepted", "open"}
    /\ \/ ~client.eof /\ client' = [client EXCEPT !.eof = TRUE]
       \/ ~client.gone /\ client' = [client EXCEPT !.eof = TRUE, !.gone = TRUE]
    /\ UNCHANGED <<deploy, at, ready, conn, bridge, sock, remote>>

-----------------------------------------------------------------------------
(* The engine. *)

Tick(here, next) == at = here /\ at' = next

\* The loop condition; stopping drops every bridge.
Top ==
    /\ at = "top" /\ at' = IF deploy = "stopping" THEN "top" ELSE "accept"
    /\ deploy # "done" /\ deploy' = IF deploy = "stopping" THEN "done" ELSE deploy
    /\ conn' = IF deploy = "stopping" /\ conn = "open" THEN "torn" ELSE conn
    /\ UNCHANGED <<ready, ends, bridge, sock>>

Accept ==
    /\ Tick("accept", "read")
    /\ IF conn = "accepted"
       THEN \/ conn' = "open" /\ sock' = [sock EXCEPT !.state = "synSent"]
            \/ conn' = "refused" /\ UNCHANGED sock   \* an address the stack refuses
       ELSE UNCHANGED <<conn, sock>>
    /\ UNCHANGED <<deploy, ready, ends, bridge>>

\* What the client wrote, then its end; an error counts as its end.
Read ==
    /\ Tick("read", "poll")
    /\ IF conn = "open" /\ ~bridge.clientEof
       THEN /\ client' = [client EXCEPT !.unread = 0]
            /\ bridge' = [bridge EXCEPT !.toSocket = @ + client.unread,
                                        !.clientEof = client.gone \/ (client.eof /\ client.unread = 0)]
       ELSE UNCHANGED <<client, bridge>>
    /\ UNCHANGED <<deploy, ready, conn, sock, remote>>

\* What the stack has to send goes through the tunnel; of its own end, last, it hears
\* that it arrived.
Encapsulated ==
    \/ sock.state \in {"established", "closeWait", "finWait", "lastAck"} /\ sock.tx > 0
       /\ sock' = [sock EXCEPT !.tx = @ - 1]
       /\ remote' = [remote EXCEPT !.got = @ + 1]
    \/ sock.state \in {"finWait", "lastAck"} /\ sock.tx = 0 /\ ~sock.finSeen
       /\ sock' = [sock EXCEPT !.finSeen = TRUE, !.state =
              IF sock.state = "lastAck" THEN "closed" ELSE IF remote.eof THEN "timeWait" ELSE "finWait"]
       /\ UNCHANGED remote

\* Packets in and out of the tunnel; those it drops are sent again.  The stack does one
\* thing, or nothing.
Poll ==
    /\ Tick("poll", "move")
    /\ \/ ready' = TRUE /\ UNCHANGED <<sock, remote>>
       \/ UNCHANGED <<ready, sock, remote>>
       \/ ready /\ sock.state = "synSent"
          /\ sock' = [sock EXCEPT !.state = "established"] /\ UNCHANGED <<ready, remote>>
       \/ sock.state \notin {"none", "closed", "timeWait"}   \* refused or reset
          /\ sock' = [sock EXCEPT !.state = "closed"] /\ UNCHANGED <<ready, remote>>
       \/ sock.state \in {"established", "finWait"} /\ ~remote.eof /\ remote.wrote < MaxDown /\ sock.rx < SockBuf
          /\ sock' = [sock EXCEPT !.rx = @ + 1]
          /\ remote' = [remote EXCEPT !.wrote = @ + 1] /\ UNCHANGED ready
       \/ sock.state \in {"established", "finWait"} /\ ~remote.eof
          /\ sock' = [sock EXCEPT !.state =
                 IF sock.state = "established" THEN "closeWait" ELSE IF sock.finSeen THEN "timeWait" ELSE "finWait"]
          /\ remote' = [remote EXCEPT !.eof = TRUE] /\ UNCHANGED ready
       \/ Encapsulated /\ UNCHANGED ready
    /\ UNCHANGED <<deploy, conn, client, bridge>>

CanSend == sock.state \in {"established", "closeWait"} /\ sock.tx < SockBuf

\* socket.close().
AfterClose(state) ==
    CASE state = "established" -> "finWait"
      [] state = "closeWait" -> "lastAck"
      [] state = "synSent" -> "closed"
      [] OTHER -> state

\* The end of the client's side is passed on when nothing is left to send.
EndDue(left) == left = 0

\* From the client to the socket, its end, from the socket to the client.
Move ==
    /\ Tick("move", "flush")
    /\ IF conn = "open"
       THEN LET sent == IF CanSend THEN Lesser(bridge.toSocket, SockBuf - sock.tx) ELSE 0
                left == bridge.toSocket - sent
                fin  == bridge.clientEof /\ EndDue(left) /\ ~bridge.socketClosed IN
            /\ bridge' = [bridge EXCEPT !.toSocket = left, !.toStream = @ + sock.rx, !.socketClosed = @ \/ fin]
            /\ sock' = [sock EXCEPT !.tx = @ + sent, !.rx = 0, !.state = IF fin THEN AfterClose(@) ELSE @]
       ELSE UNCHANGED <<bridge, sock>>
    /\ UNCHANGED <<deploy, ready, conn, ends>>

\* As much as the client takes; a client that is gone takes all.
Flush ==
    /\ Tick("flush", "reap")
    /\ \E n \in 0 .. bridge.toStream :
        /\ client.gone => n = bridge.toStream
        /\ bridge' = [bridge EXCEPT !.toStream = @ - n]
        /\ client' = [client EXCEPT !.got = IF client.gone THEN @ ELSE @ + n]
    /\ UNCHANGED <<deploy, ready, conn, sock, remote>>

\* Mistaken variant: a bridge is finished when its socket is.
SocketDone == sock.state \in {"closed", "timeWait"}

\* The socket is done and nothing waits for the client.
Finished == sock.state \in {"closed", "timeWait"} /\ sock.rx = 0 /\ bridge.toStream = 0

Reap ==
    /\ Tick("reap", "top")
    /\ conn' = IF conn = "open" /\ Finished THEN "reaped" ELSE conn
    /\ UNCHANGED <<deploy, ready, ends, bridge, sock>>

NetNext ==
    \/ Settle \/ CommandEnds \/ Ask \/ Handshake \/ ClientWrites \/ ClientEnds
    \/ Top \/ Accept \/ Read \/ Poll \/ Move \/ Flush \/ Reap

NetSpec == NetInit /\ [][NetNext]_netVars

-----------------------------------------------------------------------------
(* Properties. *)

\* A bridge that is taken down has given the client, if it is there, all that came out
\* of the tunnel; and the remote end sees the end of the client's side only after every
\* byte of it.
NothingLost ==
    /\ conn = "reaped" /\ ~client.gone => client.got = remote.wrote
    /\ sock.finSeen /\ ~client.gone => remote.got = client.wrote
=============================================================================
