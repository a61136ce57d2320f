------------------------------- MODULE Proxy -------------------------------
(***************************************************************************)
(* The manager's proxy client (proxy_cli.c, refdm-proxy/main.c), the ION   *)
(* application proxy (ion-app-proxy/main.c, proxy_msg.c) and the           *)
(* SOCK_SEQPACKET connections between them.                                *)
(*                                                                         *)
(* A REST thread calls cace_amp_proxy_cli_send and the ingress worker      *)
(* cace_amp_proxy_cli_recv.  Both take the descriptor under sock_mutex and *)
(* use it after the unlock.  The kernel hands out the lowest free number,  *)
(* so a closed and reopened sock_fd has the same number and a call made    *)
(* with an old number acts on the connection it names by then.  A message  *)
(* is a number, in the order its direction is given it; headers written by *)
(* one side are decoded by the other.  What the workers of the proxy do    *)
(* after main() has closed the endpoint under them is left out.            *)
(***************************************************************************)
EXTENDS Integers, Sequences, FiniteSets, Functions

CONSTANTS
  PROX_ITEM_QUEUE_DEPTH, \* depth of outgoing and incoming
  BufSize,               \* datagrams a socket buffers in one direction
  MaxConn,               \* bound: connections made
  MaxUp, MaxDown,        \* bound: messages to and from the BPA
  MaxFaults,             \* bound: failures of the BPA and of processes
  MaxSignals             \* bound: SIGTERM received by the manager

ASSUME ProxyAssumption ==
  /\ PROX_ITEM_QUEUE_DEPTH \in Nat \ {0} /\ BufSize \in Nat \ {0}
  /\ {MaxConn, MaxUp, MaxDown, MaxFaults, MaxSignals} \subseteq Nat

VARIABLES
  sock_fd,        \* the client's connection, 0 for none
  sock_mutex,     \* "free", "snd" or "rcv"
  snd, rcv,       \* where the sending and the receiving thread are
  blocked,        \* the connection the receiving thread waits on
  accepted,       \* messages for which cace_amp_proxy_cli_send returned 0
  delivered,      \* messages cace_amp_proxy_cli_recv returned
  sig, nsig,      \* refdm-proxy's signal handler
  conns,          \* by number: the connections made so far
  up,             \* the proxy process is running
  sock_conn,      \* its connection, 0 for none
  sw, item,       \* where sock_worker is, and the item it holds
  pfds,           \* what poll() has reported
  outgoing, incoming,
  bps, bpr,       \* the item of bp_send_worker and of bp_recv_worker, or 0
  bundles,        \* bundles sent, in order
  nup, ndown,     \* messages begun in each direction
  faults          \* failures so far

client == <<sock_fd, sock_mutex, snd, rcv, blocked, accepted, delivered, sig, nsig>>
proxy == <<up, sock_conn, sw, item, pfds, outgoing, incoming, bps, bpr>>
world == <<bundles, nup, ndown, faults>>
vars == <<client, proxy, world, conns>>

NoEvents == [out |-> FALSE, in |-> FALSE]

\* A connection as the kernel keeps it: datagrams to and from the proxy,
\* whether the proxy has accepted it, which sides have shut it down, and the
\* error a close with unread datagrams leaves for the other side.
NewConn == [up |-> <<>>, down |-> <<>>, acc |-> FALSE,
            ceof |-> FALSE, crd |-> FALSE, peof |-> FALSE, reset |-> FALSE]

Backlog == {c \in DOMAIN conns : ~conns[c].acc /\ ~conns[c].peof}

Running == sig = "none"

Init ==
  /\ sock_fd = 0 /\ sock_mutex = "free" /\ snd = "idle" /\ rcv = "check" /\ blocked = 0
  /\ accepted = <<>> /\ delivered = <<>> /\ sig = "none" /\ nsig = 0
  /\ conns = <<>>
  /\ up = TRUE /\ sock_conn = 0 /\ sw = "top" /\ item = 0 /\ pfds = NoEvents
  /\ outgoing = <<>> /\ incoming = <<>> /\ bps = 0 /\ bpr = 0
  /\ bundles = <<>> /\ nup = 0 /\ ndown = 0 /\ faults = 0

-----------------------------------------------------------------------------
(* The client: sock_fd under sock_mutex.                                    *)

\* cace_amp_proxy_cli_real_disconnect: shutdown() wakes a thread that waits on
\* the connection, close() frees the number.
Disconnected == IF sock_fd = 0 THEN conns ELSE [conns EXCEPT ![sock_fd].ceof = TRUE, ![sock_fd].down = <<>>]

\* Mutant: sock_fd is not cleared.
real_disconnect_kept == conns' = Disconnected /\ UNCHANGED sock_fd

real_disconnect == conns' = Disconnected /\ sock_fd' = 0

\* A thread in real_connect leaves it, and the mutex, for the place it goes to.
ConnectedTo(thread, place) ==
  /\ sock_mutex = thread /\ sock_mutex' = "free"
  /\ \/ /\ thread = "snd" /\ snd = "connect" /\ snd' = place /\ UNCHANGED rcv
     \/ /\ thread = "rcv" /\ rcv = "connect" /\ rcv' = place /\ UNCHANGED snd
  /\ UNCHANGED <<blocked, accepted, delivered, sig, nsig, proxy, world>>

\* sock_fd is already connected.
ConnectKeep(thread, place) ==
  /\ sock_fd # 0
  /\ ConnectedTo(thread, place)
  /\ UNCHANGED <<sock_fd, conns>>

\* connect() succeeds once the proxy listens and the queue of listen(, 1) has
\* room: the kernel holds one connection more than the number given.
ConnectNew(thread, place) ==
  /\ sock_fd = 0 /\ up /\ Cardinality(Backlog) < 2 /\ Len(conns) < MaxConn
  /\ conns' = Append(conns, NewConn) /\ sock_fd' = Len(conns) + 1
  /\ ConnectedTo(thread, place)

\* The time for locking and connecting runs out.
ConnectTimeout(thread, place) ==
  /\ sock_fd = 0
  /\ ConnectedTo(thread, place)
  /\ UNCHANGED <<sock_fd, conns>>

\* cace_amp_proxy_cli_send takes the mutex; or gives up, returning 2.
SendLock ==
  /\ snd = "idle" /\ nup < MaxUp
  /\ nup' = nup + 1
  /\ \/ sock_mutex = "free" /\ sock_mutex' = "snd" /\ snd' = "connect"
     \/ sock_mutex = "rcv" /\ UNCHANGED <<sock_mutex, snd>>
  /\ UNCHANGED <<sock_fd, rcv, blocked, accepted, delivered, sig, nsig, proxy, conns, bundles, ndown, faults>>

SendConnect ==
  \/ ConnectKeep("snd", "send")
  \/ ConnectNew("snd", "send")
  \/ ConnectTimeout("snd", "idle")

\* send() on a connection that neither side has shut down, with room in its
\* buffer; it fails on a closed number and on a connection shut down.
SendOk ==
  /\ snd = "send" /\ sock_fd # 0
  /\ ~conns[sock_fd].peof /\ Len(conns[sock_fd].up) < BufSize
  /\ conns' = [conns EXCEPT ![sock_fd].up = Append(@, nup)]
  /\ accepted' = Append(accepted, nup) /\ snd' = "idle"
  /\ UNCHANGED <<sock_fd, sock_mutex, rcv, blocked, delivered, sig, nsig, proxy, world>>

SendFails ==
  /\ snd = "send" /\ (sock_fd # 0 => conns[sock_fd].peof)
  /\ snd' = "fail"
  /\ UNCHANGED <<sock_fd, sock_mutex, rcv, blocked, accepted, delivered, sig, nsig, proxy, world, conns>>

\* After a failure the sender disconnects whatever is connected by now.
SendDisconnect ==
  /\ snd = "fail" /\ sock_mutex = "free"
  /\ real_disconnect /\ snd' = "idle"
  /\ UNCHANGED <<sock_mutex, rcv, blocked, accepted, delivered, sig, nsig, proxy, world>>

\* cace_amp_proxy_cli_recv, top of its loop.
RecvCheck ==
  /\ rcv = "check"
  /\ rcv' = IF Running THEN "lock" ELSE "ended"
  /\ UNCHANGED <<sock_fd, sock_mutex, snd, blocked, accepted, delivered, sig, nsig, proxy, world, conns>>

RecvLock ==
  /\ rcv = "lock"
  /\ \/ sock_mutex = "free" /\ sock_mutex' = "rcv" /\ rcv' = "connect"
     \/ sock_mutex = "snd" /\ rcv' = "check" /\ UNCHANGED sock_mutex
  /\ UNCHANGED <<sock_fd, snd, blocked, accepted, delivered, sig, nsig, proxy, world, conns>>

RecvConnect ==
  \/ ConnectKeep("rcv", "recv")
  \/ ConnectNew("rcv", "recv")
  \/ ConnectTimeout("rcv", "check")

\* recv() with MSG_PEEK begins on the connection the number names, if any: on a
\* closed number it fails, which ends the reception.
RecvPeek ==
  /\ rcv = "recv"
  /\ rcv' = IF sock_fd = 0 THEN "drop_end" ELSE "peek"
  /\ blocked' = sock_fd
  /\ UNCHANGED <<sock_fd, sock_mutex, snd, accepted, delivered, sig, nsig, proxy, world, conns>>

Readable(c) == conns[c].down # <<>>
AtEnd(c) == conns[c].ceof \/ (conns[c].down = <<>> /\ (conns[c].peof \/ conns[c].crd))

RecvPeeked ==
  /\ rcv = "peek"
  /\ \/ conns[blocked].reset /\ rcv' = "drop_end" /\ conns' = [conns EXCEPT ![blocked].reset = FALSE]
     \/ ~conns[blocked].reset /\ Readable(blocked) /\ rcv' = "read" /\ UNCHANGED conns
     \/ ~conns[blocked].reset /\ AtEnd(blocked) /\ rcv' = "drop" /\ UNCHANGED conns
  /\ blocked' = 0
  /\ UNCHANGED <<sock_fd, sock_mutex, snd, accepted, delivered, sig, nsig, proxy, world>>

\* The datagram is read with the same number.  A failure or an end of file here
\* ends the reception.
RecvRead ==
  /\ rcv = "read"
  /\ \/ /\ sock_fd # 0 /\ ~conns[sock_fd].reset /\ Readable(sock_fd)
        /\ delivered' = Append(delivered, Head(conns[sock_fd].down))
        /\ conns' = [conns EXCEPT ![sock_fd].down = Tail(@)]
        /\ rcv' = "check"
     \/ /\ sock_fd # 0 => conns[sock_fd].reset \/ AtEnd(sock_fd)
        /\ rcv' = "ended" /\ UNCHANGED <<delivered, conns>>
  /\ UNCHANGED <<sock_fd, sock_mutex, snd, blocked, accepted, sig, nsig, proxy, world>>

RecvDisconnect ==
  /\ rcv \in {"drop", "drop_end"} /\ sock_mutex = "free"
  /\ real_disconnect
  /\ rcv' = IF rcv = "drop" THEN "check" ELSE "ended"
  /\ UNCHANGED <<sock_mutex, snd, blocked, accepted, delivered, sig, nsig, proxy, world>>

\* daemon_signal_handler of refdm-proxy, in main's thread: clears running, reads
\* the descriptor under the mutex and shuts it down for reading.
SigStop ==
  /\ sig = "none" /\ nsig < MaxSignals
  /\ nsig' = nsig + 1 /\ sig' = "getfd"
  /\ UNCHANGED <<sock_fd, sock_mutex, snd, rcv, blocked, accepted, delivered, proxy, world, conns>>

SigGetFd ==
  /\ sig = "getfd" /\ sock_mutex = "free"
  /\ sig' = IF sock_fd # 0 THEN "shutdown" ELSE "nofd"
  /\ UNCHANGED <<sock_fd, sock_mutex, snd, rcv, blocked, accepted, delivered, nsig, proxy, world, conns>>

\* Mutant: the descriptor is not shut down.
SigShutdown_none ==
  /\ sig = "shutdown" /\ sig' = "done"
  /\ UNCHANGED <<sock_fd, sock_mutex, snd, rcv, blocked, accepted, delivered, nsig, proxy, world, conns>>

SigShutdown ==
  /\ sig = "shutdown" /\ sig' = "done"
  /\ conns' = IF sock_fd = 0 THEN conns ELSE [conns EXCEPT ![sock_fd].crd = TRUE]
  /\ UNCHANGED <<sock_fd, sock_mutex, snd, rcv, blocked, accepted, delivered, nsig, proxy, world>>

-----------------------------------------------------------------------------
(* The proxy process.                                                       *)

\* Its sockets when the process ends or main() closes them: a close with unread
\* datagrams resets the other side.
Closed(c) == [conns[c] EXCEPT !.peof = TRUE, !.up = <<>>,
                              !.reset = conns[c].reset \/ (conns[c].up # <<>> /\ ~conns[c].ceof)]
AllClosed == [c \in DOMAIN conns |-> IF conns[c].peof THEN conns[c] ELSE Closed(c)]

\* The process is gone with all it held: it was killed, by SIGPIPE for one, or
\* main() returned from cace_daemon_run_wait and closed the endpoint.
Gone ==
  /\ up' = FALSE /\ conns' = AllClosed /\ sock_conn' = 0
  /\ sw' = "top" /\ item' = 0 /\ pfds' = NoEvents
  /\ outgoing' = <<>> /\ incoming' = <<>> /\ bps' = 0 /\ bpr' = 0

ProxyEnds ==
  /\ up /\ faults < MaxFaults /\ faults' = faults + 1
  /\ Gone
  /\ UNCHANGED <<client, bundles, nup, ndown>>

\* main(): queues, endpoint and listening socket are set up and the workers started.
ProxyStarts ==
  /\ ~up /\ up' = TRUE
  /\ UNCHANGED <<sock_conn, sw, item, pfds, outgoing, incoming, bps, bpr, client, world, conns>>

\* What poll() reports for sock_conn: a hangup once the client has shut down or
\* the worker itself has.
Hangup == sock_conn # 0 /\ (conns[sock_conn].ceof \/ conns[sock_conn].peof)

\* sock_worker: a connection waits and there is none: it is accepted.
SockAccept ==
  /\ up /\ sw = "top" /\ sock_conn = 0
  /\ \E c \in Backlog :
       /\ \A d \in Backlog : c <= d
       /\ sock_conn' = c /\ conns' = [conns EXCEPT ![c].acc = TRUE]
  /\ UNCHANGED <<up, sw, item, pfds, outgoing, incoming, bps, bpr, client, world>>

SockHangup ==
  /\ up /\ sw = "top" /\ Hangup
  /\ conns' = [conns EXCEPT ![sock_conn] = Closed(sock_conn)]
  /\ sock_conn' = 0
  /\ UNCHANGED <<up, sw, item, pfds, outgoing, incoming, bps, bpr, client, world>>

\* Mutant: the worker never polls for output.
SockPoll_no_out ==
  /\ up /\ sw = "top" /\ sock_conn # 0 /\ ~Hangup /\ conns[sock_conn].up # <<>>
  /\ pfds' = [out |-> FALSE, in |-> TRUE] /\ sw' = "recv"
  /\ UNCHANGED <<up, sock_conn, item, outgoing, incoming, bps, bpr, client, world, conns>>

\* Otherwise the events decide what is done in this pass.
SockPoll ==
  /\ up /\ sw = "top" /\ sock_conn # 0 /\ ~Hangup
  /\ LET out == incoming # <<>> /\ Len(conns[sock_conn].down) < BufSize
         in == conns[sock_conn].up # <<>>
     IN /\ out \/ in
        /\ pfds' = [out |-> out, in |-> in]
        /\ sw' = IF out THEN "pop" ELSE "recv"
  /\ UNCHANGED <<up, sock_conn, item, outgoing, incoming, bps, bpr, client, world, conns>>

SockPop ==
  /\ up /\ sw = "pop" /\ incoming # <<>>
  /\ item' = Head(incoming) /\ incoming' = Tail(incoming) /\ sw' = "send"
  /\ UNCHANGED <<up, sock_conn, pfds, outgoing, bps, bpr, client, world, conns>>

AfterSend == IF pfds.in THEN "recv" ELSE "top"

SockSend ==
  /\ up /\ sw = "send" /\ ~conns[sock_conn].ceof /\ ~conns[sock_conn].crd
  /\ Len(conns[sock_conn].down) < BufSize
  /\ conns' = [conns EXCEPT ![sock_conn].down = Append(@, item)]
  /\ item' = 0 /\ sw' = AfterSend
  /\ UNCHANGED <<up, sock_conn, pfds, outgoing, incoming, bps, bpr, client, world>>

\* send() to a client that has gone since poll(): SIGPIPE has its default action.
SockSendPipe ==
  /\ up /\ sw = "send" /\ (conns[sock_conn].ceof \/ conns[sock_conn].crd)
  /\ Gone
  /\ UNCHANGED <<client, world>>

\* send() fails otherwise: the item is dropped and the connection shut down.
SockSendFails ==
  /\ up /\ sw = "send" /\ faults < MaxFaults /\ faults' = faults + 1
  /\ conns' = [conns EXCEPT ![sock_conn].peof = TRUE]
  /\ item' = 0 /\ sw' = AfterSend
  /\ UNCHANGED <<up, sock_conn, pfds, outgoing, incoming, bps, bpr, client, bundles, nup, ndown>>

\* Mutant: the datagram that was only peeked at is passed on.
SockRecv_peek ==
  /\ up /\ sw = "recv" /\ conns[sock_conn].up # <<>>
  /\ item' = Head(conns[sock_conn].up) /\ sw' = "push"
  /\ UNCHANGED <<up, sock_conn, pfds, outgoing, incoming, bps, bpr, client, world, conns>>

\* cace_amp_proxy_msg_recv takes one datagram.
SockRecv ==
  /\ up /\ sw = "recv" /\ conns[sock_conn].up # <<>>
  /\ item' = Head(conns[sock_conn].up)
  /\ conns' = [conns EXCEPT ![sock_conn].up = Tail(@)]
  /\ sw' = "push"
  /\ UNCHANGED <<up, sock_conn, pfds, outgoing, incoming, bps, bpr, client, world>>

\* The push blocks while outgoing is full.
SockPush ==
  /\ up /\ sw = "push" /\ Len(outgoing) < PROX_ITEM_QUEUE_DEPTH
  /\ outgoing' = Append(outgoing, item) /\ item' = 0 /\ sw' = "top"
  /\ UNCHANGED <<up, sock_conn, pfds, incoming, bps, bpr, client, world, conns>>

\* bp_send_worker.
BpSendPop ==
  /\ up /\ bps = 0 /\ outgoing # <<>>
  /\ bps' = Head(outgoing) /\ outgoing' = Tail(outgoing)
  /\ UNCHANGED <<up, sock_conn, sw, item, pfds, incoming, bpr, client, world, conns>>

BpSend ==
  /\ up /\ bps # 0 /\ bps' = 0
  /\ bundles' = Append(bundles, bps)
  /\ UNCHANGED <<up, sock_conn, sw, item, pfds, outgoing, incoming, bpr, client, nup, ndown, faults, conns>>

\* SDR space, the ZCO, the text EID or bp_send() fails: the item is released all
\* the same.
BpSendFails ==
  /\ up /\ bps # 0 /\ bps' = 0
  /\ faults < MaxFaults /\ faults' = faults + 1
  /\ UNCHANGED <<up, sock_conn, sw, item, pfds, outgoing, incoming, bpr, client, bundles, nup, ndown, conns>>

\* bp_recv_worker: a delivery with a payload, read or not; the push blocks.
BpReceive ==
  /\ up /\ bpr = 0 /\ ndown < MaxDown
  /\ ndown' = ndown + 1
  /\ \/ bpr' = ndown + 1 /\ UNCHANGED faults
     \/ faults < MaxFaults /\ faults' = faults + 1 /\ UNCHANGED bpr
  /\ UNCHANGED <<up, sock_conn, sw, item, pfds, outgoing, incoming, bps, client, bundles, nup, conns>>

BpPush ==
  /\ up /\ bpr # 0 /\ Len(incoming) < PROX_ITEM_QUEUE_DEPTH
  /\ incoming' = Append(incoming, bpr) /\ bpr' = 0
  /\ UNCHANGED <<up, sock_conn, sw, item, pfds, outgoing, bps, client, world, conns>>

-----------------------------------------------------------------------------
Client ==
  \/ SendLock \/ SendConnect \/ SendOk \/ SendFails \/ SendDisconnect
  \/ RecvCheck \/ RecvLock \/ RecvConnect \/ RecvPeek \/ RecvPeeked \/ RecvRead \/ RecvDisconnect
  \/ SigStop \/ SigGetFd \/ SigShutdown

Server ==
  \/ ProxyEnds \/ ProxyStarts
  \/ SockAccept \/ SockHangup \/ SockPoll \/ SockPop \/ SockSend \/ SockSendPipe
  \/ SockSendFails \/ SockRecv \/ SockPush
  \/ BpSendPop \/ BpSend \/ BpSendFails \/ BpReceive \/ BpPush

Next == Client \/ Server

Spec == Init /\ [][Next]_vars

\* Threads that can go on do; the process is started again when it has ended.
\* A connection that can be made over and over is made: connect() to a listening
\* proxy returns at once, well within the second each attempt has.
FairSpec ==
  /\ Spec
  /\ WF_vars(SendConnect) /\ WF_vars(SendOk \/ SendFails) /\ WF_vars(SendDisconnect)
  /\ WF_vars(RecvCheck) /\ WF_vars(RecvLock) /\ WF_vars(RecvConnect) /\ SF_vars(ConnectNew("rcv", "recv"))
  /\ WF_vars(RecvPeek) /\ WF_vars(RecvPeeked) /\ WF_vars(RecvRead) /\ WF_vars(RecvDisconnect)
  /\ WF_vars(SigGetFd) /\ WF_vars(SigShutdown) /\ WF_vars(ProxyStarts)
  /\ WF_vars(SockAccept \/ SockHangup \/ SockPoll \/ SockPop \/ SockSend \/ SockSendPipe \/ SockRecv \/ SockPush)
  /\ WF_vars(BpSendPop \/ BpSend) /\ WF_vars(BpPush)

-----------------------------------------------------------------------------
(* Properties.                                                              *)

ConnType == [up : Seq(1 .. MaxUp), down : Seq(1 .. MaxDown), acc : BOOLEAN,
             ceof : BOOLEAN, crd : BOOLEAN, peof : BOOLEAN, reset : BOOLEAN]

TypeOK ==
  /\ conns \in Seq(ConnType) /\ Len(conns) <= MaxConn
  /\ sock_fd \in 0 .. Len(conns) /\ sock_conn \in 0 .. Len(conns) /\ blocked \in 0 .. Len(conns)
  /\ sock_mutex \in {"free", "snd", "rcv"}
  /\ snd \in {"idle", "connect", "send", "fail"}
  /\ rcv \in {"check", "lock", "connect", "recv", "peek", "read", "drop", "drop_end", "ended"}
  /\ sig \in {"none", "getfd", "nofd", "shutdown", "done"}
  /\ sw \in {"top", "pop", "send", "recv", "push"}
  /\ Len(outgoing) <= PROX_ITEM_QUEUE_DEPTH /\ Len(incoming) <= PROX_ITEM_QUEUE_DEPTH

Increasing(s) == \A i, j \in DOMAIN s : i < j => s[i] < s[j]
Held(x) == IF x = 0 THEN <<>> ELSE <<x>>

\* Whatever breaks and however often the client connects again, the BPA is given
\* each message at most once and in the order of the calls of
\* cace_amp_proxy_cli_send, only messages that were accepted, and
\* cace_amp_proxy_cli_recv returns those of the BPA likewise.  While nothing fails the
\* relay is one queue in each direction: every message accepted is in the bundles, in a
\* worker, in a queue of the proxy or in the socket, and none is dropped when a queue is full.
RelayedInOrder ==
  /\ Increasing(bundles) /\ Range(bundles) \subseteq Range(accepted)
  /\ Increasing(delivered) /\ Range(delivered) \subseteq 1 .. ndown
  /\ faults = 0 /\ nsig = 0 =>
       /\ accepted = bundles \o Held(bps) \o outgoing \o (IF sw = "push" THEN Held(item) ELSE <<>>)
                       \o (IF sock_fd = 0 THEN <<>> ELSE conns[sock_fd].up)
       /\ [i \in 1 .. ndown |-> i] =
            delivered \o (IF sock_fd = 0 THEN <<>> ELSE conns[sock_fd].down)
              \o (IF sw = "send" THEN Held(item) ELSE <<>>) \o incoming \o Held(bpr)

\* Both queues full, sock_worker blocked on one and bp_recv_worker on the other,
\* does not stop the relay: unless something fails, all that the client accepted
\* and the BPA gave has arrived once no more is given.
Relayed ==
  <>[](faults > 0 \/ nsig > 0 \/ (bundles = accepted /\ Len(delivered) = ndown))

\* After the proxy has been restarted or has dropped the connection, the client
\* ends up on a connection the proxy serves, as long as its ingress worker is
\* still receiving and no one stops it.
Reconnects ==
  <>[](up /\ nsig = 0 /\ rcv # "ended" /\ Len(conns) < MaxConn) => <>[](sock_fd # 0 /\ sock_fd = sock_conn)

\* A reception with nothing to read when the handler shuts the connection down
\* ends, whatever the sender does to the connection, so that the ingress worker
\* can be joined.
Waiting == rcv = "peek" /\ conns[blocked].down = <<>>
ShutdownEndsReception == (sig = "shutdown" /\ Waiting) ~> (rcv = "ended" \/ faults > 0)
=============================================================================
