------------------------------ MODULE Sending ------------------------------
(***************************************************************************)
(* From an order to the bytes on a connection.  The builder thread         *)
(* (Builder_Dispatch::buildOUCH_BIST, _NASDAQ) builds a message, takes a   *)
(* TxPacket from the ring that it shares with the network thread, copies   *)
(* the message into it and queues it.  The network thread (NetworkIO)      *)
(* connects one TCP socket per session, logs in, sends what is queued and  *)
(* keeps what the kernel does not take yet.                                *)
(*                                                                         *)
(* Only the network thread touches sockets and session state, so one       *)
(* handler is one step: the operators below take the whole state io of     *)
(* the two threads and return the set of states the handler may leave,     *)
(* one per outcome of the system calls it makes.  The queue                *)
(* builder_to_sender_ is the FIFO that CustomSpscQueue is proved to be.    *)
(* recv_send empties it before it looks at events; taking one packet per   *)
(* step is the same, because a packet left over might have been pushed     *)
(* after the loop.  Packets are one or two chunks long, and the kernel     *)
(* takes any number of chunks.  The UDP sockets are not modelled: nothing  *)
(* is sent on them.                                                        *)
(***************************************************************************)
EXTENDS OUCHBuilders, Sequences, FiniteSets, SequencesExt

CONSTANTS Plans,        \* sequences of orders to build, the exchange answering
          QuietPlans,   \* sequences of orders to build, no exchange in reach
          Ring,         \* PACKET_POOL_CAPACITY
          QueueCap,     \* PACKET_QUEUE_CAPACITY
          PendCap,      \* PENDING_CAPACITY - 1
          MaxSock,      \* bound: sockets created
          ALLOWED_LOGIN_ATTEMPT, MAX_RETRY_COUNT

ASSUME SendingAssumption ==
    /\ Ring \in Nat \ {0} /\ QueueCap \in Nat \ {0} /\ PendCap \in Nat \ {0}
    /\ MaxSock \in Nat /\ ALLOWED_LOGIN_ATTEMPT \in Nat /\ MAX_RETRY_COUNT \in Nat

VARIABLES plan, reach,  \* the orders to come, and whether the exchange answers
          built,        \* how many have been built
          bufs, next,   \* the builders' buffers, and messages built per ring
          io            \* what the builder and the network thread share and own

vars == <<plan, reach, built, bufs, next, io>>

None == -1                  \* nullptr, or no socket
Packets == 0..Ring - 1
Socks == 1..MaxSock
LOGIN == 0                  \* the number of a login request; orders count from 1
LOGIN_CHUNKS == 2           \* 47 bytes
Chunks(o) == IF MsgSize(o) <= 18 THEN 1 ELSE 2

\* A session: socks_[i], socket_states_[i], pending_write_[i] and SessionState.
NewSession == [sock |-> None, active |-> None, out |-> FALSE, pending |-> FALSE, pend |-> <<>>,
               logged |-> FALSE, connected |-> FALSE, tries |-> 0]
NewPacket == [n |-> LOGIN, len |-> 0, offset |-> 0, sess |-> "BIST", login |-> FALSE]

\* The sessions that are configured: those the orders are for.
Sessions == {plan[i].venue : i \in DOMAIN plan}

Init == /\ \/ reach = TRUE /\ plan \in Plans
           \/ reach = FALSE /\ plan \in QuietPlans
        /\ built = 0 /\ bufs = NewBuffers /\ next = [r \in Rings |-> 0]
        /\ io = [pool |-> [p \in Packets |-> NewPacket], next_txPkt |-> 0,
                 hand |-> None,            \* the packet the builder is about to fill
                 queue |-> <<>>,           \* builder_to_sender_
                 c |-> [s \in Venues |-> NewSession],
                 ep |-> [f \in Socks |-> "none"],      \* what epoll waits for
                 link |-> [f \in Socks |-> "new"],
                 stream |-> [f \in Socks |-> <<>>],    \* chunks the exchange gets
                 used |-> 0, retries |-> 0,            \* errno_retry_count
                 todo |-> SetToSeq(Sessions),          \* Init_Sockets: sessions to come
                 pc |-> "loop",
                 early |-> {},    \* history: orders set aside while connecting
                 reused |-> FALSE]  \* history: a packet was taken while in use

-----------------------------------------------------------------------------
(* The ring of packets, and the builder thread *)

InUse(w) == Range(w.queue) \cup UNION {Range(w.c[s].pend) \cup {w.c[s].active} : s \in Venues}

\* get_txPkt, by the network thread: both threads count with one plain
\* integer, so that this may be the packet the builder is about to fill.
get_txPkt(w) == [w EXCEPT !.next_txPkt = (@ + 1) % Ring,
                          !.reused = @ \/ w.next_txPkt \in InUse(w) \cup {w.hand}]

\* TradingEngine starts its threads once every component is constructed.
Started == io.todo = <<>> /\ io.pc # "aborted"

\* dispatch: the message is built; get_txPkt reads next_txPkt ...
Build ==
    /\ Started /\ built < Len(plan) /\ io.hand = None
    /\ LET o == plan[built + 1]
       IN  /\ bufs' = build(bufs, next, o, built + 1)
           /\ next' = [next EXCEPT ![RingOf(o)] = @ + 1]
    /\ built' = built + 1
    /\ io' = [io EXCEPT !.hand = io.next_txPkt]
    /\ UNCHANGED <<plan, reach>>

fillPacket(n, o) == [n |-> n, len |-> Chunks(o), offset |-> 0, sess |-> o.venue, login |-> FALSE]

\* ... and writes it back; fillPacket, push.  A full queue refuses the
\* packet and nobody looks.
Queue ==
    /\ Started /\ io.hand # None
    /\ LET o == plan[built]
           p == io.hand
       IN  io' = [io EXCEPT !.next_txPkt = (p + 1) % Ring,
                            !.reused = @ \/ p \in InUse(io),
                            !.pool[p] = fillPacket(built, o),
                            !.hand = None,
                            !.queue = IF Len(@) < QueueCap THEN Append(@, p) ELSE @]
    /\ UNCHANGED <<plan, reach, built, bufs, next>>

-----------------------------------------------------------------------------
(* Errors, sockets and login: pieces of the network thread's handlers *)

errno_strategies(err) ==
    CASE err \in {"EINTR", "EAGAIN", "ECONNRESET"} -> "Retry"
      [] err \in {"EPERM", "ESRCH", "EIO", "ENOMEM", "EACCES", "EINVAL", "ENOSPC", "EPIPE"} -> "Abort"
      [] OTHER -> "Ignore"

\* handleError, its answer and what it leaves (BackoffRetry_errno counts).
handleError(w, err) ==
    CASE errno_strategies(err) = "Retry" /\ w.retries < MAX_RETRY_COUNT ->
           [retry |-> TRUE, w |-> [w EXCEPT !.retries = @ + 1]]
      [] errno_strategies(err) = "Retry" /\ w.retries >= MAX_RETRY_COUNT ->
           [retry |-> FALSE, w |-> [w EXCEPT !.retries = 0]]
      [] errno_strategies(err) = "Abort" -> [retry |-> FALSE, w |-> [w EXCEPT !.pc = "aborted"]]
      [] OTHER -> [retry |-> FALSE, w |-> w]

\* modEpoll tries until epoll_ctl succeeds: on a closed socket, for ever.
modEpoll(w, fd, events) == IF w.ep[fd] = "none" THEN [w EXCEPT !.pc = "spin"]
                           ELSE [w EXCEPT !.ep[fd] = events]

closeSocket(w, s) ==
    IF w.c[s].sock = None THEN w
    ELSE [w EXCEPT !.ep[w.c[s].sock] = "none", !.link[w.c[s].sock] = "closed",
                   !.c[s] = [NewSession EXCEPT !.tries = w.c[s].tries]]

\* Mutant of Sent: where the packet stopped is not recorded.
Sent_NoOffset(w, fd, p, k) ==
    [w EXCEPT !.stream[fd] = @ \o [i \in 1..k |->
                  [n |-> w.pool[p].n, at |-> w.pool[p].offset + i, of |-> w.pool[p].len]]]

\* The kernel takes k chunks of packet p.
Sent(w, fd, p, k) ==
    [w EXCEPT !.pool[p].offset = @ + k,
              !.stream[fd] = @ \o [i \in 1..k |->
                  [n |-> w.pool[p].n, at |-> w.pool[p].offset + i, of |-> w.pool[p].len]]]

\* NetworkIO::send: the kernel takes all that is left, or some of it and then
\* no more for now (EAGAIN), or some of it and then fails for good.  A packet
\* whose offset is at its end is sent at once, with nothing sent.
send(w, s, fd, p) ==
    LET pkt == w.pool[p]
        left == IF pkt.offset < pkt.len THEN pkt.len - pkt.offset ELSE 0
        Again(v) == [(IF v.c[s].out THEN v ELSE modEpoll(v, fd, "out"))
                        EXCEPT !.c[s].out = TRUE, !.c[s].active = p]
    IN  IF fd = None /\ left > 0 THEN {closeSocket(w, s)}
        ELSE {[(IF left = 0 THEN w ELSE Sent(w, fd, p, left)) EXCEPT !.c[s].active = None]}
             \cup {Again(Sent(w, fd, p, k)) : k \in 0..left - 1}
             \cup {closeSocket(Sent(w, fd, p, k), s) : k \in 0..left - 1}

LoginDecider(w, s) ==
    CASE ~w.c[s].connected -> "Disconnect"
      [] w.c[s].connected /\ w.c[s].logged -> "AlreadyLoggedIn"
      [] OTHER -> IF w.c[s].tries >= ALLOWED_LOGIN_ATTEMPT THEN "Disconnect" ELSE "TryAgain"

\* LoginAttempt fills the packet, all but its offset.
LoginAttempt(w, s, p) ==
    [w EXCEPT !.pool[p] = [@ EXCEPT !.n = LOGIN, !.len = LOGIN_CHUNKS, !.sess = s, !.login = TRUE],
              !.c[s].tries = @ + 1]

\* The end of setupSocket and of handleEINPROGRESS: connected, log in.
login(w, s, fd) ==
    CASE LoginDecider(w, s) = "TryAgain" ->
           send(LoginAttempt(get_txPkt(w), s, w.next_txPkt), s, fd, w.next_txPkt)
      [] LoginDecider(w, s) = "AlreadyLoggedIn" -> {w}
      [] OTHER -> {closeSocket(w, s)}

\* connect's errors: those setupSocket would retry are ones that
\* errno_strategies ignores, so its reconnect is never reached.
ConnectErrors == {"ECONNREFUSED", "EACCES"}

\* fcntl is tried until it succeeds: on what socket() refused, for ever.
makeSocketNonBlocking(w, fd) == IF fd = None THEN [w EXCEPT !.pc = "spin"] ELSE w

addEpoll(w, fd, events) == [w EXCEPT !.ep[fd] = events]

\* setupSocket, for TCP: what it leaves, and the socket it returns.  connect
\* fails, or is under way, or has succeeded.
setupSocket(w, s, fd) ==
    LET v == makeSocketNonBlocking(w, fd)
        started == [addEpoll(v, fd, "out") EXCEPT !.link[fd] = "connecting", !.c[s].pending = TRUE]
        up == [addEpoll(v, fd, "in") EXCEPT !.link[fd] = "up", !.c[s].connected = TRUE]
        returned == IF LoginDecider(up, s) = "Disconnect" THEN None ELSE fd
    IN  IF fd = None THEN {[w |-> v, sock |-> None]}
        ELSE {[w |-> closeSocket(handleError(v, err).w, s), sock |-> None] : err \in ConnectErrors}
             \cup (IF ~reach THEN {}
                   ELSE {[w |-> started, sock |-> fd]}
                        \cup {[w |-> u, sock |-> returned] : u \in login(up, s, fd)})

\* createSocket: a new descriptor, or none (always none at the bound MaxSock).
createSocket(w) ==
    {[w |-> w, sock |-> None]} \cup
    (IF w.used = MaxSock THEN {} ELSE {[w |-> [w EXCEPT !.used = @ + 1], sock |-> w.used + 1]})

\* reconnect: the new socket is set up, and not stored in socks_.
reconnect(w, s) ==
    UNION {{r.w : r \in setupSocket(new.w, s, new.sock)} : new \in createSocket(closeSocket(w, s))}

-----------------------------------------------------------------------------
(* The network thread: the constructor and recv_send *)

Running == Started /\ io.pc = "loop"

Init_Sockets ==
    /\ io.todo # <<>> /\ io.pc = "loop"
    /\ LET s == Head(io.todo)
       IN  \E new \in createSocket(io) : \E r \in setupSocket(new.w, s, new.sock) :
              io' = [r.w EXCEPT !.c[s].sock = r.sock, !.todo = Tail(@)]
    /\ UNCHANGED <<plan, reach, built, bufs, next>>

\* pending_write_[s].push: a full queue refuses, and nobody looks.
SetAside(w, s, p) == IF Len(w.c[s].pend) = PendCap THEN w
                     ELSE [w EXCEPT !.c[s].pend = Append(@, p)]

trySend(w, p) ==
    LET s == w.pool[p].sess
        c == w.c[s]
    IN  CASE c.pending -> {[SetAside(w, s, p) EXCEPT !.early = @ \cup {w.pool[p].n}]}
          [] ~c.pending /\ ~c.logged /\ ~w.pool[p].login -> {w}
          [] ~c.pending /\ (c.logged \/ w.pool[p].login) ->
               IF c.active # None THEN {SetAside(w, s, p)} ELSE send(w, s, c.sock, p)

Send ==
    /\ Running /\ io.queue # <<>>
    /\ io' \in trySend([io EXCEPT !.queue = Tail(@)], Head(io.queue))
    /\ UNCHANGED <<plan, reach, built, bufs, next>>

SockErrors == {"ECONNREFUSED", "ECONNRESET"}

\* The connection is made, or getsockopt tells (or is) an error.
handleEINPROGRESS(w, s) ==
    LET fd == w.c[s].sock
        v == [w EXCEPT !.c[s].pending = FALSE]
        up == [v EXCEPT !.link[fd] = "up", !.c[s].connected = TRUE, !.c[s].out = FALSE]
        Failed(h) == IF h.retry THEN reconnect(h.w, s) ELSE {closeSocket(h.w, s)}
    IN  login(modEpoll(up, fd, "in"), s, fd)
        \cup UNION {Failed(handleError(v, err)) : err \in SockErrors}

\* Mutant of SendPending: the packet that came last goes first.
SendPending_LastFirst(w, s, fd) ==
    send([w EXCEPT !.c[s].pend = Front(@)], s, fd, Last(w.c[s].pend))

\* pop, and send
SendPending(w, s, fd) == send([w EXCEPT !.c[s].pend = Tail(@)], s, fd, Head(w.c[s].pend))

\* The packets that wait go out until one does not fit.
RECURSIVE Drain(_, _, _)
Drain(w, s, fd) ==
    IF w.c[s].active = None /\ w.c[s].pend # <<>>
    THEN UNION {Drain(v, s, fd) : v \in SendPending(w, s, fd)}
    ELSE {w}

\* Mutant of SendActive: the write event stays armed.
SendActive_StaysArmed(w, s) ==
    LET fd == w.c[s].sock
    IN  UNION {Drain(v, s, fd) : v \in send(w, s, fd, w.c[s].active)}

\* EPOLLOUT: the packet begun first, then those that wait, then back to
\* waiting for input; after a failed send, on a socket that is closed.
SendActive(w, s) ==
    LET fd == w.c[s].sock
        Done(v) == IF v.c[s].active # None THEN v
                   ELSE [modEpoll(v, fd, "in") EXCEPT !.c[s].out = FALSE]
    IN  {Done(v) : v \in UNION {Drain(u, s, fd) : u \in send(w, s, fd, w.c[s].active)}}

\* Mutant of Event: sessions that are not logged in are passed over.
Event_LoggedIn(s, kind) == Running /\ io.c[s].logged /\ io.ep[io.c[s].sock] = kind

\* An event of the socket of session s; events of a socket that is not in
\* socks_ are passed over.
Event(s, kind) == Running /\ io.c[s].sock # None /\ io.ep[io.c[s].sock] = kind

Writable(s) ==
    /\ Event(s, "out")
    /\ io' \in (IF io.c[s].pending THEN handleEINPROGRESS(io, s) ELSE SendActive(io, s))
    /\ UNCHANGED <<plan, reach, built, bufs, next>>

\* EPOLLIN.  The exchange accepts a login request it got whole.
GotLogin(st) == \E i \in 1..Len(st) - 1 : st[i].n = LOGIN /\ st[i].at = 1 /\ st[i + 1].at = LOGIN_CHUNKS
LoginAccepted(s) ==
    /\ Event(s, "in") /\ ~io.c[s].logged /\ GotLogin(io.stream[io.c[s].sock])
    /\ io' = [io EXCEPT !.c[s].logged = TRUE]
    /\ UNCHANGED <<plan, reach, built, bufs, next>>

\* End of session, or login rejected because the session is not available.
EndOfSession(s) ==
    /\ Event(s, "in") /\ io' \in reconnect(io, s)
    /\ UNCHANGED <<plan, reach, built, bufs, next>>

\* Login rejected, recv fails or finds the connection closed.
Disconnect(s) ==
    /\ Event(s, "in") /\ io' = closeSocket(io, s)
    /\ UNCHANGED <<plan, reach, built, bufs, next>>

Next == \/ Build \/ Queue \/ Init_Sockets \/ Send
        \/ \E s \in Venues : Writable(s) \/ LoginAccepted(s) \/ EndOfSession(s) \/ Disconnect(s)

\* The constructor runs to its end, the network thread polls for ever, and a socket that is not full becomes
\* writable again: the exchange reads.
Moves(s) == /\ ~io.c[s].pending /\ Writable(s)
            /\ io'.c[s].active = io.c[s].active =>
                  io'.pool[io.c[s].active].offset > io.pool[io.c[s].active].offset
Spec == Init /\ [][Next]_vars /\ WF_vars(Init_Sockets) /\ \A s \in Venues : WF_vars(Moves(s))

-----------------------------------------------------------------------------
(* Properties *)

\* On a connection no packet begins before the one ahead of it has ended, no
\* packet goes on where it did not stop, and an order begins at its
\* beginning, unless a packet was taken from the ring while in use (send,
\* active_pkt, txPkt.offset).
StreamWhole ==
    io.reused \/ \A f \in Socks : \A i \in 1..Len(io.stream[f]) :
        LET x == io.stream[f][i]
            y == io.stream[f][i - 1]
        IN  IF i > 1 /\ y.at < y.of THEN x.n = y.n /\ x.at = y.at + 1
            ELSE x.n # LOGIN => x.at = 1

\* The orders of a session go out in the order they were built, each once;
\* none goes out before the whole login request, and only those set aside
\* while the connection was being made may be overtaken or come too early
\* (trySend, isSessionLoggedIn, pending_write_).
SentInOrder ==
    io.reused \/ \A f \in Socks : \A j \in 1..Len(io.stream[f]) :
        LET y == io.stream[f][j]
        IN  y.n # LOGIN /\ y.at = 1 =>
               /\ y.n \in io.early \/ GotLogin(SubSeq(io.stream[f], 1, j - 1))
               /\ \A i \in 1..j - 1 :
                     LET x == io.stream[f][i]
                     IN  x.n # LOGIN /\ x.at = 1 => x.n # y.n /\ (x.n < y.n \/ y.n \in io.early)

\* Between handlers the write event is armed exactly while a packet is only
\* partly sent or a connection is being made; no packet waits without it,
\* but those set aside while connecting (is_EPOLLOUT_set, modEpoll).
NobodyForgotten ==
    \A s \in Venues : io.c[s].sock # None =>
        /\ io.ep[io.c[s].sock] = "out" <=> (io.c[s].active # None \/ io.c[s].pending)
        /\ io.reused \/ io.c[s].active # None
                     \/ \A p \in Range(io.c[s].pend) : io.pool[p].n \in io.early

LastOrder == plan[built]
LastBuffer == bufs[RingOf(LastOrder)][(next[RingOf(LastOrder)] - 1) % RING]

\* In the message that is about to be copied into its packet, what the order
\* has for each field of the venue's layout stands in that field, whole, and
\* the other fields hold the constants of the constructor.  A byte behind a
\* short token or symbol is blank, but where an earlier message of the same
\* ring left it: at BIST one with a longer token, at NASDAQ also one of another
\* kind (Builder_OUCH_BIST, Builder_OUCH_NASDAQ, real_cl_ord_token_len,
\* real_symbol_len).
MessageIsItsOrder ==
    io.hand # None => \A f \in TxLayout(LastOrder) :
        /\ OwnField(LastBuffer, LastOrder, built, f)
        /\ \A b \in Padding(LastOrder, f) : LastBuffer[b] # 0 =>
              LET left == plan[LastBuffer[b]]
              IN  /\ RingOf(left) = RingOf(LastOrder)
                  /\ left.kind = LastOrder.kind => b \in Real(left, f)

\* A packet that is partly sent does not stay so: it is finished, or its
\* connection is closed, or the network thread is gone; but for the packet of
\* a connection made by reconnect, whose socket is not in socks_ (send, EPOLLOUT).
ActiveFinishes ==
    \A s \in Venues : []<>(io.c[s].active = None \/ io.c[s].sock = None \/ io.pc # "loop")
=============================================================================
