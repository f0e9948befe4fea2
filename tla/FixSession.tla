----------------------------- MODULE FixSession -----------------------------
(***************************************************************************)
(* The FIX session: the parser thread orders what the exchange sends by    *)
(* its sequence numbers, and the builder thread numbers and sends what we  *)
(* say.  They share SessionState and two queues, one for session messages  *)
(* that want an answer (rx) and one for messages the parser itself wants   *)
(* sent (tx).                                                              *)
(*                                                                         *)
(* The exchange is external and conforms to FIX: log[n] is the kind of its *)
(* n-th message, log[1] is the Logon that answers our Logon with           *)
(* ResetSeqNumFlag=Y.  Messages may be lost, repeated and reordered on the *)
(* way (a dropped connection, a retransmission, a packet kept back by      *)
(* NetworkIO), so any message of log may arrive at any time.  Session      *)
(* messages are retransmitted as a SequenceReset that fills their gap.     *)
(***************************************************************************)
EXTENDS Integers, Sequences

CONSTANTS Kinds,                  \* kinds of message the exchange sends
          MaxSeq,                 \* bound: messages of the exchange
          MaxAhead,               \* bound: messages sent and not accepted yet
          MaxOut,                 \* bound: messages of ours
          QueueCap,               \* capacity of rx and tx
          MAX_RESEND_ATTEMPT,
          ALLOWED_LOGIN_ATTEMPT

AllKinds == {"App", "Logon", "Heartbeat", "TestRequest", "ResendRequest", "Reject",
             "Logout", "LogoutDone"}

ASSUME KindsAssumption == Kinds \subseteq AllKinds
ASSUME BoundsAssumption == /\ MaxSeq \in Nat /\ MaxAhead \in Nat /\ MaxOut \in Nat /\ QueueCap \in Nat
                           /\ MAX_RESEND_ATTEMPT \in Nat /\ ALLOWED_LOGIN_ATTEMPT \in Nat

VARIABLES log,                    \* exchange: kinds of its messages so far
          expected_seqnum, pending_to_store_map_, resend_counter,
          ppc,                    \* parser: between messages, or in the pending loop
          interval_over,          \* now - last_resend_ts > RESEND_INTERVAL
          is_connected, is_logged_in, logged_before, login_retry_count,
          rx, tx,                 \* parser_to_fixbuilder_rx_ and _tx_
          bpc,                    \* builder: where buildFIX is
          seen,                   \* builder: login_retry_count that LoginDecider saw
          my_next_seqnum,
          inc,                    \* threads between get_next_seq and increase_next_seq
          stored,                 \* history: application messages given to the store
          sent                    \* history: numbers of the messages we built

exchange == <<log>>
parser  == <<expected_seqnum, pending_to_store_map_, resend_counter, ppc, interval_over, stored>>
session == <<is_connected, is_logged_in, logged_before, login_retry_count>>
builder == <<bpc, seen, inc, sent>>
vars == <<exchange, parser, session, builder, rx, tx, my_next_seqnum>>

-----------------------------------------------------------------------------
Message == [seqnum : Nat \ {0}, kind : AllKinds \cup {"SequenceReset"}, new_seqnum : Nat]

Original(n) == [seqnum |-> n, kind |-> log[n], new_seqnum |-> 0]
GapFill(n, m) == [seqnum |-> n, kind |-> "SequenceReset", new_seqnum |-> m]

\* What may arrive: any message sent, or a gap fill over session messages.
Arrivals ==
    {Original(n) : n \in 1..Len(log)} \cup
    {GapFill(p[1], p[2]) : p \in {q \in (1..Len(log)) \X (1..Len(log) + 1) :
        q[1] < q[2] /\ \A i \in q[1]..q[2] - 1 : log[i] # "App"}}

IsLogon(m) == m.kind = "Logon"
ResetsNumbers(m) == IsLogon(m) /\ m.seqnum = 1

\* A push on a full queue is refused, and nobody looks.
Enqueue(q, m) == IF Len(q) < QueueCap THEN Append(q, m) ELSE q

Init == /\ log = <<>>
        /\ expected_seqnum = 1 /\ pending_to_store_map_ = {} /\ resend_counter = 0
        /\ ppc = "idle" /\ interval_over = FALSE /\ stored = <<>>
        /\ is_connected = FALSE /\ is_logged_in = FALSE /\ logged_before = FALSE
        /\ login_retry_count = 0
        /\ rx = <<>> /\ tx = <<>>
        /\ bpc = "idle" /\ seen = 0 /\ my_next_seqnum = 1 /\ inc = {} /\ sent = <<>>

-----------------------------------------------------------------------------
(* The exchange, and the clock *)

ExchangeSends(k) == /\ is_connected /\ "network" \notin inc /\ Len(log) < MaxSeq
                    /\ Len(log) + 1 < expected_seqnum + MaxAhead
                    /\ log = <<>> => k = "Logon"
                    /\ log' = Append(log, k)
                    /\ UNCHANGED <<parser, session, builder, rx, tx, my_next_seqnum>>

\* last_resend_ts is set when the session is created and never again.
SecondPasses == /\ ~interval_over /\ interval_over' = TRUE
                /\ UNCHANGED <<exchange, session, builder, rx, tx, my_next_seqnum,
                               expected_seqnum, pending_to_store_map_, resend_counter, ppc, stored>>

(* Sending: Builder_FIX::build writes the next number into the message and *)
(* increases it in a later step                                            *)

Build(t) == /\ sent' = Append(sent, my_next_seqnum)
            /\ inc' = inc \cup {t}

increase_next_seq(t) == /\ t \in inc /\ inc' = inc \ {t}
                        /\ my_next_seqnum' = my_next_seqnum + 1

\* The connection is up: LoginDecider lets the network thread send a Logon ...
LoginAttempt == /\ ~is_connected /\ ~is_logged_in /\ login_retry_count < ALLOWED_LOGIN_ATTEMPT
                /\ Build("network")
                /\ is_connected' = TRUE
                /\ UNCHANGED <<exchange, parser, is_logged_in, logged_before, login_retry_count,
                               bpc, seen, my_next_seqnum, rx, tx>>

\* ... which counts as an attempt.
LoginSent == /\ increase_next_seq("network")
             /\ login_retry_count' = login_retry_count + 1
             /\ UNCHANGED <<exchange, parser, is_connected, is_logged_in, logged_before,
                            bpc, seen, sent, rx, tx>>

-----------------------------------------------------------------------------
(* Parser_Dispatch::parseFIX, by the parser thread *)

\* handle_sesMsg: what a session message does when its turn has come.  TRUE
\* answers stay here, the others go to the builder.
handle_sesMsg(m) ==
    /\ rx' = IF m.kind \in {"TestRequest", "ResendRequest", "Reject", "Logout"}
             THEN Enqueue(rx, m.kind) ELSE rx
    /\ my_next_seqnum' = IF ResetsNumbers(m) THEN 1 ELSE my_next_seqnum
    /\ is_logged_in' = (IF m.kind = "LogoutDone" THEN FALSE ELSE is_logged_in \/ IsLogon(m))
    /\ logged_before' = (logged_before \/ IsLogon(m))
    /\ login_retry_count' = IF IsLogon(m) THEN 0 ELSE login_retry_count
    /\ UNCHANGED is_connected

\* expected_seqnum after handle_sesMsg, before increase_expected_seq.
Expectation(m) == IF m.kind = "SequenceReset" THEN m.new_seqnum
                  ELSE IF ResetsNumbers(m) THEN 2 ELSE expected_seqnum

\* emplace keeps the entry that is there.
push_pending(m) ==
    pending_to_store_map_' =
        IF \E p \in pending_to_store_map_ : p.seqnum = m.seqnum THEN pending_to_store_map_
        ELSE pending_to_store_map_ \cup {m}

\* Mutant of AppExpected: the number is tested only against what is behind.
AppExpected_AnyAhead(m) ==
    /\ ppc = "idle" /\ m.kind = "App" /\ m.seqnum >= expected_seqnum
    /\ stored' = Append(stored, m.seqnum)
    /\ expected_seqnum' = expected_seqnum + 1 /\ ppc' = "drain"
    /\ UNCHANGED <<exchange, session, builder, rx, tx, my_next_seqnum,
                   pending_to_store_map_, resend_counter, interval_over>>

AppExpected(m) ==
    /\ ppc = "idle" /\ m.kind = "App" /\ m.seqnum = expected_seqnum
    /\ stored' = Append(stored, m.seqnum)
    /\ expected_seqnum' = expected_seqnum + 1 /\ ppc' = "drain"
    /\ UNCHANGED <<exchange, session, builder, rx, tx, my_next_seqnum,
                   pending_to_store_map_, resend_counter, interval_over>>

\* The call of resend_logic is commented out here.
AppAhead(m) ==
    /\ ppc = "idle" /\ m.kind = "App" /\ m.seqnum > expected_seqnum
    /\ push_pending(m)
    /\ UNCHANGED <<exchange, session, builder, rx, tx, my_next_seqnum,
                   expected_seqnum, resend_counter, ppc, interval_over, stored>>

\* Mutant of SesExpected: the pending loop is forgotten.
SesExpected_NoDrain(m) ==
    /\ ppc = "idle" /\ m.kind # "App" /\ m.seqnum = expected_seqnum
    /\ handle_sesMsg(m)
    /\ expected_seqnum' = Expectation(m) + 1
    /\ UNCHANGED <<exchange, builder, tx, pending_to_store_map_, resend_counter,
                   interval_over, stored, ppc>>

SesExpected(m) ==
    /\ ppc = "idle" /\ m.kind # "App" /\ m.seqnum = expected_seqnum
    /\ handle_sesMsg(m)
    /\ expected_seqnum' = Expectation(m) + 1 /\ ppc' = "drain"
    /\ UNCHANGED <<exchange, builder, tx, pending_to_store_map_, resend_counter,
                   interval_over, stored>>

\* Mutant of resend_logic: the request starts one too late.
resend_logic_OffByOne(upto) ==
    IF resend_counter < MAX_RESEND_ATTEMPT /\ interval_over
    THEN /\ tx' = Enqueue(tx, [kind |-> "ResendRequest", begin |-> expected_seqnum + 1, end |-> upto])
         /\ resend_counter' = resend_counter + 1
    ELSE /\ tx' = Enqueue(Enqueue(tx, [kind |-> "Logout", begin |-> 0, end |-> 0]),
                          [kind |-> "Logon", begin |-> 0, end |-> 0])
         /\ resend_counter' = 0

\* Mutant of resend_logic: the attempts are counted down from nothing.
resend_logic_CountsDown(upto) ==
    IF resend_counter < MAX_RESEND_ATTEMPT /\ interval_over
    THEN /\ tx' = Enqueue(tx, [kind |-> "ResendRequest", begin |-> expected_seqnum, end |-> upto])
         /\ resend_counter' = resend_counter - 1
    ELSE /\ tx' = Enqueue(Enqueue(tx, [kind |-> "Logout", begin |-> 0, end |-> 0]),
                          [kind |-> "Logon", begin |-> 0, end |-> 0])
         /\ resend_counter' = 0

\* resend_logic: ask for the gap, at most MAX_RESEND_ATTEMPT times, then
\* log out and in again.
resend_logic(upto) ==
    IF resend_counter < MAX_RESEND_ATTEMPT /\ interval_over
    THEN /\ tx' = Enqueue(tx, [kind |-> "ResendRequest", begin |-> expected_seqnum, end |-> upto])
         /\ resend_counter' = resend_counter + 1
    ELSE /\ tx' = Enqueue(Enqueue(tx, [kind |-> "Logout", begin |-> 0, end |-> 0]),
                          [kind |-> "Logon", begin |-> 0, end |-> 0])
         /\ resend_counter' = 0

SesAhead(m) ==
    /\ ppc = "idle" /\ m.kind # "App" /\ ~IsLogon(m) /\ m.seqnum > expected_seqnum
    /\ resend_logic(m.seqnum)
    /\ push_pending(m)
    /\ UNCHANGED <<exchange, session, builder, rx, my_next_seqnum,
                   expected_seqnum, ppc, interval_over, stored>>

\* resend_logic_logon (its branch for ResetSeqNumFlag=Y needs a Logon that
\* resets the numbers and is itself ahead of them: a conforming exchange
\* numbers that Logon 1)
LogonAhead(m) ==
    /\ ppc = "idle" /\ IsLogon(m) /\ m.seqnum > expected_seqnum
    /\ tx' = Enqueue(tx, [kind |-> "ResendRequest", begin |-> expected_seqnum, end |-> m.seqnum - 1])
    /\ push_pending(m)
    /\ UNCHANGED <<exchange, session, builder, rx, my_next_seqnum,
                   expected_seqnum, resend_counter, ppc, interval_over, stored>>

\* A number that is behind: the message is not acted upon.  (Every session
\* message, this one too, is copied to the store for the database.)
Behind(m) == ppc = "idle" /\ m.seqnum < expected_seqnum /\ UNCHANGED vars

(* the loop over pending_to_store_map_, with proceedPendingFIX *)

Next1(m) == m \in pending_to_store_map_ /\ m.seqnum = expected_seqnum

Pop(m) == pending_to_store_map_' = pending_to_store_map_ \ {m}

\* Mutant of DrainApp: the waiting message is taken out and not stored.
DrainApp_Unstored(m) ==
    /\ ppc = "drain" /\ Next1(m) /\ m.kind = "App"
    /\ Pop(m) /\ expected_seqnum' = expected_seqnum + 1
    /\ UNCHANGED <<exchange, session, builder, rx, tx, my_next_seqnum, stored,
                   resend_counter, ppc, interval_over>>

DrainApp(m) ==
    /\ ppc = "drain" /\ Next1(m) /\ m.kind = "App"
    /\ stored' = Append(stored, m.seqnum)
    /\ Pop(m) /\ expected_seqnum' = expected_seqnum + 1
    /\ UNCHANGED <<exchange, session, builder, rx, tx, my_next_seqnum,
                   resend_counter, ppc, interval_over>>

\* A Logon that waited is dropped: handle_sesMsg is not called for it.
DrainLogon(m) ==
    /\ ppc = "drain" /\ Next1(m) /\ IsLogon(m)
    /\ Pop(m) /\ expected_seqnum' = expected_seqnum + 1
    /\ UNCHANGED <<exchange, session, builder, rx, tx, my_next_seqnum,
                   resend_counter, ppc, interval_over, stored>>

DrainSession(m) ==
    /\ ppc = "drain" /\ Next1(m) /\ m.kind # "App" /\ ~IsLogon(m)
    /\ handle_sesMsg(m)
    /\ Pop(m) /\ expected_seqnum' = Expectation(m) + 1
    /\ UNCHANGED <<exchange, builder, tx, resend_counter, ppc, interval_over, stored>>

DrainDone ==
    /\ ppc = "drain" /\ \A m \in pending_to_store_map_ : m.seqnum # expected_seqnum
    /\ ppc' = "idle"
    /\ UNCHANGED <<exchange, session, builder, rx, tx, my_next_seqnum,
                   expected_seqnum, pending_to_store_map_, resend_counter, interval_over, stored>>

-----------------------------------------------------------------------------
(* Builder_Dispatch::buildFIX, by the builder thread, when it has an order *)

BuilderAt(where) == bpc = where /\ "builder" \notin inc
CanSend == Len(sent) < MaxOut

\* dispatch popped a FIX order from risk_to_builder_.
TakeOrder == /\ BuilderAt("idle") /\ CanSend
             /\ bpc' = "rx"
             /\ UNCHANGED <<exchange, parser, session, seen, inc, sent, rx, tx, my_next_seqnum>>

BuildDone == /\ increase_next_seq("builder")
             /\ UNCHANGED <<exchange, parser, session, bpc, seen, sent, rx, tx>>

\* Mutant of TryAgain: LoginDecider lets one attempt too many pass.
TryAgain_OffByOne == /\ is_connected /\ ~is_logged_in
                     /\ login_retry_count <= ALLOWED_LOGIN_ATTEMPT

\* LoginController::LoginDecider
TryAgain == /\ is_connected /\ ~is_logged_in
            /\ login_retry_count < ALLOWED_LOGIN_ATTEMPT

\* buildFIX_ses_out: a TestRequest and a Reject are answered at once ...
BuildRx == /\ BuilderAt("rx") /\ rx # <<>> /\ CanSend
           /\ Head(rx) \in {"TestRequest", "Reject"}
           /\ rx' = Tail(rx) /\ Build("builder")
           /\ UNCHANGED <<exchange, parser, session, bpc, seen, my_next_seqnum, tx>>

\* ... a ResendRequest from the history, under the old numbers; a Logout is
\* given up if LoginDecider does not say TryAgain ...
BuildRxNothingNew ==
    /\ BuilderAt("rx") /\ rx # <<>>
    /\ Head(rx) = "ResendRequest" \/ (Head(rx) = "Logout" /\ ~TryAgain)
    /\ rx' = Tail(rx)
    /\ UNCHANGED <<exchange, parser, session, builder, my_next_seqnum, tx>>

\* ... and is otherwise answered, after a sleep, by a new Logon,
DecideRelogin ==
    /\ BuilderAt("rx") /\ rx # <<>> /\ Head(rx) = "Logout" /\ TryAgain
    /\ rx' = Tail(rx) /\ bpc' = "relogin" /\ seen' = login_retry_count
    /\ UNCHANGED <<exchange, parser, session, inc, sent, my_next_seqnum, tx>>

Relogin == /\ BuilderAt("relogin") /\ CanSend
           /\ Build("builder") /\ bpc' = "retry"
           /\ UNCHANGED <<exchange, parser, session, seen, my_next_seqnum, rx, tx>>

\* with a plain ++login_retry_count: the parser's reset to 0 may be lost.
CountRetry ==
    /\ BuilderAt("retry") /\ bpc' = "rx" /\ seen' = 0
    /\ login_retry_count' \in {login_retry_count + 1, seen + 1}
    /\ UNCHANGED <<exchange, parser, is_connected, is_logged_in, logged_before,
                   inc, sent, my_next_seqnum, rx, tx>>

RxDone == /\ BuilderAt("rx") /\ rx = <<>> /\ bpc' = "tx"
          /\ UNCHANGED <<exchange, parser, session, seen, inc, sent, rx, tx, my_next_seqnum>>

\* buildFIX_ses_in
BuildTx == /\ BuilderAt("tx") /\ tx # <<>> /\ CanSend
           /\ tx' = Tail(tx) /\ Build("builder")
           /\ UNCHANGED <<exchange, parser, session, bpc, seen, my_next_seqnum, rx>>

TxDone == /\ BuilderAt("tx") /\ tx = <<>> /\ bpc' = "app"
          /\ UNCHANGED <<exchange, parser, session, seen, inc, sent, rx, tx, my_next_seqnum>>

\* buildFIX_app
BuildApp == /\ BuilderAt("app") /\ CanSend
            /\ Build("builder") /\ bpc' = "idle"
            /\ UNCHANGED <<exchange, parser, session, seen, my_next_seqnum, rx, tx>>

buildFIX == \/ BuildRx \/ BuildRxNothingNew \/ DecideRelogin \/ Relogin \/ CountRetry \/ RxDone
            \/ BuildTx \/ TxDone \/ BuildApp \/ BuildDone

Receive == \E m \in Arrivals :
              \/ AppExpected(m) \/ AppAhead(m)
              \/ SesExpected(m) \/ SesAhead(m) \/ LogonAhead(m) \/ Behind(m)
Drain == (\E m \in pending_to_store_map_ : DrainApp(m) \/ DrainLogon(m) \/ DrainSession(m))
         \/ DrainDone
Next == \/ \E k \in Kinds : ExchangeSends(k)
        \/ SecondPasses \/ LoginAttempt \/ LoginSent \/ Receive \/ Drain \/ TakeOrder \/ buildFIX

Spec == Init /\ [][Next]_vars

-----------------------------------------------------------------------------
(* Properties *)

\* The type invariant of the session.
TypeOK ==
    /\ log \in Seq(AllKinds)
    /\ expected_seqnum \in Nat \ {0} /\ pending_to_store_map_ \in SUBSET Message
    /\ resend_counter \in Nat /\ ppc \in {"idle", "drain"} /\ interval_over \in BOOLEAN
    /\ is_connected \in BOOLEAN /\ is_logged_in \in BOOLEAN /\ logged_before \in BOOLEAN
    /\ login_retry_count \in Nat /\ my_next_seqnum \in Nat \ {0}
    /\ rx \in Seq(AllKinds)
    /\ tx \in Seq([kind : {"ResendRequest", "Logout", "Logon"}, begin : Nat, end : Nat])
    /\ bpc \in {"idle", "rx", "relogin", "retry", "tx", "app"} /\ seen \in Nat
    /\ inc \subseteq {"network", "builder"}
    /\ stored \in Seq(Nat) /\ sent \in Seq(Nat)

\* Strict ordering at the parser layer: the store gets application messages
\* in the order of their numbers and none twice, although they arrive
\* repeated, reordered and with gaps, and although a SequenceReset moves the
\* expected number past messages that are waiting.
StoreInOrder == \A i, j \in 1..Len(stored) : i < j => stored[i] < stored[j]

\* The parser never waits for a message it already has: between two messages
\* the expected one is not in pending_to_store_map_.
NotStuckOnPending ==
    ppc = "idle" => \A m \in pending_to_store_map_ : m.seqnum # expected_seqnum

\* A queued ResendRequest covers everything up to the message that revealed
\* the gap: expected_seqnum never falls behind the begin it was built with.
ResendCoversGap ==
    \A i \in 1..Len(tx) : tx[i].kind = "ResendRequest" =>
        tx[i].begin <= expected_seqnum /\ tx[i].begin <= tx[i].end

\* The exchange is not flooded with Logons: however the network thread's
\* first attempt, the builder's answers to Logouts and the parser's reset of
\* the counter interleave, the attempts counted since the last accepted
\* Logon stay within the limit LoginDecider enforces.
LoginBudget == login_retry_count <= ALLOWED_LOGIN_ATTEMPT

\* No application message is passed over, whatever was lost, repeated or
\* waiting, with one exception: the one right behind a session message, because
\* a Logon that resets the numbers and a SequenceReset set expected_seqnum and
\* parseFIX then increases it once more.
SkipsOnlyBehindSession ==
    \A n \in 1..Len(log) : log[n] = "App" /\ n < expected_seqnum =>
        \/ \E i \in 1..Len(stored) : stored[i] = n
        \/ n > 1 /\ log[n - 1] # "App"

\* No two messages we build have the same number.
OutboundFresh == \A i, j \in 1..Len(sent) : sent[i] = sent[j] => i = j
=============================================================================
