-------------------------- MODULE FixSessionProofs --------------------------
(***************************************************************************)
(* Proofs about FixSession, for all kinds of message, numbers of messages, *)
(* queue capacities and limits.                                            *)
(***************************************************************************)
EXTENDS FixSession, SequenceTheorems, TLAPS

TxMessage == [kind : {"ResendRequest", "Logout", "Logon"}, begin : Nat, end : Nat]

-----------------------------------------------------------------------------
(* What the operators of the model return *)

\* A message of the connection, or one that waits: a SequenceReset leads on.
WellFormed(m) == /\ m \in Message
                 /\ m.kind = "SequenceReset" => m.seqnum < m.new_seqnum

\* Whatever arrives was sent or fills a gap of what was sent.
LEMMA ArrivalsWellFormed ==
    ASSUME log \in Seq(AllKinds) PROVE \A m \in Arrivals : WellFormed(m)
<1> SUFFICES ASSUME NEW m \in Arrivals PROVE WellFormed(m)
    OBVIOUS
<1>1. CASE \E n \in 1..Len(log) : m = Original(n)
  <2>1. PICK n \in 1..Len(log) : m = Original(n)
        BY <1>1
  <2>2. log[n] \in AllKinds /\ n \in Nat \ {0}
        OBVIOUS
  <2>3. log[n] # "SequenceReset"
        BY <2>2 DEF AllKinds
  <2> QED BY <2>1, <2>2, <2>3 DEF WellFormed, Message, Original
<1>2. CASE \E n \in 1..Len(log), k \in 1..Len(log) + 1 : n < k /\ m = GapFill(n, k)
      BY <1>2 DEF WellFormed, Message, GapFill
<1> QED BY <1>1, <1>2 DEF Arrivals

\* Nothing arrives before the exchange has sent something.
LEMMA NothingArrivesFirst == ASSUME log = <<>> PROVE Arrivals = {}
  BY DEF Arrivals

\* A push keeps the type of a queue, and adds at most its element.
LEMMA EnqueueType ==
    ASSUME NEW S, NEW q \in Seq(S), NEW e \in S
    PROVE  /\ Enqueue(q, e) \in Seq(S)
           /\ \A i \in 1..Len(Enqueue(q, e)) : 
                 \/ i \in 1..Len(q) /\ Enqueue(q, e)[i] = q[i]
                 \/ Enqueue(q, e)[i] = e
  BY DEF Enqueue

\* The number expected after a message in its turn is not behind it.
LEMMA ExpectationGrows ==
    ASSUME NEW m, WellFormed(m), m.seqnum = expected_seqnum
    PROVE  Expectation(m) \in Nat /\ expected_seqnum <= Expectation(m)
  BY DEF WellFormed, Message, Expectation, ResetsNumbers, IsLogon

-----------------------------------------------------------------------------
(* Type correctness *)

\* What handle_sesMsg leaves in the shared state has its type.
LEMMA HandleType ==
    ASSUME TypeOK, NEW m, handle_sesMsg(m)
    PROVE  /\ rx' \in Seq(AllKinds) /\ my_next_seqnum' \in Nat \ {0}
           /\ is_connected' \in BOOLEAN /\ is_logged_in' \in BOOLEAN
           /\ logged_before' \in BOOLEAN /\ login_retry_count' \in Nat
<1>1. rx' \in Seq(AllKinds)
      BY EnqueueType DEF handle_sesMsg, AllKinds, TypeOK
<1>2. my_next_seqnum' \in Nat \ {0} /\ login_retry_count' \in Nat
      BY DEF handle_sesMsg, TypeOK
<1>3. is_connected' \in BOOLEAN
      BY DEF handle_sesMsg, TypeOK
<1>4. is_logged_in' \in BOOLEAN /\ logged_before' \in BOOLEAN
  <2>1. IsLogon(m) \in BOOLEAN
        BY DEF IsLogon
  <2>2. /\ is_logged_in' = (IF m.kind = "LogoutDone" THEN FALSE ELSE is_logged_in \/ IsLogon(m))
        /\ logged_before' = (logged_before \/ IsLogon(m))
        BY DEF handle_sesMsg
  <2>3. (is_logged_in \/ IsLogon(m)) \in BOOLEAN /\ (logged_before \/ IsLogon(m)) \in BOOLEAN
        OBVIOUS
  <2> QED BY <2>2, <2>3, Zenon
<1> QED BY <1>1, <1>2, <1>3, <1>4

\* resend_logic queues one or two messages, and what is queued are the old
\* entries, a request for the gap or the messages of a new login.
LEMMA ResendType ==
    ASSUME TypeOK, NEW upto \in Nat, resend_logic(upto)
    PROVE  /\ tx' \in Seq(TxMessage) /\ resend_counter' \in Nat
           /\ \A i \in 1..Len(tx') :
                 \/ i \in 1..Len(tx) /\ tx'[i] = tx[i]
                 \/ tx'[i] = [kind |-> "ResendRequest", begin |-> expected_seqnum, end |-> upto]
                 \/ tx'[i].kind \in {"Logout", "Logon"}
<1> DEFINE request == [kind |-> "ResendRequest", begin |-> expected_seqnum, end |-> upto]
           logout  == [kind |-> "Logout", begin |-> 0, end |-> 0]
           logon   == [kind |-> "Logon", begin |-> 0, end |-> 0]
           out     == Enqueue(tx, logout)
<1>1. tx \in Seq(TxMessage)
      BY DEF TypeOK, TxMessage
<1>2. request \in TxMessage /\ logout \in TxMessage /\ logon \in TxMessage
      BY DEF TypeOK, TxMessage
<1>3. logout.kind = "Logout" /\ logon.kind = "Logon"
      OBVIOUS
<1>4. resend_counter' \in Nat
      BY DEF resend_logic, TypeOK
<1>5. tx' = Enqueue(tx, request) \/ tx' = Enqueue(out, logon)
      BY DEF resend_logic
<1> HIDE DEF request, logout, logon
<1>6. CASE tx' = Enqueue(tx, request)
  <2>1. /\ tx' \in Seq(TxMessage)
        /\ \A i \in 1..Len(tx') : \/ i \in 1..Len(tx) /\ tx'[i] = tx[i]
                                  \/ tx'[i] = request
        BY <1>1, <1>2, <1>6, EnqueueType
  <2> QED BY <2>1, <1>4 DEF request
<1>7. CASE tx' = Enqueue(out, logon)
  <2>1. /\ out \in Seq(TxMessage)
        /\ \A i \in 1..Len(out) : \/ i \in 1..Len(tx) /\ out[i] = tx[i]
                                  \/ out[i] = logout
        BY <1>1, <1>2, EnqueueType
  <2> HIDE DEF out
  <2>2. /\ tx' \in Seq(TxMessage)
        /\ \A i \in 1..Len(tx') : \/ i \in 1..Len(out) /\ tx'[i] = out[i]
                                  \/ tx'[i] = logon
        BY <1>2, <1>7, <2>1, EnqueueType
  <2>3. ASSUME NEW i \in 1..Len(tx')
        PROVE  \/ i \in 1..Len(tx) /\ tx'[i] = tx[i]
               \/ tx'[i] = logout \/ tx'[i] = logon
        BY <2>1, <2>2
  <2> QED BY <2>2, <2>3, <1>3, <1>4
<1> QED BY <1>5, <1>6, <1>7

\* Every action keeps the types; the parser's actions are about a well-formed
\* message.
LEMMA TypeStep == TypeOK /\ [Next]_vars => TypeOK'
<1> SUFFICES ASSUME TypeOK, [Next]_vars PROVE TypeOK'
    OBVIOUS
<1> USE BoundsAssumption, KindsAssumption
<1>1. CASE UNCHANGED vars
      BY <1>1 DEF vars, exchange, parser, session, builder, TypeOK
<1>2. ASSUME NEW k \in Kinds, ExchangeSends(k) PROVE TypeOK'
      BY <1>2 DEF ExchangeSends, parser, session, builder, TypeOK
<1>3. CASE SecondPasses
      BY <1>3 DEF SecondPasses, exchange, session, builder, TypeOK
<1>4. CASE LoginAttempt
      BY <1>4 DEF LoginAttempt, Build, exchange, parser, TypeOK
<1>5. CASE LoginSent
      BY <1>5 DEF LoginSent, increase_next_seq, exchange, parser, TypeOK
<1>6. CASE Receive
  <2>1. PICK m \in Arrivals : \/ AppExpected(m) \/ AppAhead(m)
                              \/ SesExpected(m) \/ SesAhead(m) \/ LogonAhead(m) \/ Behind(m)
        BY <1>6 DEF Receive
  <2>2. WellFormed(m)
        BY ArrivalsWellFormed DEF TypeOK
  <2>3. m \in Message
        BY <2>2 DEF WellFormed
  <2>4. CASE AppExpected(m)
        BY <2>4, <2>3 DEF AppExpected, exchange, session, builder, TypeOK, Message
  <2>5. CASE AppAhead(m)
        BY <2>5, <2>3 DEF AppAhead, push_pending, exchange, session, builder, TypeOK
  <2>6. CASE SesExpected(m)
    <3>1. expected_seqnum' \in Nat \ {0}
          BY <2>6, <2>2, ExpectationGrows DEF SesExpected, TypeOK
    <3> QED BY <2>6, <3>1, HandleType DEF SesExpected, exchange, builder, TypeOK
  <2>7. CASE SesAhead(m)
    <3>1. tx' \in Seq(TxMessage) /\ resend_counter' \in Nat
          BY <2>7, <2>3, ResendType DEF SesAhead, Message
    <3> QED BY <2>7, <2>3, <3>1
            DEF SesAhead, push_pending, exchange, session, builder, TypeOK, TxMessage
  <2>8. CASE LogonAhead(m)
    <3>1. tx' \in Seq(TxMessage)
      <4>1. tx \in Seq(TxMessage)
            BY DEF TypeOK, TxMessage
      <4>2. [kind |-> "ResendRequest", begin |-> expected_seqnum, end |-> m.seqnum - 1] \in TxMessage
            BY <2>3 DEF TypeOK, TxMessage, Message
      <4> QED BY <2>8, <4>1, <4>2, EnqueueType DEF LogonAhead
    <3> QED BY <2>8, <2>3, <3>1
            DEF LogonAhead, push_pending, exchange, session, builder, TypeOK, TxMessage
  <2>9. CASE Behind(m)
        BY <2>9, <1>1 DEF Behind
  <2> QED BY <2>1, <2>4, <2>5, <2>6, <2>7, <2>8, <2>9
<1>7. CASE Drain
  <2>1. CASE DrainDone
        BY <1>7, <2>1 DEF DrainDone, exchange, session, builder, TypeOK
  <2>2. ASSUME NEW m \in pending_to_store_map_, DrainApp(m) PROVE TypeOK'
        BY <2>2 DEF DrainApp, Pop, Next1, exchange, session, builder, TypeOK, Message
  <2>3. ASSUME NEW m \in pending_to_store_map_, DrainLogon(m) PROVE TypeOK'
        BY <2>3 DEF DrainLogon, Pop, exchange, session, builder, TypeOK
  <2>4. ASSUME NEW m \in pending_to_store_map_, DrainSession(m) PROVE TypeOK'
    <3>1. expected_seqnum' \in Nat \ {0}
          BY <2>4 DEF DrainSession, Expectation, TypeOK, Message
    <3> QED BY <2>4, <3>1, HandleType DEF DrainSession, Pop, exchange, builder, TypeOK
  <2> QED BY <1>7, <2>1, <2>2, <2>3, <2>4 DEF Drain
<1>8. CASE TakeOrder
      BY <1>8 DEF TakeOrder, exchange, parser, session, TypeOK
<1>9. CASE buildFIX
  <2>1. CASE BuildRx
        BY <2>1 DEF BuildRx, Build, exchange, parser, session, TypeOK
  <2>2. CASE BuildRxNothingNew
        BY <2>2 DEF BuildRxNothingNew, exchange, parser, session, builder, TypeOK
  <2>3. CASE DecideRelogin
        BY <2>3 DEF DecideRelogin, exchange, parser, session, TypeOK
  <2>4. CASE Relogin
        BY <2>4 DEF Relogin, Build, exchange, parser, session, TypeOK
  <2>5. CASE CountRetry
        BY <2>5 DEF CountRetry, exchange, parser, TypeOK
  <2>6. CASE RxDone
        BY <2>6 DEF RxDone, exchange, parser, session, TypeOK
  <2>7. CASE BuildTx
    <3>1. tx' \in Seq(TxMessage)
          BY <2>7 DEF BuildTx, TypeOK, TxMessage
    <3> QED BY <2>7, <3>1 DEF BuildTx, Build, exchange, parser, session, TypeOK, TxMessage
  <2>8. CASE TxDone
        BY <2>8 DEF TxDone, exchange, parser, session, TypeOK
  <2>9. CASE BuildApp
        BY <2>9 DEF BuildApp, Build, exchange, parser, session, TypeOK
  <2>10. CASE BuildDone
         BY <2>10 DEF BuildDone, increase_next_seq, exchange, parser, session, TypeOK
  <2> QED BY <1>9, <2>1, <2>2, <2>3, <2>4, <2>5, <2>6, <2>7, <2>8, <2>9, <2>10 DEF buildFIX
<1> QED BY <1>1, <1>2, <1>3, <1>4, <1>5, <1>6, <1>7, <1>8, <1>9 DEF Next

\* The types hold initially.
LEMMA TypeInit == Init => TypeOK
<1> SUFFICES ASSUME Init PROVE TypeOK
    OBVIOUS
<1>1. /\ log \in Seq(AllKinds) /\ rx \in Seq(AllKinds) /\ tx \in Seq(TxMessage)
      /\ stored \in Seq(Nat) /\ sent \in Seq(Nat)
      BY EmptySeq DEF Init
<1>2. pending_to_store_map_ \in SUBSET Message /\ inc \subseteq {"network", "builder"}
      BY DEF Init
<1>3. /\ expected_seqnum \in Nat \ {0} /\ my_next_seqnum \in Nat \ {0}
      /\ resend_counter \in Nat /\ login_retry_count \in Nat /\ seen \in Nat
      /\ ppc \in {"idle", "drain"} /\ bpc \in {"idle", "rx", "relogin", "retry", "tx", "app"}
      BY DEF Init
<1>4. /\ interval_over \in BOOLEAN /\ is_connected \in BOOLEAN
      /\ is_logged_in \in BOOLEAN /\ logged_before \in BOOLEAN
      BY DEF Init
<1> QED BY <1>1, <1>2, <1>3, <1>4 DEF TypeOK, TxMessage

\* Type correctness of the session: numbers stay positive, the pending map
\* holds messages and the queues hold what their readers switch on, whatever
\* the three threads and the connection do.
THEOREM TypeCorrect == Spec => []TypeOK
<1>1. Init => TypeOK BY TypeInit
<1>2. TypeOK /\ [Next]_vars => TypeOK' BY TypeStep
<1> QED BY <1>1, <1>2, PTL DEF Spec

-----------------------------------------------------------------------------
(* The order in which the store gets messages *)

\* What is stored lies behind the expected number, in order, and what waits
\* can only lead on.  StoreInOrder alone is not inductive: a message with the
\* expected number is stored without a look at what was stored before.
OrderInv == /\ \A m \in pending_to_store_map_ : WellFormed(m)
            /\ \A i \in 1..Len(stored) : stored[i] < expected_seqnum
            /\ StoreInOrder

\* Storing the expected message and counting on keeps the order.
LEMMA StoreKeepsOrder ==
    ASSUME TypeOK, OrderInv, NEW n \in Nat, n = expected_seqnum,
           stored' = Append(stored, n), expected_seqnum' = expected_seqnum + 1
    PROVE  /\ \A i \in 1..Len(stored') : stored'[i] < expected_seqnum'
           /\ StoreInOrder'
<1>1. stored \in Seq(Nat) /\ expected_seqnum \in Nat
      BY DEF TypeOK
<1>2. /\ Len(stored') = Len(stored) + 1 /\ Len(stored) \in Nat
      /\ \A i \in 1..Len(stored) : stored'[i] = stored[i]
      /\ stored'[Len(stored) + 1] = n
      BY <1>1
<1>3. \A i \in 1..Len(stored) : stored[i] \in Nat /\ stored[i] < expected_seqnum
      BY <1>1 DEF OrderInv
<1>4. ASSUME NEW i \in 1..Len(stored') PROVE stored'[i] < expected_seqnum'
      BY <1>1, <1>2, <1>3
<1>5. ASSUME NEW i \in 1..Len(stored'), NEW j \in 1..Len(stored'), i < j
      PROVE  stored'[i] < stored'[j]
  <2>1. CASE j = Len(stored) + 1
        BY <1>1, <1>2, <1>3, <1>5, <2>1
  <2>2. CASE j \in 1..Len(stored)
        BY <1>2, <1>5, <2>2 DEF OrderInv, StoreInOrder
  <2> QED BY <2>1, <2>2, <1>2
<1> QED BY <1>4, <1>5 DEF StoreInOrder

\* Moving the expected number on without storing keeps the order.
LEMMA SkipKeepsOrder ==
    ASSUME TypeOK, OrderInv, stored' = stored,
           expected_seqnum' \in Nat, expected_seqnum <= expected_seqnum'
    PROVE  /\ \A i \in 1..Len(stored') : stored'[i] < expected_seqnum'
           /\ StoreInOrder'
<1>1. \A i \in 1..Len(stored) : stored[i] \in Nat /\ stored[i] < expected_seqnum
      BY DEF OrderInv, TypeOK
<1>2. StoreInOrder'
      BY DEF OrderInv, StoreInOrder
<1> QED BY <1>1, <1>2 DEF TypeOK

\* A message that starts to wait is as well formed as those that wait.
LEMMA PushKeepsWellFormed ==
    ASSUME OrderInv, NEW m, WellFormed(m), push_pending(m)
    PROVE  \A p \in pending_to_store_map_' : WellFormed(p)
  BY DEF OrderInv, push_pending

\* One step; the steps of the builder and of the network leave the parser's
\* state alone.
LEMMA OrderStep == TypeOK /\ OrderInv /\ [Next]_vars => OrderInv'
<1> SUFFICES ASSUME TypeOK, OrderInv, [Next]_vars PROVE OrderInv'
    OBVIOUS
<1>1. ASSUME UNCHANGED <<pending_to_store_map_, stored, expected_seqnum>> PROVE OrderInv'
  <2>1. (\A m \in pending_to_store_map_ : WellFormed(m))'
        BY <1>1 DEF OrderInv, WellFormed
  <2> QED BY <1>1, <2>1 DEF OrderInv, StoreInOrder
<1>2. CASE Receive
  <2>1. PICK m \in Arrivals : \/ AppExpected(m) \/ AppAhead(m)
                              \/ SesExpected(m) \/ SesAhead(m) \/ LogonAhead(m) \/ Behind(m)
        BY <1>2 DEF Receive
  <2>2. WellFormed(m)
        BY ArrivalsWellFormed DEF TypeOK
  <2>3. CASE AppExpected(m)
    <3>1. m.seqnum \in Nat
          BY <2>2 DEF WellFormed, Message
    <3> QED BY <2>3, <3>1, StoreKeepsOrder DEF AppExpected, OrderInv
  <2>4. CASE AppAhead(m)
        BY <2>4, <2>2, SkipKeepsOrder, PushKeepsWellFormed DEF AppAhead, OrderInv, TypeOK
  <2>5. CASE SesExpected(m)
    <3>1. expected_seqnum' \in Nat /\ expected_seqnum <= expected_seqnum'
          BY <2>5, <2>2, ExpectationGrows DEF SesExpected, TypeOK
    <3> QED BY <2>5, <3>1, SkipKeepsOrder DEF SesExpected, OrderInv
  <2>6. CASE SesAhead(m)
        BY <2>6, <2>2, SkipKeepsOrder, PushKeepsWellFormed DEF SesAhead, OrderInv, TypeOK
  <2>7. CASE LogonAhead(m)
        BY <2>7, <2>2, SkipKeepsOrder, PushKeepsWellFormed DEF LogonAhead, OrderInv, TypeOK
  <2>8. CASE Behind(m)
        BY <2>8, <1>1 DEF Behind, vars, parser
  <2> QED BY <2>1, <2>3, <2>4, <2>5, <2>6, <2>7, <2>8
<1>3. CASE Drain
  <2>1. CASE DrainDone
        BY <2>1, <1>1 DEF DrainDone
  <2>2. ASSUME NEW m \in pending_to_store_map_, DrainApp(m) PROVE OrderInv'
    <3>1. m.seqnum \in Nat
          BY DEF OrderInv, WellFormed, Message
    <3> QED BY <2>2, <3>1, StoreKeepsOrder DEF DrainApp, Next1, Pop, OrderInv
  <2>3. ASSUME NEW m \in pending_to_store_map_, DrainLogon(m) PROVE OrderInv'
        BY <2>3, SkipKeepsOrder DEF DrainLogon, Pop, OrderInv, TypeOK
  <2>4. ASSUME NEW m \in pending_to_store_map_, DrainSession(m) PROVE OrderInv'
    <3>1. WellFormed(m) /\ m.seqnum = expected_seqnum
          BY <2>4 DEF DrainSession, Next1, OrderInv
    <3>2. expected_seqnum' \in Nat /\ expected_seqnum <= expected_seqnum'
          BY <2>4, <3>1, ExpectationGrows DEF DrainSession, TypeOK
    <3> QED BY <2>4, <3>2, SkipKeepsOrder DEF DrainSession, Pop, OrderInv
  <2> QED BY <1>3, <2>1, <2>2, <2>3, <2>4 DEF Drain
<1>4. CASE \E k \in Kinds : ExchangeSends(k)
      BY <1>4, <1>1 DEF ExchangeSends, parser
<1>5. CASE SecondPasses \/ LoginAttempt \/ LoginSent \/ TakeOrder
      BY <1>5, <1>1 DEF SecondPasses, LoginAttempt, LoginSent, TakeOrder, parser
<1>6. CASE buildFIX
      BY <1>6, <1>1 DEF buildFIX, BuildRx, BuildRxNothingNew, DecideRelogin, Relogin, CountRetry,
                        RxDone, BuildTx, TxDone, BuildApp, BuildDone, parser
<1>7. CASE UNCHANGED vars
      BY <1>7, <1>1 DEF vars, parser
<1> QED BY <1>2, <1>3, <1>4, <1>5, <1>6, <1>7 DEF Next

\* The invariant holds in every reachable state.
LEMMA OrderAlways == Spec => [](TypeOK /\ OrderInv)
<1>1. Init => TypeOK /\ OrderInv
      BY TypeInit DEF Init, OrderInv, StoreInOrder
<1>2. TypeOK /\ OrderInv /\ [Next]_vars => (TypeOK /\ OrderInv)'
      BY TypeStep, OrderStep
<1> QED BY <1>1, <1>2, PTL DEF Spec

\* The store gets application messages in the order of their numbers and none
\* twice, however they are lost, repeated, reordered and gap-filled.
THEOREM OrderedStore == Spec => []StoreInOrder
<1>1. OrderInv => StoreInOrder BY DEF OrderInv
<1> QED BY <1>1, OrderAlways, PTL

-----------------------------------------------------------------------------
(* The pending map and the requests for gaps *)

\* The parser never waits for a message it has; the pending loop ends only
\* when the expected one is not there, and only messages ahead are put there.
LEMMA PendingStep == TypeOK /\ NotStuckOnPending /\ [Next]_vars => NotStuckOnPending'
<1> SUFFICES ASSUME TypeOK, NotStuckOnPending, [Next]_vars PROVE NotStuckOnPending'
    OBVIOUS
<1>1. ASSUME UNCHANGED <<ppc, pending_to_store_map_, expected_seqnum>> PROVE NotStuckOnPending'
      BY <1>1 DEF NotStuckOnPending
<1>2. ASSUME ppc' = "drain" PROVE NotStuckOnPending'
      BY <1>2 DEF NotStuckOnPending
<1>3. CASE Receive
  <2>1. PICK m \in Arrivals : \/ AppExpected(m) \/ AppAhead(m)
                              \/ SesExpected(m) \/ SesAhead(m) \/ LogonAhead(m) \/ Behind(m)
        BY <1>3 DEF Receive
  <2>2. m.seqnum \in Nat /\ expected_seqnum \in Nat
        BY ArrivalsWellFormed DEF TypeOK, WellFormed, Message
  <2>3. CASE AppExpected(m) \/ SesExpected(m)
        BY <2>3, <1>2 DEF AppExpected, SesExpected
  <2>4. ASSUME ppc = "idle", m.seqnum > expected_seqnum, push_pending(m),
               UNCHANGED <<ppc, expected_seqnum>>
        PROVE  NotStuckOnPending'
        BY <2>2, <2>4 DEF push_pending, NotStuckOnPending
  <2>5. CASE AppAhead(m) \/ SesAhead(m) \/ LogonAhead(m)
        BY <2>4, <2>5 DEF AppAhead, SesAhead, LogonAhead
  <2>6. CASE Behind(m)
        BY <2>6, <1>1 DEF Behind, vars, parser
  <2> QED BY <2>1, <2>3, <2>5, <2>6
<1>4. CASE Drain
  <2>1. CASE DrainDone
        BY <2>1 DEF DrainDone, NotStuckOnPending
  <2>2. ASSUME NEW m \in pending_to_store_map_, DrainApp(m) \/ DrainLogon(m) \/ DrainSession(m)
        PROVE  NotStuckOnPending'
        BY <2>2, <1>2 DEF DrainApp, DrainLogon, DrainSession
  <2> QED BY <1>4, <2>1, <2>2 DEF Drain
<1>5. CASE \E k \in Kinds : ExchangeSends(k)
      BY <1>5, <1>1 DEF ExchangeSends, parser
<1>6. CASE SecondPasses \/ LoginAttempt \/ LoginSent \/ TakeOrder
      BY <1>6, <1>1 DEF SecondPasses, LoginAttempt, LoginSent, TakeOrder, parser
<1>7. CASE buildFIX
      BY <1>7, <1>1 DEF buildFIX, BuildRx, BuildRxNothingNew, DecideRelogin, Relogin, CountRetry,
                        RxDone, BuildTx, TxDone, BuildApp, BuildDone, parser
<1>8. CASE UNCHANGED vars
      BY <1>8, <1>1 DEF vars, parser
<1> QED BY <1>3, <1>4, <1>5, <1>6, <1>7, <1>8 DEF Next

\* Between two messages the parser is never waiting for one it already holds.
THEOREM PendingNotStuck == Spec => []NotStuckOnPending
<1>1. Init => NotStuckOnPending BY DEF Init, NotStuckOnPending
<1>2. TypeOK /\ NotStuckOnPending /\ [Next]_vars => NotStuckOnPending' BY PendingStep
<1> QED BY <1>1, <1>2, TypeCorrect, PTL DEF Spec

\* A request is built from the expected number, which only grows.
LEMMA GapStep == TypeOK /\ OrderInv /\ ResendCoversGap /\ [Next]_vars => ResendCoversGap'
<1> SUFFICES ASSUME TypeOK, OrderInv, ResendCoversGap, [Next]_vars PROVE ResendCoversGap'
    OBVIOUS
<1> DEFINE Covers(t, n) == t.kind = "ResendRequest" => t.begin <= n /\ t.begin <= t.end
<1>1. /\ tx \in Seq(TxMessage) /\ expected_seqnum \in Nat
      /\ \A i \in 1..Len(tx) : tx[i] \in TxMessage /\ Covers(tx[i], expected_seqnum)
  <2>1. tx \in Seq(TxMessage) /\ expected_seqnum \in Nat
        BY DEF TypeOK, TxMessage
  <2>2. \A i \in 1..Len(tx) : tx[i] \in TxMessage
        BY <2>1
  <2>3. \A i \in 1..Len(tx) : Covers(tx[i], expected_seqnum)
        BY DEF ResendCoversGap
  <2> QED BY <2>1, <2>2, <2>3
<1>2. ASSUME tx' = tx, expected_seqnum' \in Nat, expected_seqnum <= expected_seqnum'
      PROVE  ResendCoversGap'
      BY <1>1, <1>2 DEF ResendCoversGap, TxMessage
<1>3. ASSUME NEW t, Covers(t, expected_seqnum), expected_seqnum' = expected_seqnum,
             \A i \in 1..Len(tx') : \/ i \in 1..Len(tx) /\ tx'[i] = tx[i]
                                    \/ tx'[i] = t
                                    \/ tx'[i].kind \in {"Logout", "Logon"}
      PROVE  ResendCoversGap'
      BY <1>1, <1>3 DEF ResendCoversGap
<1>4. CASE Receive
  <2>1. PICK m \in Arrivals : \/ AppExpected(m) \/ AppAhead(m)
                              \/ SesExpected(m) \/ SesAhead(m) \/ LogonAhead(m) \/ Behind(m)
        BY <1>4 DEF Receive
  <2>2. WellFormed(m) /\ m.seqnum \in Nat
        BY ArrivalsWellFormed DEF TypeOK, WellFormed, Message
  <2>3. CASE AppExpected(m)
        BY <2>3, <1>1, <1>2 DEF AppExpected
  <2>4. CASE AppAhead(m)
        BY <2>4, <1>1, <1>2 DEF AppAhead
  <2>5. CASE SesExpected(m)
    <3>1. expected_seqnum' \in Nat /\ expected_seqnum <= expected_seqnum'
          BY <2>5, <2>2, <1>1, ExpectationGrows DEF SesExpected
    <3> QED BY <2>5, <3>1, <1>2 DEF SesExpected
  <2>6. CASE SesAhead(m)
    <3> DEFINE t == [kind |-> "ResendRequest", begin |-> expected_seqnum, end |-> m.seqnum]
    <3>1. Covers(t, expected_seqnum)
          BY <2>6, <2>2, <1>1 DEF SesAhead
    <3>2. \A i \in 1..Len(tx') : \/ i \in 1..Len(tx) /\ tx'[i] = tx[i]
                                 \/ tx'[i] = t
                                 \/ tx'[i].kind \in {"Logout", "Logon"}
          BY <2>6, <2>2, ResendType DEF SesAhead
    <3>3. expected_seqnum' = expected_seqnum
          BY <2>6 DEF SesAhead
    <3> QED BY <3>1, <3>2, <3>3, <1>3
  <2>7. CASE LogonAhead(m)
    <3> DEFINE t == [kind |-> "ResendRequest", begin |-> expected_seqnum, end |-> m.seqnum - 1]
    <3>1. Covers(t, expected_seqnum)
          BY <2>7, <2>2, <1>1 DEF LogonAhead
    <3>2. t \in TxMessage
          BY <2>7, <2>2, <1>1 DEF LogonAhead, TxMessage
    <3>3. tx' = Enqueue(tx, t)
          BY <2>7 DEF LogonAhead
    <3> HIDE DEF t
    <3>5. \A i \in 1..Len(tx') : (i \in 1..Len(tx) /\ tx'[i] = tx[i]) \/ tx'[i] = t
          BY <3>2, <3>3, <1>1, EnqueueType
    <3>4. expected_seqnum' = expected_seqnum
          BY <2>7 DEF LogonAhead
    <3> QED BY <3>1, <3>4, <3>5, <1>3
  <2>8. CASE Behind(m)
        BY <2>8, <1>1, <1>2 DEF Behind, vars, parser
  <2> QED BY <2>1, <2>3, <2>4, <2>5, <2>6, <2>7, <2>8
<1>5. CASE Drain
  <2>1. CASE DrainDone
        BY <2>1, <1>1, <1>2 DEF DrainDone
  <2>2. ASSUME NEW m \in pending_to_store_map_, DrainApp(m) \/ DrainLogon(m) PROVE ResendCoversGap'
        BY <2>2, <1>1, <1>2 DEF DrainApp, DrainLogon
  <2>3. ASSUME NEW m \in pending_to_store_map_, DrainSession(m) PROVE ResendCoversGap'
    <3>1. WellFormed(m) /\ m.seqnum = expected_seqnum
          BY <2>3 DEF DrainSession, Next1, OrderInv
    <3>2. expected_seqnum' \in Nat /\ expected_seqnum <= expected_seqnum'
          BY <2>3, <3>1, <1>1, ExpectationGrows DEF DrainSession
    <3> QED BY <2>3, <3>2, <1>2 DEF DrainSession
  <2> QED BY <1>5, <2>1, <2>2, <2>3 DEF Drain
<1>6. CASE BuildTx
  <2>1. /\ Len(tx') = Len(tx) - 1 /\ Len(tx) \in Nat
        /\ \A i \in 1..Len(tx') : i + 1 \in 1..Len(tx) /\ tx'[i] = tx[i + 1]
        BY <1>6, <1>1 DEF BuildTx
  <2>2. expected_seqnum' = expected_seqnum
        BY <1>6 DEF BuildTx, parser
  <2> QED BY <2>1, <2>2, <1>1 DEF ResendCoversGap
<1>7. CASE \E k \in Kinds : ExchangeSends(k)
      BY <1>7, <1>1, <1>2 DEF ExchangeSends, parser
<1>8. CASE SecondPasses \/ LoginAttempt \/ LoginSent \/ TakeOrder
      BY <1>8, <1>1, <1>2 DEF SecondPasses, LoginAttempt, LoginSent, TakeOrder, parser
<1>9. CASE buildFIX /\ ~BuildTx
      BY <1>9, <1>1, <1>2 DEF buildFIX, BuildRx, BuildRxNothingNew, DecideRelogin, Relogin, CountRetry,
                              RxDone, TxDone, BuildApp, BuildDone, parser
<1>10. CASE UNCHANGED vars
       BY <1>10, <1>1, <1>2 DEF vars, parser
<1> QED BY <1>4, <1>5, <1>6, <1>7, <1>8, <1>9, <1>10 DEF Next

\* A ResendRequest that waits for the builder still covers the gap it was made
\* for: the numbers it asks for are an interval that starts no later than
\* what the parser expects.
THEOREM GapCovered == Spec => []ResendCoversGap
<1>1. Init => ResendCoversGap BY DEF Init, ResendCoversGap
<1>2. TypeOK /\ OrderInv /\ ResendCoversGap /\ [Next]_vars => ResendCoversGap' BY GapStep
<1> QED BY <1>1, <1>2, OrderAlways, PTL DEF Spec

-----------------------------------------------------------------------------
(* What is passed over *)

\* A message says the truth about what the exchange has sent: it is the message
\* of its number, or it fills a gap that holds no application message.
Genuine(m) ==
    /\ m \in Message /\ m.seqnum <= Len(log)
    /\ m.kind # "SequenceReset" => m.kind = log[m.seqnum]
    /\ m.kind = "SequenceReset" =>
          /\ m.seqnum < m.new_seqnum /\ m.new_seqnum <= Len(log) + 1
          /\ \A i \in m.seqnum..m.new_seqnum - 1 : log[i] # "App"

\* The parser was right to pass number n, or n lies behind a session message.
Passed(n) ==
    \/ n <= Len(log) /\ log[n] # "App"
    \/ n <= Len(log) /\ \E i \in 1..Len(stored) : stored[i] = n
    \/ n > 1 /\ n <= Len(log) + 1 /\ log[n - 1] # "App"

\* SkipsOnlyBehindSession is not inductive: it says nothing of messages that
\* wait, nor of the number the parser expects too early, which the exchange has
\* not used yet.
SkipInv == /\ \A m \in pending_to_store_map_ : Genuine(m)
           /\ \A n \in 1..expected_seqnum - 1 : Passed(n)

\* What arrives is genuine.
LEMMA ArrivalsGenuine ==
    ASSUME TypeOK PROVE \A m \in Arrivals : Genuine(m)
<1> SUFFICES ASSUME NEW m \in Arrivals PROVE Genuine(m)
    OBVIOUS
<1>0. log \in Seq(AllKinds) /\ m \in Message
      BY ArrivalsWellFormed DEF TypeOK, WellFormed
<1>1. CASE \E n \in 1..Len(log) : m = Original(n)
  <2>1. PICK n \in 1..Len(log) : m = Original(n)
        BY <1>1
  <2>2. m.seqnum = n /\ m.kind = log[n]
        BY <2>1 DEF Original
  <2>3. log[n] \in AllKinds
        BY <1>0
  <2>4. m.kind # "SequenceReset"
        BY <2>2, <2>3 DEF AllKinds
  <2> QED BY <1>0, <2>2, <2>4 DEF Genuine
<1>2. CASE \E n \in 1..Len(log), k \in 1..Len(log) + 1 :
              n < k /\ (\A i \in n..k - 1 : log[i] # "App") /\ m = GapFill(n, k)
  <2>1. PICK n \in 1..Len(log), k \in 1..Len(log) + 1 :
                n < k /\ (\A i \in n..k - 1 : log[i] # "App") /\ m = GapFill(n, k)
        BY <1>2
  <2>2. m.seqnum = n /\ m.kind = "SequenceReset" /\ m.new_seqnum = k
        BY <2>1 DEF GapFill
  <2> QED BY <1>0, <2>1, <2>2 DEF Genuine
<1> QED BY <1>1, <1>2 DEF Arrivals

\* What the exchange says later takes nothing back.
LEMMA SendKeepsSkip ==
    ASSUME TypeOK, SkipInv, NEW k \in AllKinds, log' = Append(log, k),
           UNCHANGED <<stored, expected_seqnum, pending_to_store_map_>>
    PROVE  SkipInv'
<1>1. /\ log \in Seq(AllKinds) /\ Len(log) \in Nat /\ Len(log') = Len(log) + 1
      /\ \A i \in 1..Len(log) : log'[i] = log[i]
      BY DEF TypeOK
<1>2. ASSUME NEW m \in pending_to_store_map_ PROVE Genuine(m)'
  <2>1. Genuine(m) /\ m \in Message /\ m.seqnum \in Nat \ {0} /\ m.new_seqnum \in Nat
        BY DEF SkipInv, Genuine, Message
  <2>2. m.seqnum \in 1..Len(log)
        BY <2>1, <1>1 DEF Genuine
  <2>3. m.kind # "SequenceReset" => m.kind = log'[m.seqnum]
        BY <2>1, <2>2, <1>1 DEF Genuine
  <2>4. ASSUME m.kind = "SequenceReset", NEW i \in m.seqnum..m.new_seqnum - 1 PROVE log'[i] # "App"
        BY <2>1, <2>4, <1>1 DEF Genuine
  <2> QED BY <2>1, <2>2, <2>3, <2>4, <1>1 DEF Genuine
<1>3. ASSUME NEW n \in 1..expected_seqnum - 1 PROVE Passed(n)'
  <2>1. Passed(n) /\ n \in Nat /\ n >= 1
        BY DEF SkipInv, TypeOK
  <2> QED BY <2>1, <1>1 DEF Passed
<1> QED BY <1>2, <1>3 DEF SkipInv

\* The numbers below e, e itself and at most the one above it.
LEMMA OneMore ==
    ASSUME NEW e \in Nat, NEW f \in Nat, f = e + 1 \/ f = e + 2, NEW n \in 1..f - 1
    PROVE  n \in Nat /\ (n \in 1..e - 1 \/ n = e \/ (n = e + 1 /\ n - 1 = e))
  OBVIOUS

\* A session message in its turn passes over what it fills, and the one message
\* behind that.
LEMMA SessionKeepsSkip ==
    ASSUME TypeOK, SkipInv, NEW m, Genuine(m), m.kind # "App", m.seqnum = expected_seqnum,
           expected_seqnum' = expected_seqnum + 1 \/ expected_seqnum' = Expectation(m) + 1,
           m.kind = "SequenceReset" => expected_seqnum' = Expectation(m) + 1,
           UNCHANGED <<log, stored>>
    PROVE  \A n \in 1..expected_seqnum' - 1 : Passed(n)'
<1>1. /\ Len(log) \in Nat /\ expected_seqnum \in Nat \ {0} /\ m.new_seqnum \in Nat
      /\ expected_seqnum <= Len(log)
      BY DEF TypeOK, Genuine, Message
<1>2. \A n \in 1..expected_seqnum - 1 : Passed(n)'
      BY DEF SkipInv, Passed
<1>3. CASE m.kind = "SequenceReset"
  <2>1. /\ expected_seqnum < m.new_seqnum /\ m.new_seqnum <= Len(log) + 1
        /\ \A i \in expected_seqnum..m.new_seqnum - 1 : log[i] # "App"
        BY <1>3 DEF Genuine
  <2>2. expected_seqnum' = m.new_seqnum + 1
        BY <1>3 DEF Expectation
  <2>3. ASSUME NEW n \in expected_seqnum..m.new_seqnum - 1 PROVE Passed(n)'
        BY <2>1, <1>1 DEF Passed
  <2>4. Passed(m.new_seqnum)'
        BY <2>1, <1>1 DEF Passed
  <2>5. ASSUME NEW n \in 1..expected_seqnum' - 1
        PROVE  n \in 1..expected_seqnum - 1 \/ n \in expected_seqnum..m.new_seqnum - 1 \/ n = m.new_seqnum
        BY <2>1, <2>2, <1>1
  <2> QED BY <1>2, <2>3, <2>4, <2>5
<1>4. CASE m.kind # "SequenceReset"
  <2>1. log[expected_seqnum] # "App"
        BY <1>4 DEF Genuine
  <2>2. ASSUME NEW n \in Nat, n = expected_seqnum PROVE Passed(n)'
        BY <2>1, <2>2, <1>1 DEF Passed
  <2>3. /\ expected_seqnum' \in Nat
        /\ expected_seqnum' = expected_seqnum + 1 \/ expected_seqnum' = expected_seqnum + 2
        BY <1>4, <1>1 DEF Expectation, ResetsNumbers
  <2>4. ASSUME NEW n \in Nat, n = expected_seqnum + 1, n - 1 = expected_seqnum PROVE Passed(n)'
        BY <2>4, <2>1, <1>1 DEF Passed
  <2>5. ASSUME NEW n \in 1..expected_seqnum' - 1
        PROVE  n \in Nat /\ (\/ n \in 1..expected_seqnum - 1 \/ n = expected_seqnum
                             \/ n = expected_seqnum + 1 /\ n - 1 = expected_seqnum)
        BY <1>1, <2>3, OneMore
  <2> QED BY <1>2, <2>2, <2>4, <2>5
<1> QED BY <1>3, <1>4

\* Storing the expected message passes over nothing.
LEMMA StoreKeepsSkip ==
    ASSUME TypeOK, SkipInv, NEW m, Genuine(m), m.seqnum = expected_seqnum,
           stored' = Append(stored, m.seqnum), expected_seqnum' = expected_seqnum + 1, log' = log
    PROVE  \A n \in 1..expected_seqnum' - 1 : Passed(n)'
<1>1. /\ Len(log) \in Nat /\ expected_seqnum \in Nat \ {0} /\ expected_seqnum <= Len(log)
      /\ stored \in Seq(Nat)
      BY DEF TypeOK, Genuine
<1>2. /\ Len(stored) \in Nat /\ Len(stored') = Len(stored) + 1
      /\ \A i \in 1..Len(stored) : stored'[i] = stored[i]
      /\ stored'[Len(stored) + 1] = expected_seqnum
      BY <1>1
<1>3. ASSUME NEW n \in 1..expected_seqnum - 1 PROVE Passed(n)'
  <2>1. Passed(n)
        BY DEF SkipInv
  <2> QED BY <2>1, <1>2 DEF Passed
<1>4. ASSUME NEW n \in Nat, n = expected_seqnum PROVE Passed(n)'
  <2>1. Len(stored) + 1 \in 1..Len(stored') /\ stored'[Len(stored) + 1] = expected_seqnum
        BY <1>2
  <2> QED BY <2>1, <1>1, <1>4 DEF Passed
<1> QED BY <1>1, <1>3, <1>4

\* One step.
LEMMA SkipStep == TypeOK /\ SkipInv /\ [Next]_vars => SkipInv'
<1> SUFFICES ASSUME TypeOK, SkipInv, [Next]_vars PROVE SkipInv'
    OBVIOUS
<1>1. ASSUME UNCHANGED <<log, stored, expected_seqnum>>,
             \A m \in pending_to_store_map_' : Genuine(m)
      PROVE  SkipInv'
      BY <1>1 DEF SkipInv, Genuine, Passed
<1>2. ASSUME log' = log, pending_to_store_map_' \subseteq pending_to_store_map_
      PROVE  \A m \in pending_to_store_map_' : Genuine(m)'
      BY <1>2 DEF SkipInv, Genuine
<1>3. ASSUME UNCHANGED <<log, stored, expected_seqnum, pending_to_store_map_>> PROVE SkipInv'
      BY <1>3, <1>1 DEF SkipInv
<1>4. ASSUME NEW k \in Kinds, ExchangeSends(k) PROVE SkipInv'
      BY <1>4, SendKeepsSkip, KindsAssumption DEF ExchangeSends, parser
<1>5. CASE Receive
  <2>1. PICK m \in Arrivals : \/ AppExpected(m) \/ AppAhead(m)
                              \/ SesExpected(m) \/ SesAhead(m) \/ LogonAhead(m) \/ Behind(m)
        BY <1>5 DEF Receive
  <2>2. Genuine(m)
        BY ArrivalsGenuine
  <2>3. CASE AppExpected(m)
        BY <2>2, <2>3, <1>2, StoreKeepsSkip DEF AppExpected, exchange, SkipInv
  <2>4. CASE SesExpected(m)
        BY <2>2, <2>4, <1>2, SessionKeepsSkip DEF SesExpected, exchange, SkipInv
  <2>5. CASE AppAhead(m) \/ SesAhead(m) \/ LogonAhead(m)
    <3>1. \A p \in pending_to_store_map_' : Genuine(p)
          BY <2>2, <2>5 DEF AppAhead, SesAhead, LogonAhead, push_pending, SkipInv
    <3> QED BY <2>5, <3>1, <1>1 DEF AppAhead, SesAhead, LogonAhead, exchange
  <2>6. CASE Behind(m)
        BY <2>6, <1>3 DEF Behind, vars, exchange, parser
  <2> QED BY <2>1, <2>3, <2>4, <2>5, <2>6
<1>6. CASE Drain
  <2>1. CASE DrainDone
        BY <2>1, <1>3 DEF DrainDone, exchange
  <2>2. ASSUME NEW m \in pending_to_store_map_, DrainApp(m) PROVE SkipInv'
        BY <2>2, <1>2, StoreKeepsSkip DEF DrainApp, Next1, Pop, exchange, SkipInv
  <2>3. ASSUME NEW m \in pending_to_store_map_, DrainLogon(m) PROVE SkipInv'
        BY <2>3, <1>2, SessionKeepsSkip DEF DrainLogon, IsLogon, Next1, Pop, exchange, SkipInv
  <2>4. ASSUME NEW m \in pending_to_store_map_, DrainSession(m) PROVE SkipInv'
        BY <2>4, <1>2, SessionKeepsSkip DEF DrainSession, Next1, Pop, exchange, SkipInv
  <2> QED BY <1>6, <2>1, <2>2, <2>3, <2>4 DEF Drain
<1>7. CASE SecondPasses \/ LoginAttempt \/ LoginSent \/ TakeOrder
      BY <1>7, <1>3 DEF SecondPasses, LoginAttempt, LoginSent, TakeOrder, exchange, parser
<1>8. CASE buildFIX
      BY <1>8, <1>3 DEF buildFIX, BuildRx, BuildRxNothingNew, DecideRelogin, Relogin, CountRetry,
                        RxDone, BuildTx, TxDone, BuildApp, BuildDone, exchange, parser
<1>9. CASE UNCHANGED vars
      BY <1>9, <1>3 DEF vars, exchange, parser
<1> QED BY <1>4, <1>5, <1>6, <1>7, <1>8, <1>9 DEF Next

\* Whatever is lost, repeated, reordered, waiting or replaced by gap fills,
\* the parser passes over no application message but one right behind a
\* session message: the extra increment of parseFIX skips no more than that.
THEOREM SkipsBounded == Spec => []SkipsOnlyBehindSession
<1>1. Init => SkipInv
      BY DEF Init, SkipInv
<1>2. TypeOK /\ SkipInv /\ [Next]_vars => SkipInv' BY SkipStep
<1>3. TypeOK /\ SkipInv => SkipsOnlyBehindSession
  <2> SUFFICES ASSUME TypeOK, SkipInv, NEW n \in 1..Len(log), log[n] = "App", n < expected_seqnum
               PROVE  \/ \E i \in 1..Len(stored) : stored[i] = n
                      \/ n > 1 /\ log[n - 1] # "App"
      BY DEF SkipsOnlyBehindSession
  <2>1. n \in 1..expected_seqnum - 1
        BY DEF TypeOK
  <2> QED BY <2>1 DEF SkipInv, Passed
<1> QED BY <1>1, <1>2, <1>3, TypeCorrect, PTL DEF Spec

-----------------------------------------------------------------------------
(* The number of Logons *)

\* The network thread's attempt is over before the exchange says anything, and
\* only what it says makes the builder log in again.  From LoginDecider's test
\* to the increment of the counter nobody else increases it: it is the value
\* seen, or less if the parser has reset it.
LoginInv ==
    /\ LoginBudget
    /\ ~is_connected => log = <<>> /\ "network" \notin inc
    /\ "network" \in inc => log = <<>> /\ login_retry_count < ALLOWED_LOGIN_ATTEMPT
    /\ log = <<>> => rx = <<>> /\ pending_to_store_map_ = {} /\ bpc \notin {"relogin", "retry"}
    /\ bpc \in {"relogin", "retry"} => seen < ALLOWED_LOGIN_ATTEMPT /\ login_retry_count <= seen

\* A message the parser acts on can only lower the counter.
LEMMA HandleKeepsLogin ==
    ASSUME TypeOK, LoginInv, log # <<>>, NEW m, handle_sesMsg(m), UNCHANGED <<log, bpc, seen, inc>>
    PROVE  LoginInv'
<1>1. is_connected' = is_connected /\ login_retry_count' \in {0, login_retry_count}
      BY DEF handle_sesMsg
<1>2. login_retry_count' <= login_retry_count /\ login_retry_count' \in Nat
      BY <1>1 DEF TypeOK
<1>3. login_retry_count \in Nat /\ seen \in Nat /\ ALLOWED_LOGIN_ATTEMPT \in Nat
      BY BoundsAssumption DEF TypeOK
<1> QED BY <1>1, <1>2, <1>3 DEF LoginInv, LoginBudget

\* One step of any of the three threads.
LEMMA LoginStep == TypeOK /\ LoginInv /\ [Next]_vars => LoginInv'
<1> SUFFICES ASSUME TypeOK, LoginInv, [Next]_vars PROVE LoginInv'
    OBVIOUS
<1>1. /\ login_retry_count \in Nat /\ seen \in Nat /\ ALLOWED_LOGIN_ATTEMPT \in Nat
      /\ log \in Seq(AllKinds) /\ rx \in Seq(AllKinds)
      BY BoundsAssumption DEF TypeOK
<1>2. ASSUME UNCHANGED <<log, rx, pending_to_store_map_, is_connected, login_retry_count, bpc, seen, inc>>
      PROVE  LoginInv'
      BY <1>2 DEF LoginInv, LoginBudget
<1>3. ASSUME log # <<>>, UNCHANGED <<log, is_connected, login_retry_count, bpc, seen, inc>>
      PROVE  LoginInv'
      BY <1>3 DEF LoginInv, LoginBudget
<1>4. ASSUME NEW k \in Kinds, ExchangeSends(k) PROVE LoginInv'
  <2>1. log' # <<>>
        BY <1>4, <1>1, KindsAssumption DEF ExchangeSends
  <2> QED BY <1>4, <2>1 DEF ExchangeSends, parser, session, builder, LoginInv, LoginBudget
<1>5. CASE SecondPasses
      BY <1>5, <1>2 DEF SecondPasses, exchange, session, builder
<1>6. CASE LoginAttempt
      BY <1>6, <1>1 DEF LoginAttempt, Build, exchange, parser, LoginInv, LoginBudget
<1>7. CASE LoginSent
  <2>1. /\ log = <<>> /\ login_retry_count < ALLOWED_LOGIN_ATTEMPT
        /\ is_connected /\ bpc \notin {"relogin", "retry"}
        BY <1>7 DEF LoginSent, increase_next_seq, LoginInv
  <2> QED BY <1>7, <2>1, <1>1
          DEF LoginSent, increase_next_seq, exchange, parser, LoginInv, LoginBudget
<1>8. CASE Receive
  <2>1. PICK m \in Arrivals : \/ AppExpected(m) \/ AppAhead(m)
                              \/ SesExpected(m) \/ SesAhead(m) \/ LogonAhead(m) \/ Behind(m)
        BY <1>8 DEF Receive
  <2>2. log # <<>>
        BY NothingArrivesFirst
  <2>3. CASE SesExpected(m)
        BY <2>2, <2>3, HandleKeepsLogin DEF SesExpected, exchange, builder
  <2>4. CASE AppExpected(m) \/ AppAhead(m) \/ SesAhead(m) \/ LogonAhead(m)
        BY <2>2, <2>4, <1>3 DEF AppExpected, AppAhead, SesAhead, LogonAhead, exchange, session, builder
  <2>5. CASE Behind(m)
        BY <2>5, <1>2 DEF Behind, vars, exchange, parser, session, builder
  <2> QED BY <2>1, <2>3, <2>4, <2>5
<1>9. CASE Drain
  <2>1. CASE DrainDone
        BY <2>1, <1>2 DEF DrainDone, exchange, session, builder
  <2>2. ASSUME NEW m \in pending_to_store_map_,
               DrainApp(m) \/ DrainLogon(m) \/ DrainSession(m)
        PROVE  LoginInv'
    <3>1. log # <<>>
          BY DEF LoginInv
    <3>2. CASE DrainApp(m) \/ DrainLogon(m)
          BY <3>1, <3>2, <1>3 DEF DrainApp, DrainLogon, exchange, session, builder
    <3>3. CASE DrainSession(m)
          BY <3>1, <3>3, HandleKeepsLogin DEF DrainSession, exchange, builder
    <3> QED BY <2>2, <3>2, <3>3
  <2> QED BY <1>9, <2>1, <2>2 DEF Drain
<1>10. CASE TakeOrder
       BY <1>10 DEF TakeOrder, exchange, parser, session, LoginInv, LoginBudget
<1>11. CASE buildFIX
  <2>1. CASE BuildRx
        BY <2>1 DEF BuildRx, Build, exchange, parser, session, LoginInv, LoginBudget
  <2>2. CASE BuildRxNothingNew
    <3>1. log # <<>>
          BY <2>2 DEF BuildRxNothingNew, LoginInv
    <3> QED BY <2>2, <3>1, <1>3 DEF BuildRxNothingNew, exchange, session, builder
  <2>3. CASE DecideRelogin
    <3>1. log # <<>> /\ login_retry_count < ALLOWED_LOGIN_ATTEMPT
          BY <2>3 DEF DecideRelogin, TryAgain, LoginInv
    <3> QED BY <2>3, <3>1, <1>1 DEF DecideRelogin, exchange, parser, session, LoginInv, LoginBudget
  <2>4. CASE Relogin
        BY <2>4 DEF Relogin, BuilderAt, Build, exchange, parser, session, LoginInv, LoginBudget
  <2>5. CASE CountRetry
    <3>1. log # <<>> /\ seen < ALLOWED_LOGIN_ATTEMPT /\ login_retry_count <= seen
          BY <2>5 DEF CountRetry, BuilderAt, LoginInv
    <3>2. login_retry_count' <= ALLOWED_LOGIN_ATTEMPT
          BY <2>5, <3>1, <1>1 DEF CountRetry
    <3> QED BY <2>5, <3>1, <3>2 DEF CountRetry, exchange, parser, LoginInv, LoginBudget
  <2>6. CASE RxDone
        BY <2>6 DEF RxDone, exchange, parser, session, LoginInv, LoginBudget
  <2>7. CASE BuildTx
        BY <2>7 DEF BuildTx, Build, exchange, parser, session, LoginInv, LoginBudget
  <2>8. CASE TxDone
        BY <2>8 DEF TxDone, exchange, parser, session, LoginInv, LoginBudget
  <2>9. CASE BuildApp
        BY <2>9 DEF BuildApp, Build, exchange, parser, session, LoginInv, LoginBudget
  <2>10. CASE BuildDone
         BY <2>10 DEF BuildDone, increase_next_seq, exchange, parser, session, LoginInv, LoginBudget
  <2> QED BY <1>11, <2>1, <2>2, <2>3, <2>4, <2>5, <2>6, <2>7, <2>8, <2>9, <2>10 DEF buildFIX
<1>12. CASE UNCHANGED vars
       BY <1>12, <1>2 DEF vars, exchange, parser, session, builder
<1> QED BY <1>4, <1>5, <1>6, <1>7, <1>8, <1>9, <1>10, <1>11, <1>12 DEF Next

\* However the network thread's Logon, the builder's answers to Logouts and the
\* parser's reset of the counter interleave, the counted attempts stay within
\* the limit, although the increment may lose the reset.
THEOREM LoginsBounded == Spec => []LoginBudget
<1>1. Init => LoginInv
      BY BoundsAssumption DEF Init, LoginInv, LoginBudget
<1>2. TypeOK /\ LoginInv /\ [Next]_vars => LoginInv' BY LoginStep
<1>3. LoginInv => LoginBudget BY DEF LoginInv
<1> QED BY <1>1, <1>2, <1>3, TypeCorrect, PTL DEF Spec

=============================================================================
