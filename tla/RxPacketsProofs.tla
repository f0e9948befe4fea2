--------------------------- MODULE RxPacketsProofs ---------------------------
(***************************************************************************)
(* Proofs about RxPackets, for every pool of packets, every capacity of    *)
(* the parser's queue and any number of chunks.                            *)
(***************************************************************************)
EXTENDS RxPackets, Lemmas, SequenceTheorems, FiniteSetTheorems, TLAPS

Slots == 0..N - 1
Hand(t) == th[t].pkt
Holding == {"clear", "recv", "push", "parse", "release", "store"}

\* Which steps a thread can be at, and that it has a packet exactly then.
\* Packets wait in pend_read only while the network thread is idle, and never
\* more than one.
ControlInv ==
    /\ th["parser"].pc \in {"idle", "parse", "release", "store", "inc"}
    /\ th["network"].pc \in {"idle", "clear", "recv", "push", "release", "store", "inc"}
    /\ \A t \in Threads : Hand(t) # nullptr <=> th[t].pc \in Holding
    /\ Len(pend_read) <= 1
    /\ th["network"].pc # "idle" => pend_read = <<>>

\* Nothing is in two places: not in two slots, not in two places of the queue,
\* not in two of slots, queue, pend_read and hands; but for the packet that
\* pop has loaded and not yet cleared, which may still be in its slot.
OwnerInv ==
    /\ \A i, j \in Slots : buffer_[i] = buffer_[j] /\ buffer_[i] # nullptr => i = j
    /\ \A i, j \in 1..Len(receiver_to_parser_) : receiver_to_parser_[i] = receiver_to_parser_[j] => i = j
    /\ \A i \in 1..Len(receiver_to_parser_), k \in Slots : receiver_to_parser_[i] # buffer_[k]
    /\ \A i \in 1..Len(receiver_to_parser_), k \in 1..Len(pend_read) : receiver_to_parser_[i] # pend_read[k]
    /\ \A i \in 1..Len(receiver_to_parser_), t \in Threads : receiver_to_parser_[i] # Hand(t)
    /\ \A k \in 1..Len(pend_read), i \in Slots : pend_read[k] # buffer_[i]
    /\ \A k \in 1..Len(pend_read), t \in Threads : pend_read[k] # Hand(t)
    /\ Hand("network") = Hand("parser") => Hand("network") = nullptr
    /\ \A t \in Threads, i \in Slots : Hand(t) # nullptr /\ buffer_[i] = Hand(t) =>
          t = "network" /\ th[t].pc = "clear" /\ i = read_idx_

Parsing == IF th["parser"].pc = "parse" THEN {Hand("parser")} ELSE {}
Elems(s) == {s[i] : i \in 1..Len(s)}
Queued == Elems(receiver_to_parser_)
Late == {pend_read[k] : k \in 1..Len(pend_read)} \cup
        (IF th["network"].pc = "push" THEN {Hand("network")} ELSE {})

\* The chunks in the pipeline, from the parser back to the network thread, are
\* later and later, and later than what is parsed.
OrderInv ==
    /\ \A i \in 1..Len(parsed) : parsed[i] <= received
    /\ \A i, j \in 1..Len(parsed) : i < j => parsed[i] < parsed[j]
    /\ \A p \in Parsing \cup Queued \cup Late : data[p] >= 1 /\ data[p] <= received
    /\ \A i \in 1..Len(parsed), p \in Parsing \cup Queued \cup Late : parsed[i] < data[p]
    /\ \A p \in Parsing, q \in Queued \cup Late : data[p] < data[q]
    /\ \A i, j \in 1..Len(receiver_to_parser_) : i < j => data[receiver_to_parser_[i]] < data[receiver_to_parser_[j]]
    /\ \A p \in Queued, q \in Late : data[p] < data[q]

\* The inductive invariant.
IInv == TypeOK /\ ControlInv /\ OwnerInv /\ OrderInv

-----------------------------------------------------------------------------
(* Type correctness and control *)

LEMMA Constants == N \in Nat /\ N > 0 /\ QueueCap \in Nat /\ MaxRecv \in Nat /\ nullptr \notin Packet
  BY PoolAssumption

LEMMA SuccType == \A i \in Slots : Succ(i) \in Slots
<1> SUFFICES ASSUME NEW i \in Slots PROVE Succ(i) \in Slots
    OBVIOUS
<1>1. N \in Int /\ N > 0 /\ i + 1 \in Int BY Constants DEF Slots
<1>2. (i + 1) % N \in 0..N - 1 BY <1>1, SMT
<1> QED BY <1>2 DEF Succ, Slots

PCs == {"idle", "clear", "recv", "push", "parse", "release", "store", "inc"}
Local == [pc : PCs, pkt : Packet \cup {nullptr}, idx : 0..N - 1]

LEMMA InitInv == Init => IInv
<1> SUFFICES ASSUME Init PROVE IInv
    OBVIOUS
<1> USE Constants DEF Init, Idle, Threads, Slots
<1>1. buffer_ \in [0..N - 1 -> Packet] /\ \A i, j \in 0..N - 1 : buffer_[i] = buffer_[j] => i = j
      BY DEF Bijection, Injection, IsInjective
<1>2. TypeOK BY <1>1 DEF TypeOK
<1>3. ControlInv BY DEF ControlInv, Hand, Holding, At
<1>4. OwnerInv BY <1>1 DEF OwnerInv, Hand
<1>5. OrderInv BY DEF OrderInv, Parsing, Queued, Elems, Late
<1> QED BY <1>2, <1>3, <1>4, <1>5 DEF IInv

LEMMA TypeNext == IInv /\ [Next]_vars => TypeOK'
<1> SUFFICES ASSUME IInv, [Next]_vars PROVE TypeOK'
    OBVIOUS
<1> USE Constants DEF IInv
<1>t. /\ th \in [Threads -> Local]
      /\ \A t \in Threads : th[t] \in Local
      /\ Idle \in Local
      BY DEF TypeOK, Local, PCs, Idle
<1>q. TypeOK' <=> /\ buffer_' \in [0..N - 1 -> Packet \cup {nullptr}]
                  /\ write_idx_' \in 0..N - 1 /\ read_idx_' \in 0..N - 1
                  /\ receiver_to_parser_' \in Seq(Packet) /\ Len(receiver_to_parser_') <= QueueCap
                  /\ pend_read' \in Seq(Packet)
                  /\ data' \in [Packet -> 0..MaxRecv] /\ received' \in 0..MaxRecv
                  /\ parsed' \in Seq(1..MaxRecv) /\ th' \in [Threads -> Local]
      BY DEF TypeOK, Local, PCs
<1>1. ASSUME NEW t \in Threads, ReleaseLoad(t) PROVE TypeOK'
  <2>1. CASE buffer_[write_idx_] = nullptr
    <3>1. [th[t] EXCEPT !.pc = "store", !.idx = write_idx_] \in Local
          BY <1>t DEF TypeOK, Local, PCs
    <3>2. th' \in [Threads -> Local] BY <1>1, <1>t, <2>1, <3>1 DEF ReleaseLoad
    <3> QED BY <1>1, <1>q, <3>2 DEF ReleaseLoad, freelist, TypeOK
  <2>2. CASE buffer_[write_idx_] # nullptr
    <3>2. th' \in [Threads -> Local] BY <1>1, <1>t, <2>2 DEF ReleaseLoad
    <3> QED BY <1>1, <1>q, <3>2 DEF ReleaseLoad, freelist, TypeOK
  <2> QED BY <2>1, <2>2
<1>2. ASSUME NEW t \in Threads, ReleaseStore(t) PROVE TypeOK'
      BY <1>2 DEF ReleaseStore, TypeOK
<1>3. ASSUME NEW t \in Threads, ReleaseInc(t) PROVE TypeOK'
  <2>1. write_idx_' \in 0..N - 1 BY <1>3, SuccType DEF ReleaseInc, TypeOK, Slots
  <2> QED BY <1>3, <2>1 DEF ReleaseInc, Idle, TypeOK
<1>4. CASE FlushPending
  <2>1. /\ Head(pend_read) \in Packet /\ Tail(pend_read) \in Seq(Packet)
        /\ receiver_to_parser_ \in Seq(Packet) /\ Len(receiver_to_parser_) \in Nat
        BY <1>4, HeadTailProperties DEF FlushPending, TypeOK
  <2>4. /\ Append(receiver_to_parser_, Head(pend_read)) \in Seq(Packet)
        /\ Len(Append(receiver_to_parser_, Head(pend_read))) = Len(receiver_to_parser_) + 1
        /\ Append(Tail(pend_read), Head(pend_read)) \in Seq(Packet)
        BY <2>1, AppendProperties
  <2>5. Len(receiver_to_parser_) <= QueueCap /\ Len(receiver_to_parser_) \in Int /\ QueueCap \in Int
        BY <2>1 DEF TypeOK
  <2>2. receiver_to_parser_' \in Seq(Packet) /\ Len(receiver_to_parser_') <= QueueCap
    <3>1. CASE Len(receiver_to_parser_) < QueueCap
      <4>1. receiver_to_parser_' = Append(receiver_to_parser_, Head(pend_read))
            BY <1>4, <3>1 DEF FlushPending
      <4> QED BY <2>4, <2>5, <3>1, <4>1
    <3>2. CASE ~(Len(receiver_to_parser_) < QueueCap) BY <1>4, <2>1, <2>5, <3>2 DEF FlushPending
    <3> QED BY <3>1, <3>2
  <2>3. pend_read' \in Seq(Packet)
        BY <1>4, <2>1, <2>4 DEF FlushPending
  <2> QED BY <1>4, <1>q, <1>t, <2>2, <2>3 DEF FlushPending, freelist, TypeOK
<1>5. CASE TakeFree
  <2>0. 0 \in 0..N - 1 OBVIOUS
  <2>3. buffer_[read_idx_] \in Packet \cup {nullptr}
        BY DEF TypeOK
  <2>1. [pc |-> "clear", pkt |-> buffer_[read_idx_], idx |-> 0] \in Local
        BY <2>0, <2>3 DEF Local, PCs
  <2>2. th' \in [Threads -> Local] BY <1>5, <2>1, <1>t DEF TakeFree
  <2> QED BY <1>5, <1>q, <2>2 DEF TakeFree, freelist, TypeOK
<1>6. CASE ClearFree
  <2>1. read_idx_' \in 0..N - 1 BY <1>6, SuccType DEF ClearFree, TypeOK, Slots
  <2> QED BY <1>6, <2>1 DEF ClearFree, Threads, TypeOK
<1>7. CASE RecvAgain
      BY <1>7 DEF RecvAgain, freelist, Threads, TypeOK
<1>8. CASE RecvFails
      BY <1>8 DEF RecvFails, freelist, Threads, Idle, TypeOK
<1>9. CASE RecvData
  <2>1. received' \in 0..MaxRecv /\ received + 1 \in 0..MaxRecv BY <1>9 DEF RecvData, TypeOK
  <2>2. data' \in [Packet -> 0..MaxRecv] BY <1>9, <2>1 DEF RecvData, TypeOK
  <2> QED BY <1>9, <2>1, <2>2 DEF RecvData, freelist, Threads, TypeOK
<1>10. CASE KeptBack
      BY <1>10 DEF KeptBack, freelist, Threads, Idle, TypeOK
<1>11. CASE HandOver
  <2>1. Hand("network") \in Packet BY <1>11 DEF HandOver, ControlInv, Holding, At, Threads, Hand, TypeOK
  <2>5. receiver_to_parser_ \in Seq(Packet) /\ pend_read \in Seq(Packet)
        BY DEF TypeOK
  <2>6. /\ Append(receiver_to_parser_, th["network"].pkt) \in Seq(Packet)
        /\ Len(Append(receiver_to_parser_, th["network"].pkt)) = Len(receiver_to_parser_) + 1
        /\ Append(pend_read, th["network"].pkt) \in Seq(Packet)
        BY <2>1, <2>5, AppendProperties DEF Hand
  <2>7. Len(receiver_to_parser_) <= QueueCap /\ Len(receiver_to_parser_) \in Int /\ QueueCap \in Int
        BY <2>5, LenProperties DEF TypeOK
  <2>2. receiver_to_parser_' \in Seq(Packet) /\ Len(receiver_to_parser_') <= QueueCap
    <3>1. CASE Len(receiver_to_parser_) < QueueCap BY <1>11, <2>6, <2>7, <3>1 DEF HandOver
    <3>2. CASE ~(Len(receiver_to_parser_) < QueueCap) BY <1>11, <2>5, <2>7, <3>2 DEF HandOver
    <3> QED BY <3>1, <3>2
  <2>3. pend_read' \in Seq(Packet)
        BY <1>11, <2>5, <2>6 DEF HandOver
  <2>4. th' \in [Threads -> Local] BY <1>11, <1>t DEF HandOver
  <2> QED BY <1>11, <1>q, <2>2, <2>3, <2>4 DEF HandOver, freelist, TypeOK
<1>12. CASE Dispatch
  <2>1. /\ Head(receiver_to_parser_) \in Packet /\ Tail(receiver_to_parser_) \in Seq(Packet)
        /\ Len(Tail(receiver_to_parser_)) = Len(receiver_to_parser_) - 1 /\ Len(receiver_to_parser_) \in Nat
        BY <1>12, HeadTailProperties, LenProperties DEF Dispatch, TypeOK
  <2>2. [pc |-> "parse", pkt |-> Head(receiver_to_parser_), idx |-> 0] \in Local
        BY <2>1 DEF Local, PCs
  <2>3. th' \in [Threads -> Local] BY <1>12, <2>2, <1>t DEF Dispatch
  <2>4. receiver_to_parser_' \in Seq(Packet) /\ Len(receiver_to_parser_') <= QueueCap
        BY <1>12, <2>1 DEF Dispatch, TypeOK
  <2> QED BY <1>12, <1>q, <2>3, <2>4 DEF Dispatch, freelist, TypeOK
<1>13. CASE Parse
  <2>1. Hand("parser") \in Parsing /\ Hand("parser") \in Packet
        BY <1>13 DEF Parse, Parsing, At, ControlInv, Holding, Threads, Hand, TypeOK
  <2>2. data[Hand("parser")] \in 1..MaxRecv BY <2>1 DEF OrderInv, TypeOK
  <2>3. parsed' \in Seq(1..MaxRecv) BY <1>13, <2>2 DEF Parse, Hand, TypeOK
  <2> QED BY <1>13, <2>3 DEF Parse, freelist, Threads, TypeOK
<1>14. CASE UNCHANGED vars
      BY <1>14 DEF vars, freelist, TypeOK
<1> QED BY <1>1, <1>2, <1>3, <1>4, <1>5, <1>6, <1>7, <1>8, <1>9, <1>10, <1>11, <1>12, <1>13, <1>14
        DEF Next, Network, Parser, Release

LEMMA ControlNext == IInv /\ [Next]_vars => ControlInv'
<1> SUFFICES ASSUME IInv, [Next]_vars PROVE ControlInv'
    OBVIOUS
<1> USE Constants DEF IInv, ControlInv, TypeOK, Hand, Holding, At, Threads, Idle
<1>1. ASSUME NEW t \in Threads, ReleaseLoad(t) PROVE ControlInv'
      BY <1>1 DEF ReleaseLoad
<1>2. ASSUME NEW t \in Threads, ReleaseStore(t) PROVE ControlInv'
      BY <1>2 DEF ReleaseStore
<1>3. ASSUME NEW t \in Threads, ReleaseInc(t) PROVE ControlInv'
      BY <1>3 DEF ReleaseInc
<1>4. CASE FlushPending
  <2>1. Len(pend_read') <= 1 BY <1>4 DEF FlushPending
  <2> QED BY <1>4, <2>1 DEF FlushPending
<1>5. CASE TakeFree
      BY <1>5 DEF TakeFree
<1>6. CASE ClearFree
      BY <1>6 DEF ClearFree
<1>7. CASE RecvAgain
      BY <1>7 DEF RecvAgain
<1>8. CASE RecvFails
      BY <1>8 DEF RecvFails
<1>9. CASE RecvData
      BY <1>9 DEF RecvData
<1>10. CASE KeptBack
      BY <1>10 DEF KeptBack
<1>11. CASE HandOver
  <2>1. pend_read = <<>> BY <1>11 DEF HandOver
  <2>2. pend_read' = <<>> \/ pend_read' = <<th["network"].pkt>> BY <1>11, <2>1 DEF HandOver
  <2>3. Len(pend_read') <= 1
    <3>1. CASE pend_read' = <<>> BY <3>1
    <3>2. CASE pend_read' = <<th["network"].pkt>> BY <3>2
    <3> QED BY <2>2, <3>1, <3>2
  <2> QED BY <1>11, <2>3 DEF HandOver
<1>12. CASE Dispatch
  <2>1. Head(receiver_to_parser_) \in Packet BY <1>12 DEF Dispatch
  <2> QED BY <1>12, <2>1 DEF Dispatch
<1>13. CASE Parse
      BY <1>13 DEF Parse
<1>14. CASE UNCHANGED vars
      BY <1>14 DEF vars
<1> QED BY <1>1, <1>2, <1>3, <1>4, <1>5, <1>6, <1>7, <1>8, <1>9, <1>10, <1>11, <1>12, <1>13, <1>14
        DEF Next, Network, Parser, Release

-----------------------------------------------------------------------------
(* Sequences *)

\* The only element of a sequence of length 1.
LEMMA OneElement ==
  ASSUME NEW S, NEW s \in Seq(S), s # <<>>, Len(s) <= 1
  PROVE  Len(s) = 1 /\ Head(s) = s[1] /\ s[1] \in S /\ Tail(s) = <<>>
<1>1. Len(s) \in Nat /\ Len(s) # 0 BY EmptySeq
<1>2. Len(s) = 1 BY <1>1
<1>3. /\ Head(s) \in S /\ Tail(s) \in Seq(S) /\ Len(Tail(s)) = Len(s) - 1 /\ Head(s) = s[1]
      BY HeadTailProperties
<1>4. Len(Tail(s)) = 0 BY <1>2, <1>3
<1>5. Tail(s) = <<>> BY <1>3, <1>4, EmptySeq
<1> QED BY <1>2, <1>3, <1>5

\* Appending, element by element.
LEMMA AppendElements ==
  ASSUME NEW S, NEW s \in Seq(S), NEW e \in S
  PROVE  \A i \in 1..Len(Append(s, e)) : \/ i \in 1..Len(s) /\ Append(s, e)[i] = s[i]
                                         \/ i = Len(s) + 1 /\ Append(s, e)[i] = e
<1>1. /\ Len(s) \in Nat /\ Len(Append(s, e)) = Len(s) + 1 /\ Append(s, e)[Len(s) + 1] = e
      /\ \A i \in 1..Len(s) : Append(s, e)[i] = s[i]
      BY AppendProperties, LenProperties
<1> SUFFICES ASSUME NEW i \in 1..Len(s) + 1
             PROVE  \/ i \in 1..Len(s) /\ Append(s, e)[i] = s[i]
                    \/ i = Len(s) + 1 /\ Append(s, e)[i] = e
    BY <1>1
<1>2. i \in 1..Len(s) \/ i = Len(s) + 1 BY <1>1
<1> QED BY <1>1, <1>2

LEMMA AppendSet ==
  ASSUME NEW S, NEW s \in Seq(S), NEW e \in S
  PROVE  Elems(Append(s, e)) = Elems(s) \cup {e}
<1> DEFINE t == Append(s, e)
<1>1. \A i \in 1..Len(t) : \/ i \in 1..Len(s) /\ t[i] = s[i]
                           \/ i = Len(s) + 1 /\ t[i] = e
      BY AppendElements
<1>2. /\ Len(s) \in Nat /\ Len(t) = Len(s) + 1 /\ t[Len(s) + 1] = e
      /\ \A i \in 1..Len(s) : t[i] = s[i]
      BY AppendProperties, LenProperties
<1> HIDE DEF t
<1>3. (\A i \in 1..Len(s) : i \in 1..Len(t)) /\ Len(s) + 1 \in 1..Len(t) BY <1>2
<1>4. {t[i] : i \in 1..Len(t)} \subseteq {s[i] : i \in 1..Len(s)} \cup {e} BY <1>1
<1>5. {s[i] : i \in 1..Len(s)} \subseteq {t[i] : i \in 1..Len(t)} BY <1>2, <1>3
<1>6. e \in {t[i] : i \in 1..Len(t)} BY <1>2, <1>3
<1> QED BY <1>4, <1>5, <1>6 DEF t, Elems

\* A sequence sorted by d stays so when something later is appended.
LEMMA AppendSorted ==
  ASSUME NEW S, NEW s \in Seq(S), NEW e \in S, NEW d \in [S -> Nat],
         \A i, j \in 1..Len(s) : i < j => d[s[i]] < d[s[j]],
         \A i \in 1..Len(s) : d[s[i]] < d[e]
  PROVE  \A i, j \in 1..Len(Append(s, e)) : i < j => d[Append(s, e)[i]] < d[Append(s, e)[j]]
<1> DEFINE t == Append(s, e)
<1>1. \A i \in 1..Len(t) : \/ i \in 1..Len(s) /\ t[i] = s[i]
                           \/ i = Len(s) + 1 /\ t[i] = e
      BY AppendElements
<1>2. Len(s) \in Nat BY LenProperties
<1> HIDE DEF t
<1>3. ASSUME NEW i \in 1..Len(t), NEW j \in 1..Len(t), i < j PROVE d[t[i]] < d[t[j]]
  <2>1. i \in 1..Len(s) /\ t[i] = s[i] BY <1>1, <1>2, <1>3
  <2>2. CASE j \in 1..Len(s) /\ t[j] = s[j] BY <1>3, <2>1, <2>2
  <2>3. CASE t[j] = e BY <2>1, <2>3
  <2> QED BY <1>1, <2>2, <2>3
<1> QED BY <1>3 DEF t

-----------------------------------------------------------------------------
(* Ownership *)

\* A step that moves no packet keeps the owners: a thread may only drop its
\* packet, or keep it.
LEMMA OwnersStay ==
  ASSUME OwnerInv, UNCHANGED <<buffer_, read_idx_, receiver_to_parser_, pend_read>>,
         \A t \in Threads : \/ Hand(t)' = nullptr
                            \/ Hand(t)' = Hand(t) /\ (th[t].pc = "clear" => th'[t].pc = "clear"),
         \A i \in 1..Len(receiver_to_parser_) : receiver_to_parser_[i] # nullptr,
         \A k \in 1..Len(pend_read) : pend_read[k] # nullptr
  PROVE  OwnerInv'
  BY DEF OwnerInv, Slots, Threads

LEMMA OwnerNext == IInv /\ [Next]_vars => OwnerInv'
<1> SUFFICES ASSUME IInv, [Next]_vars PROVE OwnerInv'
    OBVIOUS
<1> USE Constants DEF IInv
<1>a. /\ receiver_to_parser_ \in Seq(Packet) /\ pend_read \in Seq(Packet)
      /\ Len(receiver_to_parser_) \in Nat /\ Len(pend_read) \in Nat
      /\ \A i \in 1..Len(receiver_to_parser_) : receiver_to_parser_[i] \in Packet
      /\ \A k \in 1..Len(pend_read) : pend_read[k] \in Packet
      BY LenProperties DEF TypeOK
<1>b. /\ \A i \in 1..Len(receiver_to_parser_) : receiver_to_parser_[i] # nullptr
      /\ \A k \in 1..Len(pend_read) : pend_read[k] # nullptr
      BY <1>a
<1>1. ASSUME NEW t \in Threads, ReleaseLoad(t) PROVE OwnerInv'
  <2>1. \A u \in Threads : \/ Hand(u)' = nullptr
                           \/ Hand(u)' = Hand(u) /\ (th[u].pc = "clear" => th'[u].pc = "clear")
        BY <1>1 DEF ReleaseLoad, Idle, Hand, At, TypeOK
  <2> QED BY <1>1, <1>b, <2>1, OwnersStay DEF ReleaseLoad, freelist
<1>2. ASSUME NEW t \in Threads, ReleaseStore(t) PROVE OwnerInv'
  <2>1. /\ Hand(t)' = nullptr
        /\ \A u \in Threads : u # t => Hand(u)' = Hand(u) /\ th'[u].pc = th[u].pc
        BY <1>2 DEF ReleaseStore, Hand, TypeOK
  <2>2. /\ Hand(t) # nullptr /\ th[t].pc = "store" /\ th[t].idx \in Slots
        BY <1>2 DEF ReleaseStore, At, ControlInv, Holding, TypeOK, Slots
  <2>3. \A i \in Slots : buffer_'[i] = IF i = th[t].idx THEN Hand(t) ELSE buffer_[i]
        BY <1>2, <2>2 DEF ReleaseStore, Slots, Hand, TypeOK
  <2>4. \A u \in Threads : u # t => Hand(u) # Hand(t)
        BY <2>2 DEF OwnerInv, Threads
  <2>5. \A i \in Slots : buffer_[i] # Hand(t)
        BY <2>2 DEF OwnerInv
  <2> QED BY <1>2, <1>b, <2>1, <2>2, <2>3, <2>4, <2>5 DEF ReleaseStore, OwnerInv, Threads
<1>3. ASSUME NEW t \in Threads, ReleaseInc(t) PROVE OwnerInv'
  <2>1. \A u \in Threads : \/ Hand(u)' = nullptr
                           \/ Hand(u)' = Hand(u) /\ (th[u].pc = "clear" => th'[u].pc = "clear")
        BY <1>3 DEF ReleaseInc, Idle, Hand, At, TypeOK
  <2> QED BY <1>3, <1>b, <2>1, OwnersStay DEF ReleaseInc, freelist
<1>4. CASE FlushPending
  <2>1. /\ Hand("network")' = Hand("network") /\ Hand("parser")' = Hand("parser")
        /\ UNCHANGED <<buffer_, read_idx_, th>>
        BY <1>4 DEF FlushPending, Hand, freelist
  <2>6. pend_read # <<>> BY <1>4 DEF FlushPending
  <2>7. Len(pend_read) <= 1 BY DEF ControlInv
  <2>2. Len(pend_read) = 1 BY <1>a, <2>6, <2>7, OneElement
  <2>3. pend_read[1] = Head(pend_read) /\ Tail(pend_read) = <<>> /\ Head(pend_read) \in Packet
        BY <1>a, <2>6, <2>7, OneElement
  <2>4. CASE Len(receiver_to_parser_) < QueueCap
    <3>1. pend_read' = <<>> /\ receiver_to_parser_' = Append(receiver_to_parser_, pend_read[1])
          BY <1>4, <2>3, <2>4 DEF FlushPending
    <3>2. /\ Len(receiver_to_parser_') = Len(receiver_to_parser_) + 1 /\ Len(pend_read') = 0
          /\ \A i \in 1..Len(receiver_to_parser_) : receiver_to_parser_'[i] = receiver_to_parser_[i]
          /\ receiver_to_parser_'[Len(receiver_to_parser_) + 1] = pend_read[1]
          BY <1>a, <2>3, <3>1, AppendProperties
    <3> QED BY <1>a, <2>1, <2>2, <3>2 DEF OwnerInv, Hand, Threads
  <2>5. CASE ~(Len(receiver_to_parser_) < QueueCap)
    <3>1. pend_read' = <<pend_read[1]>> /\ receiver_to_parser_' = receiver_to_parser_
          BY <1>4, <2>3, <2>5 DEF FlushPending
    <3>2. Len(pend_read') = 1 /\ pend_read'[1] = pend_read[1]
          BY <3>1
    <3> QED BY <1>a, <2>1, <2>2, <3>1, <3>2 DEF OwnerInv, Hand, Threads
  <2> QED BY <2>4, <2>5
<1>5. CASE TakeFree
  <2>1. /\ Hand("network")' = buffer_[read_idx_] /\ th'["network"].pc = "clear"
        /\ Hand("parser")' = Hand("parser") /\ th'["parser"].pc = th["parser"].pc
        /\ buffer_[read_idx_] # nullptr /\ read_idx_ \in Slots
        /\ pend_read' = pend_read /\ UNCHANGED <<buffer_, read_idx_, receiver_to_parser_>>
        BY <1>5 DEF TakeFree, Hand, Threads, TypeOK, freelist, Slots
  <2>2. th["parser"].pc # "clear" BY DEF ControlInv
  <2> QED BY <1>b, <2>1, <2>2 DEF OwnerInv, Threads
<1>6. CASE ClearFree
  <2>1. /\ Hand("network")' = Hand("network") /\ th["network"].pc = "clear"
        /\ Hand("parser")' = Hand("parser") /\ th'["parser"].pc = th["parser"].pc
        /\ \A i \in Slots : buffer_'[i] = IF i = read_idx_ THEN nullptr ELSE buffer_[i]
        /\ pend_read' = pend_read /\ receiver_to_parser_' = receiver_to_parser_
        BY <1>6 DEF ClearFree, Hand, Threads, TypeOK, Slots, At
  <2>2. th["parser"].pc # "clear" BY DEF ControlInv
  <2> QED BY <1>b, <2>1, <2>2 DEF OwnerInv, Threads
<1>7. CASE RecvAgain \/ RecvFails \/ RecvData \/ KeptBack \/ Parse
  <2>1. \A u \in Threads : \/ Hand(u)' = nullptr
                           \/ Hand(u)' = Hand(u) /\ (th[u].pc = "clear" => th'[u].pc = "clear")
        BY <1>7 DEF RecvAgain, RecvFails, RecvData, KeptBack, Parse, Idle, Hand, At, TypeOK, Threads
  <2>2. UNCHANGED <<buffer_, read_idx_, receiver_to_parser_, pend_read>>
        BY <1>7 DEF RecvAgain, RecvFails, RecvData, KeptBack, Parse, freelist
  <2> QED BY <1>b, <2>1, <2>2, OwnersStay
<1>8. CASE HandOver
  <2>1. /\ Hand("network")' = nullptr /\ Hand("network") # nullptr /\ th["network"].pc = "push"
        /\ Hand("parser")' = Hand("parser") /\ th'["parser"].pc = th["parser"].pc
        /\ UNCHANGED <<buffer_, read_idx_>> /\ Hand("network") \in Packet
        BY <1>8 DEF HandOver, Hand, Threads, TypeOK, freelist, Idle, ControlInv, Holding, At
  <2>2. pend_read = <<>> BY <2>1 DEF ControlInv
  <2>3. CASE Len(receiver_to_parser_) < QueueCap
    <3>1. pend_read' = <<>> /\ receiver_to_parser_' = Append(receiver_to_parser_, Hand("network"))
          BY <1>8, <2>2, <2>3 DEF HandOver, Hand
    <3>2. /\ Len(receiver_to_parser_') = Len(receiver_to_parser_) + 1 /\ Len(pend_read') = 0
          /\ \A i \in 1..Len(receiver_to_parser_) : receiver_to_parser_'[i] = receiver_to_parser_[i]
          /\ receiver_to_parser_'[Len(receiver_to_parser_) + 1] = Hand("network")
          BY <1>a, <2>1, <3>1, AppendProperties
    <3>3. \A i \in 1..Len(receiver_to_parser_') :
             \/ i \in 1..Len(receiver_to_parser_) /\ receiver_to_parser_'[i] = receiver_to_parser_[i]
             \/ i = Len(receiver_to_parser_) + 1 /\ receiver_to_parser_'[i] = Hand("network")
          BY <1>a, <3>2
    <3>4. \A i \in Slots : buffer_[i] # Hand("network")
          BY <2>1 DEF OwnerInv, Threads
    <3>5. Hand("parser") # Hand("network") BY <2>1 DEF OwnerInv
    <3>6. \A i \in 1..Len(receiver_to_parser_) : receiver_to_parser_[i] # Hand("network")
          BY DEF OwnerInv, Threads
    <3> QED BY <1>b, <2>1, <3>2, <3>3, <3>4, <3>5, <3>6 DEF OwnerInv, Threads
  <2>4. CASE ~(Len(receiver_to_parser_) < QueueCap)
    <3>1. pend_read' = <<Hand("network")>> /\ receiver_to_parser_' = receiver_to_parser_
          BY <1>8, <2>2, <2>4 DEF HandOver, Hand
    <3>2. Len(pend_read') = 1 /\ pend_read'[1] = Hand("network")
          BY <3>1
    <3> QED BY <1>a, <1>b, <2>1, <3>1, <3>2 DEF OwnerInv, Threads
  <2> QED BY <2>3, <2>4
<1>9. CASE Dispatch
  <2>1. /\ Hand("parser")' = Head(receiver_to_parser_) /\ th'["parser"].pc = "parse"
        /\ Hand("network")' = Hand("network") /\ th'["network"].pc = th["network"].pc
        /\ UNCHANGED <<buffer_, read_idx_, pend_read>> /\ receiver_to_parser_' = Tail(receiver_to_parser_)
        /\ receiver_to_parser_ # <<>>
        BY <1>9 DEF Dispatch, Hand, Threads, TypeOK, freelist
  <2>2. /\ Len(receiver_to_parser_) > 0 /\ receiver_to_parser_[1] = Head(receiver_to_parser_)
        /\ Len(receiver_to_parser_') = Len(receiver_to_parser_) - 1
        /\ \A i \in 1..Len(receiver_to_parser_') : receiver_to_parser_'[i] = receiver_to_parser_[i + 1]
        BY <1>a, <2>1, HeadTailProperties
  <2>3. \A i \in 1..Len(receiver_to_parser_') : i + 1 \in 1..Len(receiver_to_parser_) /\ i + 1 # 1
        BY <1>a, <2>2
  <2> QED BY <1>a, <1>b, <2>1, <2>2, <2>3 DEF OwnerInv, Threads
<1>10. CASE UNCHANGED vars
      BY <1>10 DEF vars, freelist, OwnerInv, Hand
<1> QED BY <1>1, <1>2, <1>3, <1>4, <1>5, <1>6, <1>7, <1>8, <1>9, <1>10
        DEF Next, Network, Parser, Release

-----------------------------------------------------------------------------
(* Order *)

\* A step that parses, receives and queues nothing keeps the order: the
\* pipeline may only lose packets.
LEMMA OrderStays ==
  ASSUME OrderInv, UNCHANGED <<parsed, received, receiver_to_parser_, data>>,
         Parsing' \subseteq Parsing, Late' \subseteq Late
  PROVE  OrderInv'
<1>1. Queued' = Queued BY DEF Queued, Elems
<1> QED BY <1>1 DEF OrderInv

LEMMA OrderNext == IInv /\ [Next]_vars => OrderInv'
<1> SUFFICES ASSUME IInv, [Next]_vars PROVE OrderInv'
    OBVIOUS
<1> USE Constants DEF IInv
<1>a. /\ receiver_to_parser_ \in Seq(Packet) /\ pend_read \in Seq(Packet)
      /\ Len(receiver_to_parser_) \in Nat /\ Len(pend_read) \in Nat
      /\ \A i \in 1..Len(receiver_to_parser_) : receiver_to_parser_[i] \in Packet
      /\ \A k \in 1..Len(pend_read) : pend_read[k] \in Packet
      /\ parsed \in Seq(1..MaxRecv) /\ Len(parsed) \in Nat
      /\ \A i \in 1..Len(parsed) : parsed[i] \in 1..MaxRecv
      /\ data \in [Packet -> 0..MaxRecv] /\ received \in 0..MaxRecv
      BY LenProperties DEF TypeOK
<1>1. ASSUME NEW t \in Threads, Release(t) PROVE OrderInv'
  <2>5. th \in [Threads -> Local] BY DEF TypeOK, Local, PCs
  <2>1. /\ th'[t].pc \notin {"parse", "push"}
        /\ \A u \in Threads : u # t => th'[u] = th[u]
    <3>1. CASE ReleaseLoad(t) BY <2>5, <3>1 DEF ReleaseLoad, Idle, Local
    <3>2. CASE ReleaseStore(t) BY <2>5, <3>2 DEF ReleaseStore, Local
    <3>3. CASE ReleaseInc(t) BY <2>5, <3>3 DEF ReleaseInc, Idle, Local
    <3> QED BY <1>1, <3>1, <3>2, <3>3 DEF Release
  <2>2. UNCHANGED <<parsed, received, receiver_to_parser_, data, pend_read>>
        BY <1>1 DEF Release, ReleaseLoad, ReleaseStore, ReleaseInc
  <2>3. Parsing' \subseteq Parsing BY <2>1 DEF Parsing, Hand, Threads
  <2>4. Late' \subseteq Late BY <2>1, <2>2 DEF Late, Hand, Threads
  <2> QED BY <2>2, <2>3, <2>4, OrderStays
<1>2. CASE TakeFree \/ ClearFree \/ RecvAgain \/ RecvFails \/ KeptBack
  <2>1. th'["network"].pc # "push" /\ th'["parser"] = th["parser"]
        BY <1>2 DEF TakeFree, ClearFree, RecvAgain, RecvFails, KeptBack, Idle, TypeOK, Threads
  <2>2. UNCHANGED <<parsed, received, receiver_to_parser_, data, pend_read>>
        BY <1>2 DEF TakeFree, ClearFree, RecvAgain, RecvFails, KeptBack
  <2>3. Parsing' \subseteq Parsing BY <2>1 DEF Parsing, Hand
  <2>4. Late' \subseteq Late BY <2>1, <2>2 DEF Late, Hand
  <2> QED BY <2>2, <2>3, <2>4, OrderStays
<1>3. CASE FlushPending
  <2>1. th' = th /\ UNCHANGED <<parsed, received, data>> /\ th["network"].pc = "idle"
        BY <1>3 DEF FlushPending, At
  <2>2. Parsing' = Parsing BY <2>1 DEF Parsing, Hand
  <2>6. pend_read # <<>> BY <1>3 DEF FlushPending
  <2>8. Len(pend_read) <= 1 BY DEF ControlInv
  <2>9. Len(pend_read) = 1 BY <1>a, <2>6, <2>8, OneElement
  <2>10. pend_read[1] = Head(pend_read) /\ Head(pend_read) \in Packet
        BY <1>a, <2>6, <2>8, OneElement
  <2>11. Tail(pend_read) = <<>> BY <1>a, <2>6, <2>8, OneElement
  <2>12. Late = {pend_read[1]} BY <2>1, <2>9 DEF Late
  <2>4. CASE Len(receiver_to_parser_) < QueueCap
    <3>1. pend_read' = <<>> /\ receiver_to_parser_' = Append(receiver_to_parser_, pend_read[1])
          BY <1>3, <2>10, <2>11, <2>4 DEF FlushPending
    <3>2. /\ Len(receiver_to_parser_') = Len(receiver_to_parser_) + 1 /\ Len(pend_read') = 0
          /\ \A i \in 1..Len(receiver_to_parser_) : receiver_to_parser_'[i] = receiver_to_parser_[i]
          /\ receiver_to_parser_'[Len(receiver_to_parser_) + 1] = pend_read[1]
          BY <1>a, <2>10, <3>1, AppendProperties
    <3>3. Late' = {} BY <2>1, <3>2 DEF Late
    <3>4. Queued' = Queued \cup {pend_read[1]} BY <1>a, <2>10, <3>1, AppendSet DEF Queued
    <3>6. \A i \in 1..Len(receiver_to_parser_) : data[receiver_to_parser_[i]] < data[pend_read[1]]
          BY <2>12 DEF OrderInv, Queued, Elems
    <3>7. \A i, j \in 1..Len(receiver_to_parser_) :
             i < j => data[receiver_to_parser_[i]] < data[receiver_to_parser_[j]]
          BY DEF OrderInv
    <3>8. data \in [Packet -> Nat] BY <1>a
    <3>5. \A i, j \in 1..Len(receiver_to_parser_') :
             i < j => data[receiver_to_parser_'[i]] < data[receiver_to_parser_'[j]]
          BY <1>a, <2>10, <3>1, <3>6, <3>7, <3>8, AppendSorted
    <3> QED BY <2>1, <2>2, <2>12, <3>3, <3>4, <3>5 DEF OrderInv
  <2>5. CASE ~(Len(receiver_to_parser_) < QueueCap)
    <3>1. pend_read' = <<pend_read[1]>> /\ receiver_to_parser_' = receiver_to_parser_
          BY <1>3, <2>10, <2>11, <2>5 DEF FlushPending
    <3>2. Len(pend_read') = 1 /\ pend_read'[1] = pend_read[1]
          BY <3>1
    <3>3. Late' = {pend_read'[1]} BY <2>1, <3>2 DEF Late
    <3>4. Late' = Late BY <2>12, <3>2, <3>3
    <3> QED BY <2>1, <2>2, <3>1, <3>4, OrderStays
  <2> QED BY <2>4, <2>5
<1>4. CASE RecvData
  <2>1. /\ th["network"].pc = "recv" /\ th'["network"].pc = "push" /\ th'["parser"] = th["parser"]
        /\ Hand("network")' = Hand("network") /\ Hand("network") \in Packet
        /\ UNCHANGED <<parsed, receiver_to_parser_, pend_read>> /\ received' = received + 1
        BY <1>4 DEF RecvData, At, Hand, ControlInv, Holding, TypeOK, Threads
  <2>2. pend_read = <<>> BY <2>1 DEF ControlInv
  <2>3. \A p \in Packet : data'[p] = IF p = Hand("network") THEN received + 1 ELSE data[p]
        BY <1>4 DEF RecvData, Hand, TypeOK
  <2>4. Late = {} /\ Late' = {Hand("network")} BY <2>1, <2>2 DEF Late
  <2>5. Parsing' = Parsing /\ Queued' = Queued BY <2>1 DEF Parsing, Queued, Elems, Hand
  <2>6. Parsing \subseteq Packet /\ Queued \subseteq Packet
        BY <1>a DEF Parsing, Queued, Elems, Hand, TypeOK, Threads, ControlInv, Holding
  <2>7. Hand("network") \notin Parsing \cup Queued
        BY <2>1 DEF Parsing, Queued, Elems, OwnerInv, Threads
  <2>8. \A p \in Parsing \cup Queued : data'[p] = data[p]
        BY <2>3, <2>6, <2>7
  <2>9. \A i \in 1..Len(receiver_to_parser_) : receiver_to_parser_[i] \in Queued
        BY DEF Queued, Elems
  <2>10. data'[Hand("network")] = received + 1 BY <2>1, <2>3
  <2>11. \A p \in Parsing \cup Queued : data[p] \in Int BY <1>a, <2>6
  <2>12. received' >= received /\ received' \in Int /\ received \in Int BY <1>a, <2>1
  <2>13. \A i \in 1..Len(parsed) : parsed[i] <= received /\ parsed[i] < received + 1
         BY <1>a DEF OrderInv
  <2>14. \A p \in Parsing \cup Queued : data'[p] >= 1 /\ data'[p] < received + 1
         BY <2>8, <2>11, <2>12 DEF OrderInv
  <2>15. \A i \in 1..Len(parsed'), p \in (Parsing \cup Queued \cup Late)' : parsed'[i] < data'[p]
         BY <2>1, <2>4, <2>5, <2>8, <2>10, <2>13 DEF OrderInv
  <2>16. \A p \in (Parsing \cup Queued \cup Late)' : data'[p] >= 1 /\ data'[p] <= received'
    <3>1. \A p \in Parsing \cup Queued : data'[p] >= 1 /\ data'[p] <= received'
          BY <2>8, <2>11, <2>12 DEF OrderInv
    <3> QED BY <2>1, <2>4, <2>5, <2>10, <2>12, <1>a, <3>1
  <2>17. \A p \in Parsing', q \in (Queued \cup Late)' : data'[p] < data'[q]
         BY <2>4, <2>5, <2>8, <2>10, <2>14 DEF OrderInv
  <2>18. \A p \in Queued', q \in Late' : data'[p] < data'[q]
         BY <2>4, <2>5, <2>10, <2>14
  <2>19. \A i, j \in 1..Len(receiver_to_parser_') :
            i < j => data'[receiver_to_parser_'[i]] < data'[receiver_to_parser_'[j]]
         BY <2>1, <2>8, <2>9 DEF OrderInv
  <2>20. \A i \in 1..Len(parsed') : parsed'[i] <= received'
         BY <1>a, <2>1, <2>12, <2>13
  <2> QED BY <2>1, <2>15, <2>16, <2>17, <2>18, <2>19, <2>20 DEF OrderInv
<1>5. CASE HandOver
  <2>1. /\ th'["network"].pc = "idle" /\ th["network"].pc = "push" /\ th'["parser"] = th["parser"]
        /\ UNCHANGED <<parsed, received, data>> /\ Hand("network") \in Packet
        BY <1>5 DEF HandOver, Hand, Threads, TypeOK, Idle, ControlInv, Holding, At
  <2>2. pend_read = <<>> BY <2>1 DEF ControlInv
  <2>3. Parsing' = Parsing BY <2>1 DEF Parsing, Hand
  <2>4. Late = {Hand("network")} BY <2>1, <2>2 DEF Late
  <2>5. CASE Len(receiver_to_parser_) < QueueCap
    <3>1. pend_read' = <<>> /\ receiver_to_parser_' = Append(receiver_to_parser_, Hand("network"))
          BY <1>5, <2>2, <2>5 DEF HandOver, Hand
    <3>2. /\ Len(receiver_to_parser_') = Len(receiver_to_parser_) + 1 /\ Len(pend_read') = 0
          /\ \A i \in 1..Len(receiver_to_parser_) : receiver_to_parser_'[i] = receiver_to_parser_[i]
          /\ receiver_to_parser_'[Len(receiver_to_parser_) + 1] = Hand("network")
          BY <1>a, <2>1, <3>1, AppendProperties
    <3>3. Late' = {} BY <2>1, <3>2 DEF Late
    <3>4. Queued' = Queued \cup {Hand("network")} BY <1>a, <2>1, <3>1, AppendSet DEF Queued
    <3>6. \A i \in 1..Len(receiver_to_parser_) : data[receiver_to_parser_[i]] < data[Hand("network")]
          BY <2>4 DEF OrderInv, Queued, Elems
    <3>7. \A i, j \in 1..Len(receiver_to_parser_) :
             i < j => data[receiver_to_parser_[i]] < data[receiver_to_parser_[j]]
          BY DEF OrderInv
    <3>8. data \in [Packet -> Nat] BY <1>a
    <3>5. \A i, j \in 1..Len(receiver_to_parser_') :
             i < j => data[receiver_to_parser_'[i]] < data[receiver_to_parser_'[j]]
          BY <1>a, <2>1, <3>1, <3>6, <3>7, <3>8, AppendSorted
    <3> QED BY <2>1, <2>3, <2>4, <3>3, <3>4, <3>5 DEF OrderInv
  <2>6. CASE ~(Len(receiver_to_parser_) < QueueCap)
    <3>1. pend_read' = <<Hand("network")>> /\ receiver_to_parser_' = receiver_to_parser_
          BY <1>5, <2>2, <2>6 DEF HandOver, Hand
    <3>2. Len(pend_read') = 1 /\ pend_read'[1] = Hand("network")
          BY <3>1
    <3>3. Late' = Late BY <2>1, <2>4, <3>2 DEF Late
    <3> QED BY <2>1, <2>3, <3>1, <3>3, OrderStays
  <2> QED BY <2>5, <2>6
<1>6. CASE Dispatch
  <2>1. /\ th'["parser"].pc = "parse" /\ Hand("parser")' = Head(receiver_to_parser_)
        /\ th["parser"].pc = "idle" /\ th'["network"] = th["network"]
        /\ UNCHANGED <<parsed, received, data, pend_read>> /\ receiver_to_parser_' = Tail(receiver_to_parser_)
        /\ receiver_to_parser_ # <<>>
        BY <1>6 DEF Dispatch, Hand, Threads, TypeOK, At
  <2>2. /\ Len(receiver_to_parser_) > 0 /\ receiver_to_parser_[1] = Head(receiver_to_parser_)
        /\ Len(receiver_to_parser_') = Len(receiver_to_parser_) - 1
        /\ \A i \in 1..Len(receiver_to_parser_') : receiver_to_parser_'[i] = receiver_to_parser_[i + 1]
        BY <1>a, <2>1, HeadTailProperties
  <2>3. \A i \in 1..Len(receiver_to_parser_') : i + 1 \in 1..Len(receiver_to_parser_) /\ 1 < i + 1
        BY <1>a, <2>2
  <2>4. Parsing' = {receiver_to_parser_[1]} /\ Parsing = {} /\ receiver_to_parser_[1] \in Queued
        BY <1>a, <2>1, <2>2 DEF Parsing, Queued, Elems
  <2>5. Late' = Late BY <2>1 DEF Late, Hand
  <2>6. Queued' \subseteq Queued BY <2>2, <2>3 DEF Queued, Elems
  <2>9. \A i, j \in 1..Len(receiver_to_parser_) :
             i < j => data[receiver_to_parser_[i]] < data[receiver_to_parser_[j]]
        BY DEF OrderInv
  <2>10. 1 \in 1..Len(receiver_to_parser_) BY <1>a, <2>2
  <2>11. \A i \in 1..Len(receiver_to_parser_') : data[receiver_to_parser_[1]] < data[receiver_to_parser_'[i]]
        BY <2>2, <2>3, <2>9, <2>10
  <2>7. \A q \in Queued' : data[receiver_to_parser_[1]] < data[q]
        BY <2>11 DEF Queued, Elems
  <2>8. ASSUME NEW i \in 1..Len(receiver_to_parser_'), NEW j \in 1..Len(receiver_to_parser_'), i < j
        PROVE  data[receiver_to_parser_'[i]] < data[receiver_to_parser_'[j]]
    <3>1. i + 1 < j + 1 BY <2>8
    <3> QED BY <2>2, <2>3, <2>9, <3>1
  <2> QED BY <2>1, <2>4, <2>5, <2>6, <2>7, <2>8 DEF OrderInv
<1>7. CASE Parse
  <2>1. /\ th'["parser"].pc = "release" /\ th["parser"].pc = "parse" /\ th'["network"] = th["network"]
        /\ UNCHANGED <<received, data, pend_read, receiver_to_parser_>>
        /\ parsed' = Append(parsed, data[Hand("parser")])
        BY <1>7 DEF Parse, Hand, Threads, TypeOK, At
  <2>2. Parsing = {Hand("parser")} /\ Parsing' = {} BY <2>1 DEF Parsing
  <2>3. Late' = Late /\ Queued' = Queued BY <2>1 DEF Late, Queued, Elems, Hand
  <2>4. data[Hand("parser")] \in 1..MaxRecv /\ data[Hand("parser")] <= received
    <3>1. Hand("parser") \in Packet BY <2>1 DEF ControlInv, Holding, Hand, TypeOK, Threads
    <3> QED BY <1>a, <2>2, <3>1 DEF OrderInv
  <2>5. /\ Len(parsed') = Len(parsed) + 1
        /\ \A i \in 1..Len(parsed) : parsed'[i] = parsed[i]
        /\ parsed'[Len(parsed) + 1] = data[Hand("parser")]
        BY <1>a, <2>1, <2>4, AppendProperties
  <2>6. \A i \in 1..Len(parsed') : \/ i \in 1..Len(parsed) /\ parsed'[i] = parsed[i]
                                   \/ i = Len(parsed) + 1 /\ parsed'[i] = data[Hand("parser")]
        BY <1>a, <2>5
  <2>7. ASSUME NEW i \in 1..Len(parsed'), NEW j \in 1..Len(parsed'), i < j PROVE parsed'[i] < parsed'[j]
    <3>1. i \in 1..Len(parsed) /\ parsed'[i] = parsed[i] BY <1>a, <2>5, <2>6, <2>7
    <3>2. CASE j \in 1..Len(parsed) /\ parsed'[j] = parsed[j] BY <2>7, <3>1, <3>2 DEF OrderInv
    <3>3. CASE parsed'[j] = data[Hand("parser")] BY <2>2, <3>1, <3>3 DEF OrderInv
    <3> QED BY <2>6, <3>2, <3>3
  <2> QED BY <2>1, <2>2, <2>3, <2>4, <2>6, <2>7 DEF OrderInv
<1>8. CASE UNCHANGED vars
      BY <1>8 DEF vars, OrderInv, Parsing, Queued, Elems, Late, Hand
<1> QED BY <1>1, <1>2, <1>3, <1>4, <1>5, <1>6, <1>7, <1>8 DEF Next, Network, Parser

-----------------------------------------------------------------------------
(* The theorems *)

\* Every state of the packets' life satisfies the inductive invariant.
THEOREM InductiveInvariant == Spec => []IInv
<1>1. IInv /\ [Next]_vars => IInv'
      BY TypeNext, ControlNext, OwnerNext, OrderNext DEF IInv
<1> QED BY InitInv, <1>1, PTL DEF Spec

\* The variables have their types: in particular the parser's queue never
\* grows past its capacity, and nothing but received chunks is parsed.
THEOREM TypeCorrect == Spec => []TypeOK
<1>1. IInv => TypeOK BY DEF IInv
<1> QED BY <1>1, InductiveInvariant, PTL

\* The parser thread sees the chunks in the order in which recv delivered
\* them, each at most once, whatever the two releasing threads do to
\* free_pkt_list_ and however often the parser's queue is full.
THEOREM ParsedInOrderHolds == Spec => []ParsedInOrder
<1>1. IInv => ParsedInOrder BY DEF IInv, OrderInv, ParsedInOrder
<1> QED BY <1>1, InductiveInvariant, PTL

\* A set of at most one element has cardinality at most 1.
LEMMA AtMostOne ==
  ASSUME NEW S, \A x, y \in S : x = y
  PROVE  Cardinality(S) \in {0, 1} /\ (Cardinality(S) = 1 => S # {})
<1>1. CASE S = {} BY <1>1, FS_EmptySet
<1>2. CASE S # {}
  <2>1. PICK x \in S : TRUE BY <1>2
  <2>2. S = {x} BY <2>1
  <2> QED BY <2>2, FS_Singleton
<1> QED BY <1>1, <1>2

\* A packet is in at most one place: the count that OneOwner bounds, from the
\* pairwise facts of OwnerInv.
THEOREM OneOwnerHolds == Spec => []OneOwner
<1>1. ASSUME IInv PROVE OneOwner
  <2> SUFFICES ASSUME NEW p \in Packet PROVE Places(p) <= 1
      BY DEF OneOwner
  <2> USE <1>1 DEF IInv
  <2> DEFINE B == {i \in 0..N - 1 : buffer_[i] = p}
             R == {i \in 1..Len(receiver_to_parser_) : receiver_to_parser_[i] = p}
             W == {i \in 1..Len(pend_read) : pend_read[i] = p}
             H == {t \in Threads : th[t].pkt = p /\ th[t].pc # "clear"}
  <2>0. p # nullptr BY Constants
  <2>1. \A x, y \in B : x = y BY <2>0 DEF OwnerInv, Slots
  <2>2. \A x, y \in R : x = y BY DEF OwnerInv
  <2>3. \A x, y \in W : x = y
    <3>1. Len(pend_read) \in Nat /\ Len(pend_read) <= 1 BY LenProperties DEF TypeOK, ControlInv
    <3> QED BY <3>1
  <2>4. \A x, y \in H : x = y BY <2>0 DEF OwnerInv, Threads, Hand
  <2>5. /\ B # {} => R = {} /\ W = {} /\ H = {}
        /\ R # {} => W = {} /\ H = {}
        /\ W # {} => H = {}
    <3>1. B # {} => R = {} /\ W = {} BY DEF OwnerInv, Slots
    <3>2. B # {} => H = {} BY <2>0 DEF OwnerInv, Slots, Hand
    <3>3. R # {} => W = {} /\ H = {} BY DEF OwnerInv, Hand
    <3>4. W # {} => H = {} BY DEF OwnerInv, Hand
    <3> QED BY <3>1, <3>2, <3>3, <3>4
  <2>6. Places(p) = Cardinality(B) + Cardinality(R) + Cardinality(W) + Cardinality(H)
        BY DEF Places
  <2> HIDE DEF B, R, W, H
  <2>7. /\ Cardinality(B) \in {0, 1} /\ (Cardinality(B) = 1 => B # {})
        /\ Cardinality(R) \in {0, 1} /\ (Cardinality(R) = 1 => R # {})
        /\ Cardinality(W) \in {0, 1} /\ (Cardinality(W) = 1 => W # {})
        /\ Cardinality(H) \in {0, 1} /\ (Cardinality(H) = 1 => H # {})
        BY <2>1, <2>2, <2>3, <2>4, AtMostOne
  <2>8. /\ (B = {} => Cardinality(B) = 0) /\ (R = {} => Cardinality(R) = 0)
        /\ (W = {} => Cardinality(W) = 0) /\ (H = {} => Cardinality(H) = 0)
        BY FS_EmptySet
  <2> QED BY <2>5, <2>6, <2>7, <2>8
<1> QED BY <1>1, InductiveInvariant, PTL
=============================================================================
