------------------------------ MODULE RxPackets ------------------------------
(***************************************************************************)
(* The life of a received packet: NetworkIO::recv_send takes an RxPacket   *)
(* from free_pkt_list_, receives into it and queues it for the parser      *)
(* thread, and Parser_Dispatch::dispatch parses it and releases it.  One   *)
(* TCP or UDP socket; the partial packets of SoupBinTCP are not modelled,  *)
(* only that SBTPacketHandler may keep a packet from the parser.           *)
(*                                                                         *)
(* free_pkt_list_ is a CustomSpscQueue, but releasePacket is called by     *)
(* both threads: its push is modelled step by step, with two producers.    *)
(* receiver_to_parser_ has one producer and one consumer and is the FIFO   *)
(* that CustomSpscQueue is proved to be.  The indices of free_pkt_list_    *)
(* are kept modulo N: only their slots are ever looked at, and N divides   *)
(* 2^64 in the code.                                                       *)
(***************************************************************************)
EXTENDS Integers, Sequences, FiniteSets, Functions

CONSTANTS Packet,     \* packet_pool_
          nullptr,
          N,          \* slots of free_pkt_list_
          QueueCap,   \* capacity of receiver_to_parser_
          MaxRecv     \* bound: chunks of data received

ASSUME PoolAssumption == /\ nullptr \notin Packet /\ N = Cardinality(Packet)
                         /\ N \in Nat \ {0} /\ QueueCap \in Nat /\ MaxRecv \in Nat

VARIABLES buffer_, write_idx_, read_idx_,   \* free_pkt_list_
          receiver_to_parser_, pend_read,
          data,         \* which chunk a packet holds (0: none yet)
          received,     \* chunks received so far
          parsed,       \* history: chunks in the order they were parsed
          th            \* per thread: where it is, its packet, its index

freelist == <<buffer_, write_idx_, read_idx_>>
vars == <<freelist, receiver_to_parser_, pend_read, data, received, parsed, th>>

Threads == {"network", "parser"}
Idle == [pc |-> "idle", pkt |-> nullptr, idx |-> 0]
Succ(i) == (i + 1) % N
At(t, where) == th[t].pc = where

\* The constructor releases every packet, before the threads start.
Init == /\ buffer_ \in Bijection(0..N - 1, Packet)
        /\ write_idx_ = 0 /\ read_idx_ = 0
        /\ receiver_to_parser_ = <<>> /\ pend_read = <<>>
        /\ data = [p \in Packet |-> 0] /\ received = 0 /\ parsed = <<>>
        /\ th = [t \in Threads |-> Idle]

-----------------------------------------------------------------------------
(* releasePacket: free_pkt_list_.push, by either thread *)

\* A full slot refuses the push, and the packet is forgotten.
ReleaseLoad(t) ==
    /\ At(t, "release")
    /\ th' = [th EXCEPT ![t] = IF buffer_[write_idx_] = nullptr
                               THEN [@ EXCEPT !.pc = "store", !.idx = write_idx_]
                               ELSE Idle]
    /\ UNCHANGED <<freelist, receiver_to_parser_, pend_read, data, received, parsed>>

ReleaseStore(t) ==
    /\ At(t, "store")
    /\ buffer_' = [buffer_ EXCEPT ![th[t].idx] = th[t].pkt]
    /\ th' = [th EXCEPT ![t].pc = "inc", ![t].pkt = nullptr]
    /\ UNCHANGED <<write_idx_, read_idx_, receiver_to_parser_, pend_read, data, received, parsed>>

\* ++write_idx_ is a plain increment: another thread's may be lost.
ReleaseInc(t) ==
    /\ At(t, "inc")
    /\ write_idx_' \in {Succ(write_idx_), Succ(th[t].idx)}
    /\ th' = [th EXCEPT ![t] = Idle]
    /\ UNCHANGED <<buffer_, read_idx_, receiver_to_parser_, pend_read, data, received, parsed>>

-----------------------------------------------------------------------------
(* recv_send, on EPOLLIN, by the network thread *)

\* Packets that did not fit the parser's queue go first; the loop spins until
\* they are gone.
FlushPending ==
    /\ At("network", "idle") /\ pend_read # <<>>
    /\ IF Len(receiver_to_parser_) < QueueCap
       THEN /\ receiver_to_parser_' = Append(receiver_to_parser_, Head(pend_read))
            /\ pend_read' = Tail(pend_read)
       ELSE /\ pend_read' = Append(Tail(pend_read), Head(pend_read))
            /\ UNCHANGED receiver_to_parser_
    /\ UNCHANGED <<freelist, data, received, parsed, th>>

\* Mutant of TakeFree: the packets that wait are not flushed first.
TakeFree_NoFlush ==
    /\ At("network", "idle")
    /\ buffer_[read_idx_] # nullptr
    /\ th' = [th EXCEPT !["network"] = [pc |-> "clear", pkt |-> buffer_[read_idx_], idx |-> 0]]
    /\ UNCHANGED <<freelist, receiver_to_parser_, pend_read, data, received, parsed>>

\* free_pkt_list_.pop: the load ...
TakeFree ==
    /\ At("network", "idle") /\ pend_read = <<>>
    /\ buffer_[read_idx_] # nullptr
    /\ th' = [th EXCEPT !["network"] = [pc |-> "clear", pkt |-> buffer_[read_idx_], idx |-> 0]]
    /\ UNCHANGED <<freelist, receiver_to_parser_, pend_read, data, received, parsed>>

\* ... and the store of nullptr, with the consumer's own ++read_idx_.
ClearFree ==
    /\ At("network", "clear")
    /\ buffer_' = [buffer_ EXCEPT ![read_idx_] = nullptr]
    /\ read_idx_' = Succ(read_idx_)
    /\ th' = [th EXCEPT !["network"].pc = "recv"]
    /\ UNCHANGED <<write_idx_, receiver_to_parser_, pend_read, data, received, parsed>>

\* recv has nothing: the packet is released by this thread.
RecvAgain ==
    /\ At("network", "recv")
    /\ th' = [th EXCEPT !["network"].pc = "release"]
    /\ UNCHANGED <<freelist, receiver_to_parser_, pend_read, data, received, parsed>>

\* EINTR, an error or the end of the stream: the packet is in nobody's hands.
RecvFails ==
    /\ At("network", "recv")
    /\ th' = [th EXCEPT !["network"] = Idle]
    /\ UNCHANGED <<freelist, receiver_to_parser_, pend_read, data, received, parsed>>

RecvData ==
    /\ At("network", "recv") /\ received < MaxRecv
    /\ received' = received + 1
    /\ data' = [data EXCEPT ![th["network"].pkt] = received + 1]
    /\ th' = [th EXCEPT !["network"].pc = "push"]
    /\ UNCHANGED <<freelist, receiver_to_parser_, pend_read, parsed>>

\* SBTPacketHandler returned FALSE: not for the parser, and not released.
KeptBack ==
    /\ At("network", "push")
    /\ th' = [th EXCEPT !["network"] = Idle]
    /\ UNCHANGED <<freelist, receiver_to_parser_, pend_read, data, received, parsed>>

\* Mutant of HandOver: the result of the push is ignored and the queue has no end.
HandOver_NoBound ==
    /\ At("network", "push")
    /\ receiver_to_parser_' = Append(receiver_to_parser_, th["network"].pkt)
    /\ th' = [th EXCEPT !["network"] = Idle]
    /\ UNCHANGED <<freelist, pend_read, data, received, parsed>>

\* Queued for the parser, or kept in pend_read.  (With one entry there is
\* nothing for swap_last_two to swap.)
HandOver ==
    /\ At("network", "push")
    /\ IF Len(receiver_to_parser_) < QueueCap
       THEN /\ receiver_to_parser_' = Append(receiver_to_parser_, th["network"].pkt)
            /\ UNCHANGED pend_read
       ELSE /\ pend_read' = Append(pend_read, th["network"].pkt)
            /\ UNCHANGED receiver_to_parser_
    /\ th' = [th EXCEPT !["network"] = Idle]
    /\ UNCHANGED <<freelist, data, received, parsed>>

-----------------------------------------------------------------------------
(* dispatch, by the parser thread *)

\* Mutant of Dispatch: the packet is released before it is parsed.
Dispatch_ReleaseFirst ==
    /\ At("parser", "idle") /\ receiver_to_parser_ # <<>>
    /\ buffer_[write_idx_] = nullptr
    /\ buffer_' = [buffer_ EXCEPT ![write_idx_] = Head(receiver_to_parser_)]
    /\ write_idx_' = Succ(write_idx_)
    /\ receiver_to_parser_' = Tail(receiver_to_parser_)
    /\ th' = [th EXCEPT !["parser"] = [pc |-> "parse", pkt |-> Head(receiver_to_parser_), idx |-> 0]]
    /\ UNCHANGED <<read_idx_, pend_read, data, received, parsed>>

Dispatch ==
    /\ At("parser", "idle") /\ receiver_to_parser_ # <<>>
    /\ receiver_to_parser_' = Tail(receiver_to_parser_)
    /\ th' = [th EXCEPT !["parser"] = [pc |-> "parse", pkt |-> Head(receiver_to_parser_), idx |-> 0]]
    /\ UNCHANGED <<freelist, pend_read, data, received, parsed>>

Parse ==
    /\ At("parser", "parse")
    /\ parsed' = Append(parsed, data[th["parser"].pkt])
    /\ th' = [th EXCEPT !["parser"].pc = "release"]
    /\ UNCHANGED <<freelist, receiver_to_parser_, pend_read, data, received>>

Release(t) == ReleaseLoad(t) \/ ReleaseStore(t) \/ ReleaseInc(t)
Network == \/ FlushPending \/ TakeFree \/ ClearFree \/ RecvAgain \/ RecvFails \/ RecvData
           \/ KeptBack \/ HandOver
Parser == Dispatch \/ Parse

Next == Network \/ Parser \/ \E t \in Threads : Release(t)

Spec == Init /\ [][Next]_vars

-----------------------------------------------------------------------------
(* Properties *)

\* The type invariant.
TypeOK ==
    /\ buffer_ \in [0..N - 1 -> Packet \cup {nullptr}]
    /\ write_idx_ \in 0..N - 1 /\ read_idx_ \in 0..N - 1
    /\ receiver_to_parser_ \in Seq(Packet) /\ Len(receiver_to_parser_) <= QueueCap
    /\ pend_read \in Seq(Packet)
    /\ data \in [Packet -> 0..MaxRecv] /\ received \in 0..MaxRecv /\ parsed \in Seq(1..MaxRecv)
    /\ th \in [Threads -> [pc : {"idle", "clear", "recv", "push", "parse", "release", "store", "inc"},
                           pkt : Packet \cup {nullptr}, idx : 0..N - 1]]

\* How often a packet is somewhere: in a slot (until pop has cleared it), in
\* a queue, or in the hands of a thread.
Places(p) ==
    Cardinality({i \in 0..N - 1 : buffer_[i] = p}) +
    Cardinality({i \in 1..Len(receiver_to_parser_) : receiver_to_parser_[i] = p}) +
    Cardinality({i \in 1..Len(pend_read) : pend_read[i] = p}) +
    Cardinality({t \in Threads : th[t].pkt = p /\ th[t].pc # "clear"})

\* A packet has one owner: the network thread never receives into a packet
\* that is queued, being parsed or on the free list, although both threads
\* release packets at once.
OneOwner == \A p \in Packet : Places(p) <= 1

\* The parser sees the chunks in the order in which they were received and
\* none twice, also when its queue was full and packets had to wait.
ParsedInOrder == \A i, j \in 1..Len(parsed) : i < j => parsed[i] < parsed[j]

=============================================================================
