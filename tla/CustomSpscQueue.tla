--------------------------- MODULE CustomSpscQueue ---------------------------
(***************************************************************************)
(* The wait-free single-producer / single-consumer ring of                 *)
(* utils/CustomSpscQueue, the queue between every two threads of the       *)
(* engine.  A slot is the synchronisation point: nullptr is empty.  The    *)
(* producer and the consumer never read each other's index.  Every access  *)
(* to a slot is one atomic step, so a push is load / store / ++write_idx_  *)
(* and a pop is load / clear / ++read_idx_, interleaved freely.            *)
(*                                                                         *)
(* The indices are size_t counters that are never masked when stored: they *)
(* wrap at IdxMod (2^64 in the code), and remap masks them when a slot is  *)
(* addressed.                                                              *)
(***************************************************************************)
EXTENDS Integers, Sequences

CONSTANTS Elem,     \* the pointers that are pushed
          nullptr,  \* the empty slot
          N,        \* slots, a power of two >= 8
          IdxMod    \* size_t wraps to 0 here

ASSUME NullAssumption == nullptr \notin Elem

\* What the template's requires clause gives (has_single_bit(N), N >= 8), as
\* far as it matters: whole cache lines of 8 slots, and a size_t that holds
\* a whole number (at least two) of rounds of the ring.
ASSUME SizeAssumption == /\ N \in Nat /\ IdxMod \in Nat
                         /\ \E h \in 1..N : N = 8 * h
                         /\ \E r \in 2..IdxMod : IdxMod = N * r

VARIABLES buffer_, write_idx_, read_idx_,
          ppc,      \* producer: where push() is
          elem,     \* producer: the argument of that push
          room,     \* producer: TRUE after full() said FALSE, until it pushes
          pushed,   \* producer: what its last push returned
          cpc,      \* consumer: where pop() is
          got,      \* consumer: what that pop loaded
          some,     \* consumer: TRUE after empty() said FALSE, until it pops
          out       \* consumer: what its last pop delivered

producer == <<write_idx_, ppc, elem, room, pushed>>
consumer == <<read_idx_, cpc, got, some, out>>
vars == <<buffer_, producer, consumer>>

-----------------------------------------------------------------------------
Slots == 0..N - 1

L_BITS == 8                      \* slots in a cache line
H_BITS == N \div L_BITS          \* cache lines

\* Mutant of remap: the mask is one short, so two indices share a slot.
remap_ShortMask(i) == LET idx == i % N
                      IN  (idx % (L_BITS - 1)) * H_BITS + idx \div L_BITS

\* remap: consecutive indices go to different cache lines.  Shifting by
\* H_BITS and or-ing disjoint bits are a multiplication and an addition.
remap(i) == LET idx == i % N
            IN  (idx % L_BITS) * H_BITS + idx \div L_BITS

\* Mutant of NextIdx: an index that is not a size_t.
NextIdx_NoWrap(i) == i + 1

\* ++idx on a size_t
NextIdx(i) == (i + 1) % IdxMod

Init == /\ buffer_ = [s \in Slots |-> nullptr]
        /\ write_idx_ = 0 /\ read_idx_ = 0
        /\ ppc = "idle" /\ elem = nullptr /\ room = FALSE /\ pushed = TRUE
        /\ cpc = "idle" /\ got = nullptr /\ some = FALSE /\ out = nullptr

-----------------------------------------------------------------------------
(* push, by the producer's thread *)

\* Mutant of PushLoad: the slot is not tested.
PushLoad_NoTest(e) == /\ ppc = "idle"
                      /\ ppc' = "store" /\ elem' = e
                      /\ UNCHANGED <<buffer_, write_idx_, room, pushed, consumer>>

PushLoad(e) == /\ ppc = "idle"
               /\ buffer_[remap(write_idx_)] = nullptr
               /\ ppc' = "store" /\ elem' = e
               /\ UNCHANGED <<buffer_, write_idx_, room, pushed, consumer>>

\* Mutant of PushFails: the ring keeps one slot spare.
PushFails_OneSpare == /\ ppc = "idle"
                      /\ buffer_[remap(NextIdx(write_idx_))] # nullptr
                      /\ pushed' = FALSE /\ room' = FALSE
                      /\ UNCHANGED <<buffer_, write_idx_, ppc, elem, consumer>>

PushFails == /\ ppc = "idle"
             /\ buffer_[remap(write_idx_)] # nullptr
             /\ pushed' = FALSE /\ room' = FALSE
             /\ UNCHANGED <<buffer_, write_idx_, ppc, elem, consumer>>

PushStore == /\ ppc = "store"
             /\ buffer_' = [buffer_ EXCEPT ![remap(write_idx_)] = elem]
             /\ ppc' = "inc" /\ pushed' = TRUE
             /\ UNCHANGED <<write_idx_, elem, room, consumer>>

PushInc == /\ ppc = "inc"
           /\ write_idx_' = NextIdx(write_idx_)
           /\ ppc' = "idle" /\ elem' = nullptr /\ room' = FALSE
           /\ UNCHANGED <<buffer_, pushed, consumer>>

Full == /\ ppc = "idle"
        /\ room' = (buffer_[remap(write_idx_)] = nullptr)
        /\ UNCHANGED <<buffer_, write_idx_, ppc, elem, pushed, consumer>>

(* pop, by the consumer's thread *)

\* Mutant of PopLoad: emptiness is told from the masked indices, which are
\* equal in a full ring too.
PopLoad_MaskedIndices == /\ cpc = "idle"
                         /\ remap(read_idx_) # remap(write_idx_)
                         /\ cpc' = "clear" /\ got' = buffer_[remap(read_idx_)]
                         /\ UNCHANGED <<buffer_, read_idx_, some, out, producer>>

PopLoad == /\ cpc = "idle"
           /\ buffer_[remap(read_idx_)] # nullptr
           /\ cpc' = "clear" /\ got' = buffer_[remap(read_idx_)]
           /\ UNCHANGED <<buffer_, read_idx_, some, out, producer>>

PopFails == /\ cpc = "idle"
            /\ buffer_[remap(read_idx_)] = nullptr
            /\ out' = nullptr /\ some' = FALSE
            /\ UNCHANGED <<buffer_, read_idx_, cpc, got, producer>>

PopClear == /\ cpc = "clear"
            /\ buffer_' = [buffer_ EXCEPT ![remap(read_idx_)] = nullptr]
            /\ cpc' = "inc" /\ out' = got
            /\ UNCHANGED <<read_idx_, got, some, producer>>

PopInc == /\ cpc = "inc"
          /\ read_idx_' = NextIdx(read_idx_)
          /\ cpc' = "idle" /\ got' = nullptr /\ some' = FALSE
          /\ UNCHANGED <<buffer_, out, producer>>

\* Mutant of Empty: the comparison with nullptr is inverted.
Empty_Inverted == /\ cpc = "idle"
                  /\ some' = (buffer_[remap(read_idx_)] = nullptr)
                  /\ UNCHANGED <<buffer_, read_idx_, cpc, got, out, producer>>

Empty == /\ cpc = "idle"
         /\ some' = (buffer_[remap(read_idx_)] # nullptr)
         /\ UNCHANGED <<buffer_, read_idx_, cpc, got, out, producer>>

\* reset_unsafe: only while no thread runs, hence between calls
ResetUnsafe ==
    /\ ppc = "idle" /\ cpc = "idle"
    /\ buffer_' = [s \in Slots |-> nullptr]
    /\ write_idx_' = 0 /\ read_idx_' = 0
    /\ room' = FALSE /\ some' = FALSE
    /\ UNCHANGED <<ppc, elem, pushed, cpc, got, out>>

Producer == (\E e \in Elem : PushLoad(e)) \/ PushFails \/ PushStore \/ PushInc \/ Full
Consumer == PopLoad \/ PopFails \/ PopClear \/ PopInc \/ Empty

Next == Producer \/ Consumer \/ ResetUnsafe

Spec == Init /\ [][Next]_vars

\* The consumer's flow calls pop() in a loop (while (running_) ...), and a
\* thread inside push() runs on.
FairSpec == /\ Spec
            /\ WF_vars(PopLoad) /\ WF_vars(PopClear) /\ WF_vars(PopInc)
            /\ WF_vars(PushStore) /\ WF_vars(PushInc)

-----------------------------------------------------------------------------
(* The abstract contents *)

\* From the counters: where the oldest element and the next free slot are,
\* counting an operation as done from the step that changes its slot.
First == IF cpc = "inc" THEN NextIdx(read_idx_) ELSE read_idx_
Last  == IF ppc = "inc" THEN NextIdx(write_idx_) ELSE write_idx_
Count == IF First <= Last THEN Last - First ELSE Last + IdxMod - First

\* The slot of the k-th queued element, k from 0.
Slot(k) == remap((First + k) % IdxMod)

Contents == [k \in 1..Count |-> buffer_[Slot(k - 1)]]

Queue == INSTANCE Fifo WITH Cap <- N, queue <- Contents

-----------------------------------------------------------------------------
(* Properties *)

\* The type invariant: the counters stay size_t, a slot holds a pointer or
\* nullptr, and each thread is at a step of push() or pop().
TypeOK ==
    /\ buffer_ \in [Slots -> Elem \cup {nullptr}]
    /\ write_idx_ \in 0..IdxMod - 1 /\ read_idx_ \in 0..IdxMod - 1
    /\ ppc \in {"idle", "store", "inc"} /\ cpc \in {"idle", "clear", "inc"}
    /\ elem \in Elem \cup {nullptr} /\ got \in Elem \cup {nullptr}
    /\ out \in Elem \cup {nullptr}
    /\ room \in BOOLEAN /\ some \in BOOLEAN /\ pushed \in BOOLEAN

\* The slots in use are exactly the Count slots that follow the oldest
\* element in ring order, whatever steps push() and pop() are between and
\* also once a size_t index has wrapped: this is what lets the two threads
\* never read each other's index.
Contiguous == /\ Count <= N
              /\ \A k \in 0..N - 1 : buffer_[Slot(k)] # nullptr <=> k < Count

\* Check-then-act is safe without a lock: the slot push() saw empty is still
\* empty when it stores, so no queued pointer is overwritten, and the slot
\* pop() loaded still holds that pointer when it clears it, so none is lost.
NoLostUpdate == /\ ppc = "store" => buffer_[remap(write_idx_)] = nullptr
                /\ cpc = "clear" => buffer_[remap(read_idx_)] = got /\ got # nullptr

\* full() and empty() are approximate only on the safe side: after full()
\* said FALSE the producer's next push is not refused, and after empty()
\* said FALSE the consumer's next pop delivers.
HintsHold == /\ room /\ ppc = "idle" => buffer_[remap(write_idx_)] = nullptr
             /\ some /\ cpc = "idle" => buffer_[remap(read_idx_)] # nullptr

\* The ring is a bounded FIFO of exactly N elements: push fails only when N
\* are queued, pop only when none is, and pointers come out in push order.
ImplementsFifo == Queue!Spec

\* A consumer that keeps calling pop() makes room in a full queue, so a
\* producer that retries is not refused forever.
FullQueueDrains == (Count = N) ~> (Count < N)
=============================================================================
