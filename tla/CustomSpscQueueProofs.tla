----------------------- MODULE CustomSpscQueueProofs -----------------------
(***************************************************************************)
(* Proofs about CustomSpscQueue for every ring size and every width of     *)
(* size_t: the ring invariant, the safety of the check-then-act in push()  *)
(* and pop(), and that the ring implements Fifo.                           *)
(***************************************************************************)
EXTENDS CustomSpscQueue, Lemmas, SequenceTheorems, TLAPS

-----------------------------------------------------------------------------
(* Arithmetic of the masked and wrapping indices *)

\* The two sizes, without the existential quantifiers.
LEMMA Sizes == /\ N \in Nat \ {0} /\ IdxMod \in Nat \ {0}
               /\ N >= 8 /\ H_BITS \in Nat \ {0} /\ N = 8 * H_BITS
               /\ IdxMod >= 2 * N
<1>1. PICK h \in 1..N : N = 8 * h BY SizeAssumption
<1>2. PICK r \in 2..IdxMod : IdxMod = N * r BY SizeAssumption
<1>3. N \in Nat /\ IdxMod \in Nat /\ N >= 8 BY SizeAssumption, <1>1
<1>4. H_BITS = h BY <1>1, <1>3 DEF H_BITS, L_BITS
<1>5. N * r >= N * 1 + N BY <1>3, MulMono
<1> QED BY <1>1, <1>2, <1>3, <1>4, <1>5

\* A wrap of size_t moves an index by whole rounds of the ring.
LEMMA WrapMod == ASSUME NEW x \in 0..2 * IdxMod - 1
                 PROVE  /\ x < IdxMod => x % IdxMod = x
                        /\ ~(x < IdxMod) => x % IdxMod = x - IdxMod
                        /\ x % IdxMod \in 0..IdxMod - 1
                        /\ (x % IdxMod) % N = x % N
<1>1. PICK r \in 2..IdxMod : IdxMod = N * r BY SizeAssumption
<1> USE Sizes
<1>2. CASE x < IdxMod
  <2>1. x = IdxMod * 0 + x OBVIOUS
  <2>2. x % IdxMod = x BY <1>2, <2>1, ModUnique
  <2> QED BY <2>2, <1>2
<1>3. CASE x >= IdxMod
  <2>1. x = IdxMod * 1 + (x - IdxMod) OBVIOUS
  <2>2. x - IdxMod \in 0..IdxMod - 1 BY <1>3
  <2>3. x % IdxMod = x - IdxMod BY <2>1, <2>2, ModUnique
  <2> DEFINE y == x - IdxMod
             q == y \div N
             s == y % N
  <2>4. y \in Int /\ N \in Nat \ {0} OBVIOUS
  <2> HIDE DEF y
  <2>5. y = N * q + s /\ s \in 0..N - 1 /\ q \in Int BY <2>4, ModDef
  <2> HIDE DEF q, s
  <2>6. q + r \in Int /\ x \in Int BY <2>5
  <2>7. x = N * (q + r) + s BY <2>5, <1>1 DEF y
  <2>8. \A c \in Int, d \in 0..N - 1 : x = N * c + d => x % N = d
    BY <2>4, <2>6, ModUnique
  <2>9. x % N = s BY <2>5, <2>6, <2>7, <2>8
  <2> QED BY <2>3, <2>2, <2>9, <1>3 DEF s, y
<1> QED BY <1>2, <1>3

\* The same for an index given by an expression.
LEMMA Wrapped == ASSUME NEW x, NEW y \in 0..2 * IdxMod - 1, x = y
                 PROVE  /\ y < IdxMod => x % IdxMod = y
                        /\ y >= IdxMod => x % IdxMod = y - IdxMod
<1>1. y < IdxMod => y % IdxMod = y BY WrapMod
<1>2. y >= IdxMod => y % IdxMod = y - IdxMod
  <2>1. y >= IdxMod => ~(y < IdxMod) BY Sizes
  <2> QED BY ONLY <2>1, WrapMod, Zenon
<1> QED BY <1>1, <1>2

\* remap permutes the ring: two indices share a slot only when they are a
\* whole number of rounds apart.
LEMMA RemapInjective == ASSUME NEW a \in Nat, NEW b \in Nat
                        PROVE  /\ remap(a) \in Slots
                               /\ remap(a) = remap(b) <=> a % N = b % N
<1> USE Sizes
<1> DEFINE i == a % N
           j == b % N
<1>1. i \in 0..N - 1 /\ j \in 0..N - 1
  <2>1. a \in Int /\ b \in Int /\ N \in Nat \ {0} OBVIOUS
  <2> QED BY ONLY <2>1, ModDef
<1> HIDE DEF i, j
<1>2. ASSUME NEW k \in 0..N - 1
      PROVE  /\ k = 8 * (k \div 8) + (k % 8)
             /\ k % 8 \in 0..7
             /\ k \div 8 \in 0..H_BITS - 1
  <2>1. k = 8 * (k \div 8) + (k % 8) /\ k % 8 \in 0..7 /\ k \div 8 \in Int OBVIOUS
  <2> QED BY <2>1
<1> DEFINE u == i % 8
           v == i \div 8
           w == j % 8
           z == j \div 8
<1>3. /\ i = 8 * v + u /\ u \in 0..7 /\ v \in 0..H_BITS - 1
      /\ j = 8 * z + w /\ w \in 0..7 /\ z \in 0..H_BITS - 1
  BY <1>1, <1>2
<1>4. remap(a) = u * H_BITS + v /\ remap(b) = w * H_BITS + z BY DEF remap, i, j, L_BITS
<1> HIDE DEF u, v, w, z
<1>5. u * H_BITS + v \in Slots
  <2>1. u * H_BITS <= 7 * H_BITS BY <1>3
  <2>2. u * H_BITS \in Nat BY <1>3
  <2> QED BY <2>1, <2>2, <1>3 DEF Slots
<1>6. ASSUME u * H_BITS + v = w * H_BITS + z PROVE u = w /\ v = z
  <2>1. u * H_BITS = H_BITS * u /\ w * H_BITS = H_BITS * w BY <1>3
  <2>2. CASE u = w BY <2>2, <1>3, <1>6
  <2>3. CASE u >= w + 1
    <3>1. H_BITS * u >= H_BITS * w + H_BITS BY <2>3, <1>3, MulMono
    <3> QED BY <3>1, <2>1, <1>3, <1>6
  <2>4. CASE w >= u + 1
    <3>1. H_BITS * w >= H_BITS * u + H_BITS BY <2>4, <1>3, MulMono
    <3> QED BY <3>1, <2>1, <1>3, <1>6
  <2> QED BY <2>2, <2>3, <2>4, <1>3
<1>7. i = j => u = w /\ v = z BY DEF u, v, w, z
<1> QED BY <1>3, <1>4, <1>5, <1>6, <1>7 DEF i, j

-----------------------------------------------------------------------------
(* The ring seen from an index f *)

\* The N slots that follow any index are N different slots.
LEMMA RingDistinct == ASSUME NEW f \in 0..IdxMod - 1, NEW j \in 0..N - 1, NEW k \in 0..N - 1,
                             remap((f + j) % IdxMod) = remap((f + k) % IdxMod)
                      PROVE  j = k
<1> USE Sizes
<1>1. /\ f + j \in 0..2 * IdxMod - 1 /\ f + k \in 0..2 * IdxMod - 1
      /\ f \in Nat /\ j \in 0..N /\ k \in 0..N /\ N \in Nat \ {0}
      /\ 0..IdxMod - 1 \subseteq Nat
  OBVIOUS
<1>2. /\ (f + j) % IdxMod \in Nat /\ ((f + j) % IdxMod) % N = (f + j) % N
      /\ (f + k) % IdxMod \in Nat /\ ((f + k) % IdxMod) % N = (f + k) % N
  BY ONLY <1>1, WrapMod, Zenon
<1>3. (f + j) % N = (f + k) % N BY <1>2, RemapInjective
<1>4. f % N \in 0..N - 1
  <2>1. f \in Int /\ N \in Nat \ {0} OBVIOUS
  <2> QED BY ONLY <2>1, ModDef
<1>5. (f + j) % N = IF (f % N) + j < N THEN (f % N) + j ELSE (f % N) + j - N
  BY ONLY <1>1, AddMod, Zenon
<1>6. (f + k) % N = IF (f % N) + k < N THEN (f % N) + k ELSE (f % N) + k - N
  BY ONLY <1>1, AddMod, Zenon
<1> QED BY <1>3, <1>4, <1>5, <1>6

\* One round further is the same slot, and counting from the next index is
\* counting from this one, one further.
LEMMA RingStep == ASSUME NEW f \in 0..IdxMod - 1
                  PROVE  /\ NextIdx(f) \in 0..IdxMod - 1
                         /\ NextIdx(f) = IF f + 1 < IdxMod THEN f + 1 ELSE 0
                         /\ f % IdxMod = f
                         /\ remap((f + N) % IdxMod) = remap(f)
                         /\ \A k \in 0..N : (NextIdx(f) + k) % IdxMod = (f + k + 1) % IdxMod
                         /\ \A k \in 0..N : (f + k) % IdxMod \in 0..IdxMod - 1
<1> USE Sizes
<1>1. f + 1 \in 0..2 * IdxMod - 1 /\ f \in 0..2 * IdxMod - 1 /\ f + N \in 0..2 * IdxMod - 1
      /\ f \in Nat /\ N \in 0..N /\ N \in Nat \ {0} /\ 0..IdxMod - 1 \subseteq Nat
  OBVIOUS
<1>2. NextIdx(f) = IF f + 1 < IdxMod THEN f + 1 ELSE 0
  <2>1. PICK y \in 0..2 * IdxMod - 1 : y = f + 1 BY <1>1
  <2> QED BY <2>1, Wrapped DEF NextIdx
<1>3. f % IdxMod = f BY <1>1, WrapMod
<1>4. remap((f + N) % IdxMod) = remap(f)
  <2>1. (f + N) % IdxMod \in Nat /\ ((f + N) % IdxMod) % N = (f + N) % N
    BY ONLY <1>1, WrapMod, Zenon
  <2>2. (f + N) % N = f % N
    <3>1. f % N \in 0..N - 1
      <4>1. f \in Int /\ N \in Nat \ {0} OBVIOUS
      <4> QED BY ONLY <4>1, ModDef
    <3>2. (f + N) % N = IF (f % N) + N < N THEN (f % N) + N ELSE (f % N) + N - N
      BY ONLY <1>1, AddMod, Zenon
    <3> QED BY <3>1, <3>2
  <2> QED BY <2>1, <2>2, RemapInjective
<1>5. ASSUME NEW k \in 0..N
      PROVE  (NextIdx(f) + k) % IdxMod = (f + k + 1) % IdxMod
  <2>1. NextIdx(f) + k \in 0..2 * IdxMod - 1 /\ f + k + 1 \in 0..2 * IdxMod - 1 BY <1>2
  <2>2. PICK y \in 0..2 * IdxMod - 1 : y = NextIdx(f) + k BY <2>1
  <2>3. PICK z \in 0..2 * IdxMod - 1 : z = f + k + 1 BY <2>1
  <2>4. /\ y < IdxMod => (NextIdx(f) + k) % IdxMod = y
        /\ y >= IdxMod => (NextIdx(f) + k) % IdxMod = y - IdxMod
    BY <2>2, Wrapped
  <2>5. /\ z < IdxMod => (f + k + 1) % IdxMod = z
        /\ z >= IdxMod => (f + k + 1) % IdxMod = z - IdxMod
    BY <2>3, Wrapped
  <2> QED BY <2>2, <2>3, <2>4, <2>5, <1>2
<1>6. ASSUME NEW k \in 0..N PROVE (f + k) % IdxMod \in 0..IdxMod - 1
  <2>1. f + k \in 0..2 * IdxMod - 1 OBVIOUS
  <2> QED BY <2>1, WrapMod
<1> QED BY <1>2, <1>3, <1>4, <1>5, <1>6

\* How the positions relate to the counters in a typed state.
LEMMA Positions == ASSUME TypeOK
                   PROVE  /\ First \in 0..IdxMod - 1 /\ Last \in 0..IdxMod - 1
                          /\ Count \in 0..IdxMod - 1
                          /\ Last = (First + Count) % IdxMod
                          /\ \A k \in Nat : k < N => Slot(k) \in Slots
                          /\ Slot(0) = remap(First)
                          /\ Count <= N => Slot(Count) = remap(Last)
                          /\ \A i \in 0..IdxMod - 1 : remap(i) \in Slots
<1> USE Sizes
<1>1. First \in 0..IdxMod - 1 /\ Last \in 0..IdxMod - 1 BY RingStep DEF First, Last, TypeOK
<1>2. Count \in 0..IdxMod - 1 BY <1>1 DEF Count
<1>3. Last = (First + Count) % IdxMod
  <2>1. First + Count \in 0..2 * IdxMod - 1 BY <1>1, <1>2
  <2>2. PICK y \in 0..2 * IdxMod - 1 : y = First + Count BY <2>1
  <2>3. /\ y < IdxMod => (First + Count) % IdxMod = y
        /\ y >= IdxMod => (First + Count) % IdxMod = y - IdxMod
    BY <2>2, Wrapped
  <2> QED BY <2>2, <2>3, <1>1 DEF Count
<1>4. \A k \in Nat : k < N => Slot(k) \in Slots
  BY <1>1, RingStep, RemapInjective DEF Slot
<1>5. Slot(0) = remap(First)
  <2>1. First + 0 = First BY <1>1
  <2> QED BY <1>1, <2>1, RingStep DEF Slot
<1>6. Count <= N => Slot(Count) = remap(Last) BY <1>3 DEF Slot
<1>7. \A i \in 0..IdxMod - 1 : remap(i) \in Slots BY RemapInjective
<1> QED BY <1>1, <1>2, <1>3, <1>4, <1>5, <1>6, <1>7

-----------------------------------------------------------------------------
(* The invariants *)

\* The cleared ring is typed.
LEMMA InitTyped == Init => TypeOK
<1>1. 0 \in 0..IdxMod - 1 BY Sizes
<1> QED BY <1>1, Zenon DEF Init, TypeOK

\* The counters and program counters of the ring keep their types: the
\* type invariant of push(), pop(), full(), empty() and reset_unsafe().
THEOREM TypeCorrect == Spec => []TypeOK
<1>1. Init => TypeOK BY InitTyped
<1>2. TypeOK /\ [Next]_vars => TypeOK'
  <2> SUFFICES ASSUME TypeOK, [Next]_vars PROVE TypeOK'
    OBVIOUS
  <2> USE DEF TypeOK
  <2>0. NextIdx(write_idx_) \in 0..IdxMod - 1 /\ NextIdx(read_idx_) \in 0..IdxMod - 1
    BY RingStep
  <2>1. ASSUME NEW e \in Elem, PushLoad(e) PROVE TypeOK'
    BY <2>1 DEF PushLoad, consumer
  <2>2. CASE PushFails BY <2>2 DEF PushFails, consumer
  <2>3. CASE PushStore BY <2>3 DEF PushStore, consumer
  <2>4. CASE PushInc BY <2>4, <2>0 DEF PushInc, consumer
  <2>5. CASE Full BY <2>5 DEF Full, consumer
  <2>6. CASE PopLoad
    <3>1. buffer_[remap(read_idx_)] \in Elem \cup {nullptr} BY RemapInjective
    <3> QED BY <2>6, <3>1 DEF PopLoad, producer
  <2>7. CASE PopFails BY <2>7 DEF PopFails, producer
  <2>8. CASE PopClear BY <2>8 DEF PopClear, producer
  <2>9. CASE PopInc BY <2>9, <2>0 DEF PopInc, producer
  <2>10. CASE Empty BY <2>10 DEF Empty, producer
  <2>11. CASE ResetUnsafe
    <3>1. 0 \in 0..IdxMod - 1 BY Sizes
    <3>2. buffer_' \in [Slots -> Elem \cup {nullptr}] BY <2>11 DEF ResetUnsafe
    <3>3. room' \in BOOLEAN /\ some' \in BOOLEAN BY <2>11, Zenon DEF ResetUnsafe
    <3> QED BY <2>11, <3>1, <3>2, <3>3 DEF ResetUnsafe
  <2>12. CASE UNCHANGED vars BY <2>12 DEF vars, producer, consumer
  <2> QED BY <2>1, <2>2, <2>3, <2>4, <2>5, <2>6, <2>7, <2>8, <2>9, <2>10, <2>11, <2>12
          DEF Next, Producer, Consumer
<1> QED BY <1>1, <1>2, PTL DEF Spec

\* What check-then-act needs besides NoLostUpdate: the argument of a push
\* in progress is a pointer.
PushesPointer == ppc = "store" => elem \in Elem

StepInv == TypeOK /\ NoLostUpdate /\ HintsHold /\ PushesPointer

\* The step invariant is inductive: each thread only ever changes the slot
\* of the other in the direction that keeps what the other has seen true.
LEMMA StepInvNext == StepInv /\ TypeOK' /\ [Next]_vars => StepInv'
<1> SUFFICES ASSUME StepInv, TypeOK', [Next]_vars PROVE StepInv'
  OBVIOUS
<1> USE NullAssumption DEF StepInv, NoLostUpdate, HintsHold, PushesPointer
<1>0. remap(write_idx_) \in Slots /\ remap(read_idx_) \in Slots
  BY Positions DEF TypeOK
<1>1. ASSUME NEW e \in Elem, PushLoad(e) PROVE StepInv'
  BY <1>1 DEF PushLoad, consumer
<1>2. CASE PushFails BY <1>2 DEF PushFails, consumer
<1>3. CASE PushStore BY <1>3, <1>0 DEF PushStore, consumer, TypeOK
<1>4. CASE PushInc BY <1>4 DEF PushInc, consumer
<1>5. CASE Full BY <1>5 DEF Full, consumer
<1>6. CASE PopLoad BY <1>6 DEF PopLoad, producer
<1>7. CASE PopFails BY <1>7 DEF PopFails, producer
<1>8. CASE PopClear BY <1>8, <1>0 DEF PopClear, producer, TypeOK
<1>9. CASE PopInc BY <1>9 DEF PopInc, producer
<1>10. CASE Empty BY <1>10 DEF Empty, producer
<1>11. CASE ResetUnsafe BY <1>11 DEF ResetUnsafe
<1>12. CASE UNCHANGED vars BY <1>12 DEF vars, producer, consumer
<1> QED BY <1>1, <1>2, <1>3, <1>4, <1>5, <1>6, <1>7, <1>8, <1>9, <1>10, <1>11, <1>12
        DEF Next, Producer, Consumer

\* What each thread relies on between its check and its act always holds.
LEMMA StepInvCorrect == Spec => []StepInv
<1>1. Init => StepInv
  <2> QED BY InitTyped DEF Init, StepInv, NoLostUpdate, HintsHold, PushesPointer
<1> QED BY <1>1, StepInvNext, TypeCorrect, PTL DEF Spec

\* No push overwrites a queued pointer and no pop loses one, in any
\* interleaving of the two threads and for every ring size.
THEOREM CheckThenActSafe == Spec => []NoLostUpdate
BY StepInvCorrect, PTL DEF StepInv

\* The answers FALSE of full() and empty() stay true until the asking thread
\* acts on them.
THEOREM HintsStable == Spec => []HintsHold
BY StepInvCorrect, PTL DEF StepInv

-----------------------------------------------------------------------------
(* The ring invariant *)

RingInv == StepInv /\ Contiguous

\* The slot at the producer's position is empty exactly when there is room,
\* the one at the consumer's position is full exactly when something is
\* queued.
LEMMA Ends == ASSUME TypeOK, Contiguous
              PROVE  /\ buffer_[remap(Last)] = nullptr <=> Count < N
                     /\ buffer_[remap(First)] # nullptr <=> Count > 0
                     /\ Count \in 0..N
<1> USE Sizes
<1>1. /\ First \in 0..IdxMod - 1 /\ Count \in 0..IdxMod - 1
      /\ Slot(0) = remap(First) /\ (Count <= N => Slot(Count) = remap(Last))
  BY Positions
<1>2. Count \in 0..N BY <1>1 DEF Contiguous
<1>3. 0 \in 0..N - 1 OBVIOUS
<1>4. buffer_[remap(First)] # nullptr <=> 0 < Count BY <1>1, <1>3 DEF Contiguous
<1>5. CASE Count < N
  <2>1. Count \in 0..N - 1 BY <1>2, <1>5
  <2>2. buffer_[Slot(Count)] # nullptr <=> Count < Count BY <2>1 DEF Contiguous
  <2> QED BY <1>1, <1>2, <1>4, <1>5, <2>2
<1>6. CASE Count = N
  <2>1. Slot(N) = remap(First) BY <1>1, RingStep DEF Slot
  <2> QED BY <1>1, <1>2, <1>4, <1>6, <2>1
<1> QED BY <1>2, <1>5, <1>6

\* A push moves the end by one element, into the slot it saw empty.
LEMMA StoreMoves == ASSUME RingInv, PushStore, TypeOK'
                    PROVE  /\ First' = First /\ Count \in 0..N - 1 /\ Count' = Count + 1
                           /\ \A k \in 0..N - 1 :
                                 /\ Slot(k)' = Slot(k)
                                 /\ buffer_'[Slot(k)] = IF k = Count THEN elem
                                                        ELSE buffer_[Slot(k)]
<1> USE Sizes DEF RingInv, StepInv
<1>1. First' = First BY DEF PushStore, First, consumer
<1>2. Last = write_idx_ /\ Last' = NextIdx(Last) BY DEF PushStore, Last
<1>3. Count \in 0..N - 1
  <2>1. buffer_[remap(Last)] = nullptr BY <1>2 DEF PushStore, NoLostUpdate
  <2> QED BY <2>1, Ends
<1>4. /\ First \in 0..IdxMod - 1 /\ Last \in 0..IdxMod - 1
      /\ Slot(Count) = remap(Last)
      /\ \A k \in Nat : k < N => Slot(k) \in Slots
  BY <1>3, Positions
<1>5. Last' = IF Last + 1 < IdxMod THEN Last + 1 ELSE 0 BY <1>2, <1>4, RingStep
<1>6. Count' = Count + 1 BY <1>1, <1>3, <1>4, <1>5 DEF Count
<1>7. ASSUME NEW k \in 0..N - 1
      PROVE  /\ Slot(k)' = Slot(k)
             /\ buffer_'[Slot(k)] = IF k = Count THEN elem ELSE buffer_[Slot(k)]
  <2>1. Slot(k)' = Slot(k) BY <1>1 DEF Slot
  <2>2. buffer_' = [buffer_ EXCEPT ![Slot(Count)] = elem] BY <1>2, <1>4 DEF PushStore
  <2>3. Slot(k) \in Slots BY <1>4
  <2>4. Slot(k) = Slot(Count) => k = Count BY <1>3, <1>4, RingDistinct DEF Slot
  <2>5. buffer_ \in [Slots -> Elem \cup {nullptr}] BY DEF TypeOK
  <2> QED BY <2>1, <2>2, <2>3, <2>4, <2>5
<1> QED BY <1>1, <1>3, <1>6, <1>7

\* A pop moves the beginning by one element, and the slot it leaves becomes
\* the last one of the round.
LEMMA ClearMoves == ASSUME RingInv, PopClear, TypeOK'
                    PROVE  /\ Last' = Last /\ Count \in 1..N /\ Count' = Count - 1
                           /\ got = buffer_[Slot(0)]
                           /\ buffer_'[Slot(N - 1)'] = nullptr
                           /\ \A k \in 0..N - 2 :
                                 /\ Slot(k)' = Slot(k + 1)
                                 /\ buffer_'[Slot(k)'] = buffer_[Slot(k + 1)]
<1> USE Sizes DEF RingInv, StepInv
<1>1. Last' = Last BY DEF PopClear, Last, producer
<1>2. First = read_idx_ /\ First' = NextIdx(First) BY DEF PopClear, First
<1>3. Count \in 1..N /\ got = buffer_[remap(First)]
  <2>1. buffer_[remap(First)] = got /\ got # nullptr BY <1>2 DEF PopClear, NoLostUpdate
  <2> QED BY <2>1, Ends
<1>4. /\ First \in 0..IdxMod - 1 /\ Last \in 0..IdxMod - 1
      /\ Slot(0) = remap(First)
      /\ \A k \in Nat : k < N => Slot(k) \in Slots
  BY Positions
<1>5. First' = IF First + 1 < IdxMod THEN First + 1 ELSE 0 BY <1>2, <1>4, RingStep
<1>6. Count' = Count - 1 BY <1>1, <1>3, <1>4, <1>5 DEF Count
<1>7. ASSUME NEW k \in 0..N - 1 PROVE Slot(k)' = remap((First + (k + 1)) % IdxMod)
  <2>1. (NextIdx(First) + k) % IdxMod = (First + k + 1) % IdxMod BY <1>4, RingStep
  <2>2. First + k + 1 = First + (k + 1) BY <1>4
  <2> QED BY <2>1, <2>2, <1>2 DEF Slot
<1>8. buffer_' = [buffer_ EXCEPT ![Slot(0)] = nullptr] BY <1>2, <1>4 DEF PopClear
<1>9. buffer_ \in [Slots -> Elem \cup {nullptr}] BY DEF TypeOK
<1>10. buffer_'[Slot(N - 1)'] = nullptr
  <2>1. N - 1 \in 0..N - 1 /\ (N - 1) + 1 = N OBVIOUS
  <2>2. Slot(N - 1)' = remap((First + N) % IdxMod) BY <1>7, <2>1
  <2>3. Slot(N - 1)' = Slot(0) BY <2>2, <1>4, RingStep
  <2> QED BY <2>3, <1>4, <1>8, <1>9
<1>11. ASSUME NEW k \in 0..N - 2
       PROVE  /\ Slot(k)' = Slot(k + 1)
              /\ buffer_'[Slot(k)'] = buffer_[Slot(k + 1)]
  <2>1. k \in 0..N - 1 /\ k + 1 \in 0..N - 1 /\ 0 \in 0..N - 1 /\ k + 1 # 0 OBVIOUS
  <2>2. Slot(k)' = Slot(k + 1) BY <1>7, <2>1 DEF Slot
  <2>3. Slot(k + 1) # Slot(0)
    <3>1. PICK j \in 0..N - 1 : j = k + 1 BY <2>1
    <3>2. Slot(j) = Slot(0) => j = 0 BY <2>1, <1>4, RingDistinct DEF Slot
    <3> QED BY <3>1, <3>2, <2>1
  <2>4. Slot(k + 1) \in Slots BY <1>4, <2>1
  <2> QED BY <2>2, <2>3, <2>4, <1>8, <1>9
<1> QED BY <1>1, <1>3, <1>4, <1>6, <1>10, <1>11

\* Steps that change no slot and complete no operation leave the abstract
\* contents where they are.
LEMMA Still == ASSUME TypeOK, buffer_' = buffer_, First' = First, Last' = Last
               PROVE  Count' = Count /\ Contents' = Contents
                      /\ (Contiguous => Contiguous')
<1>1. Count' = Count BY DEF Count
<1>2. \A k \in Int : Slot(k)' = Slot(k) BY DEF Slot
<1>3. Contents' = Contents BY <1>1, <1>2 DEF Contents
<1>4. Contiguous => Contiguous'
  <2> SUFFICES ASSUME Contiguous PROVE Contiguous' OBVIOUS
  <2> QED BY <1>1, <1>2 DEF Contiguous
<1> QED BY <1>1, <1>3, <1>4

\* The steps meant by the lemma above.
QuietStep == \/ \E e \in Elem : PushLoad(e)
             \/ PushFails \/ PushInc \/ Full
             \/ PopLoad \/ PopFails \/ PopInc \/ Empty
             \/ UNCHANGED vars

\* The steps that touch no slot leave the ends of the contents where they are.
LEMMA QuietSteps == QuietStep => buffer_' = buffer_ /\ First' = First /\ Last' = Last
<1>1. ASSUME NEW e \in Elem, PushLoad(e) PROVE buffer_' = buffer_ /\ First' = First /\ Last' = Last
  BY <1>1 DEF PushLoad, consumer, First, Last
<1>2. PushFails => buffer_' = buffer_ /\ First' = First /\ Last' = Last
  BY DEF PushFails, consumer, First, Last
<1>3. PushInc => buffer_' = buffer_ /\ First' = First /\ Last' = Last
  BY DEF PushInc, consumer, First, Last
<1>4. Full => buffer_' = buffer_ /\ First' = First /\ Last' = Last
  BY DEF Full, consumer, First, Last
<1>5. PopLoad => buffer_' = buffer_ /\ First' = First /\ Last' = Last
  BY DEF PopLoad, producer, First, Last
<1>6. PopFails => buffer_' = buffer_ /\ First' = First /\ Last' = Last
  BY DEF PopFails, producer, First, Last
<1>7. PopInc => buffer_' = buffer_ /\ First' = First /\ Last' = Last
  BY DEF PopInc, producer, First, Last
<1>8. Empty => buffer_' = buffer_ /\ First' = First /\ Last' = Last
  BY DEF Empty, producer, First, Last
<1>9. UNCHANGED vars => buffer_' = buffer_ /\ First' = First /\ Last' = Last
  BY DEF vars, producer, consumer, First, Last
<1> QED BY <1>1, <1>2, <1>3, <1>4, <1>5, <1>6, <1>7, <1>8, <1>9 DEF QuietStep

\* A cleared ring with both indices at zero is contiguous and empty.
LEMMA ClearedRing == ASSUME buffer_ = [s \in Slots |-> nullptr], read_idx_ = 0, write_idx_ = 0,
                            cpc = "idle", ppc = "idle", TypeOK
                     PROVE  Contiguous /\ Count = 0 /\ Contents = <<>>
<1> USE Sizes
<1>1. Count = 0 BY DEF Count, First, Last
<1>2. \A k \in 0..N - 1 : Slot(k) \in Slots BY Positions
<1>3. Contiguous BY <1>1, <1>2 DEF Contiguous
<1>4. Contents = <<>> BY <1>1 DEF Contents
<1> QED BY <1>1, <1>3, <1>4

\* The ring invariant is inductive.
LEMMA ContiguousNext == RingInv /\ TypeOK' /\ [Next]_vars => Contiguous'
<1> SUFFICES ASSUME RingInv, TypeOK', [Next]_vars PROVE Contiguous'
  OBVIOUS
<1> USE Sizes
<1>0. TypeOK /\ Contiguous BY DEF RingInv, StepInv
<1>1. CASE QuietStep BY <1>0, <1>1, QuietSteps, Still
<1>2. CASE PushStore
  <2>1. /\ Count \in 0..N - 1 /\ Count' = Count + 1
        /\ \A k \in 0..N - 1 :
              /\ Slot(k)' = Slot(k)
              /\ buffer_'[Slot(k)] = IF k = Count THEN elem ELSE buffer_[Slot(k)]
    BY <1>2, StoreMoves
  <2>2. elem # nullptr
    BY <1>2, NullAssumption DEF RingInv, StepInv, PushesPointer, PushStore
  <2>3. \A k \in 0..N - 1 : buffer_[Slot(k)] # nullptr <=> k < Count BY <1>0 DEF Contiguous
  <2>4. \A k \in 0..N - 1 : buffer_'[Slot(k)'] # nullptr <=> k < Count'
    BY <2>1, <2>2, <2>3
  <2>5. Count' <= N BY <2>1
  <2> QED BY <2>4, <2>5 DEF Contiguous
<1>3. CASE PopClear
  <2>1. /\ Count \in 1..N /\ Count' = Count - 1
        /\ buffer_'[Slot(N - 1)'] = nullptr
        /\ \A k \in 0..N - 2 : buffer_'[Slot(k)'] = buffer_[Slot(k + 1)]
    BY <1>3, ClearMoves
  <2>2. \A k \in 0..N - 1 : buffer_[Slot(k)] # nullptr <=> k < Count BY <1>0 DEF Contiguous
  <2>3. ASSUME NEW k \in 0..N - 1 PROVE buffer_'[Slot(k)'] # nullptr <=> k < Count'
    <3>1. CASE k = N - 1 BY <2>1, <3>1
    <3>2. CASE k # N - 1
      <4>1. PICK j \in 0..N - 1 : j = k + 1 BY <3>2
      <4>2. k \in 0..N - 2 BY <3>2
      <4>3. buffer_[Slot(j)] # nullptr <=> j < Count BY <2>2
      <4> QED BY <2>1, <4>1, <4>2, <4>3
    <3> QED BY <3>1, <3>2
  <2>4. Count' <= N BY <2>1
  <2> QED BY <2>3, <2>4 DEF Contiguous
<1>4. CASE ResetUnsafe
  <2>1. /\ buffer_' = [s \in Slots |-> nullptr] /\ read_idx_' = 0 /\ write_idx_' = 0
        /\ cpc' = "idle" /\ ppc' = "idle"
    BY <1>4 DEF ResetUnsafe
  <2>2. Count' = 0 BY <2>1 DEF Count, First, Last
  <2>3. \A k \in 0..N - 1 : Slot(k)' \in Slots
    BY <2>1, RingStep, RemapInjective DEF Slot, First
  <2> QED BY <2>1, <2>2, <2>3 DEF Contiguous
<1> QED BY <1>1, <1>2, <1>3, <1>4 DEF Next, Producer, Consumer, QuietStep

\* The ring invariant holds in every reachable state.
LEMMA RingInvCorrect == Spec => []RingInv
<1>1. Init => Contiguous
  <2> SUFFICES ASSUME Init PROVE Contiguous OBVIOUS
  <2>1. TypeOK BY InitTyped
  <2> QED BY <2>1, ClearedRing DEF Init
<1>2. Contiguous /\ StepInv /\ TypeOK' /\ [Next]_vars => Contiguous'
  BY ContiguousNext DEF RingInv
<1> QED BY <1>1, <1>2, StepInvCorrect, TypeCorrect, PTL DEF Spec, RingInv

\* The occupied slots are exactly those from the oldest element on, also
\* across the wrap of size_t.
THEOREM RingContiguous == Spec => []Contiguous
BY RingInvCorrect, PTL DEF RingInv

-----------------------------------------------------------------------------
(* Refinement *)

\* The contents are a sequence of Count pointers.
IsContents == /\ Contents \in Seq(Elem) /\ Len(Contents) = Count
              /\ \A k \in 1..Count : Contents[k] = buffer_[Slot(k - 1)]

\* In a contiguous ring the contents are a sequence of pointers.
LEMMA ContentsSeq == TypeOK /\ Contiguous => IsContents
<1> SUFFICES ASSUME TypeOK, Contiguous PROVE IsContents
  OBVIOUS
<1> USE Sizes
<1>1. Count \in 0..N BY Ends
<1>2. ASSUME NEW k \in 1..Count PROVE buffer_[Slot(k - 1)] \in Elem
  <2>1. PICK j \in 0..N - 1 : j = k - 1 BY <1>1
  <2>2. buffer_[Slot(j)] # nullptr BY <1>1, <2>1 DEF Contiguous
  <2>3. Slot(j) \in Slots BY Positions
  <2>4. buffer_[Slot(j)] \in Elem BY <2>2, <2>3 DEF TypeOK
  <2> QED BY <2>1, <2>4
<1>3. Contents \in [1..Count -> Elem] BY <1>2 DEF Contents
<1> QED BY <1>1, <1>3 DEF Contents, IsContents

\* Every step of the ring is a step of the bounded FIFO or leaves it alone.
LEMMA NextRefines == RingInv /\ RingInv' /\ [Next]_vars => [Queue!Next]_(Queue!vars)
<1> SUFFICES ASSUME RingInv, RingInv', [Next]_vars PROVE [Queue!Next]_(Queue!vars)
  OBVIOUS
<1> USE Sizes
<1>0. TypeOK /\ Contiguous /\ TypeOK' /\ Contiguous' BY DEF RingInv, StepInv
<1>1. /\ Contents \in Seq(Elem) /\ Len(Contents) = Count
      /\ \A k \in 1..Count : Contents[k] = buffer_[Slot(k - 1)]
  BY <1>0, ContentsSeq DEF IsContents
<1>2. /\ Contents' \in Seq(Elem) /\ Len(Contents') = Count'
      /\ \A k \in 1..Count' : Contents'[k] = buffer_'[Slot(k - 1)']
  <2>1. TypeOK' /\ Contiguous' => IsContents' BY ContentsSeq, PTL
  <2> QED BY <1>0, <2>1 DEF IsContents
<1>3. Count \in 0..N BY <1>0, Ends
<1>4. CASE QuietStep
  <2>1. Contents' = Contents BY <1>0, <1>4, QuietSteps, Still
  <2>2. CASE PushFails
    <3>1. buffer_[remap(Last)] # nullptr BY <2>2 DEF PushFails, Last
    <3>2. Count = N BY <3>1, <1>0, <1>3, Ends
    <3> QED BY <2>1, <2>2, <3>2, <1>1 DEF PushFails, consumer, Queue!Next, Queue!PushFails
  <2>3. CASE PopFails
    <3>1. buffer_[remap(First)] = nullptr BY <2>3 DEF PopFails, First
    <3>2. Count = 0 BY <3>1, <1>0, <1>3, Ends
    <3>3. Contents = <<>> BY <3>2, <1>1
    <3> QED BY <2>1, <2>3, <3>3 DEF PopFails, producer, Queue!Next, Queue!PopFails
  <2>4. CASE ~PushFails /\ ~PopFails
    <3>1. pushed' = pushed /\ out' = out
      BY <1>4, <2>4 DEF QuietStep, PushLoad, PushInc, Full, PopLoad, PopInc, Empty,
                        vars, producer, consumer
    <3> QED BY <2>1, <3>1 DEF Queue!vars
  <2> QED BY <2>2, <2>3, <2>4
<1>5. CASE PushStore
  <2>1. /\ Count \in 0..N - 1 /\ Count' = Count + 1
        /\ \A k \in 0..N - 1 :
              /\ Slot(k)' = Slot(k)
              /\ buffer_'[Slot(k)] = IF k = Count THEN elem ELSE buffer_[Slot(k)]
    BY <1>5, <1>0, StoreMoves
  <2>2. elem \in Elem
    BY <1>5 DEF RingInv, StepInv, PushesPointer, PushStore
  <2>3. /\ Append(Contents, elem) \in Seq(Elem)
        /\ Len(Append(Contents, elem)) = Count + 1
        /\ \A k \in 1..Count + 1 : Append(Contents, elem)[k] = IF k = Count + 1 THEN elem
                                                              ELSE Contents[k]
    BY <1>1, <2>2, <1>3
  <2>4. ASSUME NEW k \in 1..Count + 1 PROVE Contents'[k] = Append(Contents, elem)[k]
    <3>1. PICK j \in 0..N - 1 : j = k - 1 BY <2>1
    <3>2. Contents'[k] = buffer_'[Slot(j)'] BY <1>2, <2>1, <3>1
    <3>3. CASE j = Count BY <3>1, <3>2, <3>3, <2>1, <2>3
    <3>4. CASE j # Count
      <4>1. k \in 1..Count /\ k # Count + 1 BY <3>1, <3>4, <2>1
      <4>2. Contents[k] = buffer_[Slot(j)] BY <4>1, <1>1, <3>1
      <4>3. Append(Contents, elem)[k] = Contents[k] BY <4>1, <2>3
      <4> QED BY <3>2, <3>4, <4>2, <4>3, <2>1
    <3> QED BY <3>3, <3>4
  <2>5. Contents' = Append(Contents, elem)
    BY <2>1, <2>3, <2>4, <1>2, SeqEqual
  <2>6. Len(Contents) < N BY <1>1, <2>1
  <2>7. Queue!Push(elem) BY <1>5, <2>5, <2>6 DEF Queue!Push, PushStore, consumer
  <2> QED BY <2>2, <2>7 DEF Queue!Next
<1>6. CASE PopClear
  <2>1. /\ Count \in 1..N /\ Count' = Count - 1 /\ got = buffer_[Slot(0)]
        /\ \A k \in 0..N - 2 : buffer_'[Slot(k)'] = buffer_[Slot(k + 1)]
    BY <1>6, <1>0, ClearMoves
  <2>2. Contents # <<>> /\ Head(Contents) = Contents[1] BY <1>1, <2>1
  <2>3. Contents[1] = got
    <3>1. 1 \in 1..Count /\ 1 - 1 = 0 BY <2>1
    <3> QED BY <3>1, <1>1, <2>1
  <2>4. /\ Tail(Contents) \in Seq(Elem) /\ Len(Tail(Contents)) = Count - 1
        /\ \A k \in 1..Count - 1 : Tail(Contents)[k] = Contents[k + 1]
    BY <1>1, <2>1, <2>2
  <2>5. ASSUME NEW k \in 1..Count - 1 PROVE Contents'[k] = Tail(Contents)[k]
    <3>1. PICK j \in 0..N - 2 : j = k - 1 BY <2>1
    <3>2. PICK m \in 1..Count : m = k + 1 BY <2>1
    <3>3. Contents'[k] = buffer_'[Slot(j)'] BY <1>2, <2>1, <3>1
    <3>4. j + 1 = m - 1 BY <3>1, <3>2
    <3>5. Contents[m] = buffer_[Slot(m - 1)] BY <1>1
    <3>6. buffer_'[Slot(j)'] = buffer_[Slot(j + 1)] BY <2>1
    <3> QED BY <3>2, <3>3, <3>4, <3>5, <3>6, <2>4
  <2>6. Contents' = Tail(Contents) BY <2>1, <2>4, <2>5, <1>2, SeqEqual
  <2>7. Queue!Pop BY <1>6, <2>2, <2>3, <2>6 DEF Queue!Pop, PopClear, producer
  <2> QED BY <2>7 DEF Queue!Next
<1>7. CASE ResetUnsafe
  <2>1. Count' = 0 BY <1>7 DEF ResetUnsafe, Count, First, Last
  <2>2. Contents' = <<>> BY <2>1, <1>2
  <2> QED BY <1>7, <2>2 DEF ResetUnsafe, Queue!Next, Queue!Reset
<1> QED BY <1>4, <1>5, <1>6, <1>7 DEF Next, Producer, Consumer, QuietStep

\* CustomSpscQueue implements a bounded FIFO of exactly N pointers, for every
\* ring size and every width of size_t: no pointer is lost, duplicated or
\* reordered, push() fails only on a full queue and pop() only on an empty one.
THEOREM Refinement == Spec => ImplementsFifo
<1>1. Init => Queue!Init
  <2> SUFFICES ASSUME Init PROVE Queue!Init OBVIOUS
  <2>1. TypeOK BY InitTyped
  <2>2. Contents = <<>> BY <2>1, ClearedRing DEF Init
  <2> QED BY <2>2 DEF Init, Queue!Init
<1> QED BY <1>1, NextRefines, RingInvCorrect, PTL DEF Spec, ImplementsFifo, Queue!Spec
=============================================================================
