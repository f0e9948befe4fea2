-------------------- MODULE ConcurrentFixedFlatMapProofs --------------------
(***************************************************************************)
(* Proofs about ConcurrentFixedFlatMap, for every number of slots, every   *)
(* set of keys, every hash function and every width of size_t.             *)
(***************************************************************************)
EXTENDS ConcurrentFixedFlatMap, Lemmas, FiniteSetTheorems, TLAPS

\* The slot a probe for key k looks at in its round j.
PathSlot(k, j) == IF Hash[k] + j < N THEN Hash[k] + j ELSE Hash[k] + j - N

Inserting == {"probe", "key", "value", "publish"}

\* The builder probes along the path of its key, and a slot that it has not
\* looked at yet is Empty.  The slot it fills stays Empty until it publishes.
WriterInv ==
    /\ w.pc # "exhausted"
    /\ w.pc \in Inserting => w.key \in Key
    /\ w.pc = "probe" => /\ w.i < N /\ w.at = PathSlot(w.key, w.i)
                         /\ \E j \in w.i..N - 1 : slots_[PathSlot(w.key, j)].state_ = "Empty"
    /\ w.pc \in {"key", "value", "publish"} => slots_[w.at].state_ = "Empty"
    /\ w.pc \in {"value", "publish"} => slots_[w.at].key_ = w.key
    /\ w.pc = "publish" => slots_[w.at].value_ = w.key

\* Slot s is Valid and has key k.
Has(s, k) == slots_[s].state_ = "Valid" /\ slots_[s].key_ = k

\* The store thread probes along the path of its key, and an entry that was
\* there when it began is in a slot that it has not passed.  A slot it works
\* on stays Valid.
ReaderInv ==
    /\ r.pc \in {"probe", "compare"} =>
          /\ r.key \in Key /\ r.op \in {"find", "erase"}
          /\ r.i < N /\ r.at = PathSlot(r.key, r.i)
          /\ r.had => \E j \in r.i..N - 1 : Has(PathSlot(r.key, j), r.key)
    /\ r.pc \in {"compare", "find", "erase"} => slots_[r.at].state_ = "Valid"
    /\ r.pc \in {"find", "erase"} => slots_[r.at].key_ = r.key
    /\ r.pc = "missed" => ~r.had

\* A Valid slot is whole.
WholeInv == \A s \in Slots : slots_[s].state_ = "Valid" => slots_[s].value_ = slots_[s].key_

ErasePending == IF r.pc = "size" THEN 1 ELSE 0
InsertPending == IF w.pc = "size" THEN 1 ELSE 0
Reserved == IF w.pc \in Inserting THEN 1 ELSE 0

\* size_ is the number of entries, corrected by what the two threads have
\* still to count, modulo the width of size_t; and an insert under way has a
\* free slot reserved besides the one that is always Empty.
SizeInv ==
    /\ size_ = (Cardinality(ValidSlots) + ErasePending - InsertPending) % SizeMod
    /\ Cardinality(ValidSlots) + ErasePending + Reserved <= max_load

\* The inductive invariant.
IInv == TypeOK /\ WriterInv /\ ReaderInv /\ WholeInv /\ SizeInv

-----------------------------------------------------------------------------
(* The probe path *)

\* A path begins at the hash, stays in the table, and one step along it is
\* one step of Advance.
LEMMA PathStep ==
    ASSUME NEW k \in Key
    PROVE  /\ PathSlot(k, 0) = Hash[k]
           /\ \A j \in 0..N - 1 : PathSlot(k, j) \in Slots
           /\ \A j \in 0..N - 1 : j + 1 < N => (PathSlot(k, j) + 1) % N = PathSlot(k, j + 1)
<1> USE TableAssumption
<1>1. Hash[k] \in 0..N - 1 OBVIOUS
<1>2. ASSUME NEW j \in 0..N - 1, j + 1 < N
      PROVE  (PathSlot(k, j) + 1) % N = PathSlot(k, j + 1)
  <2> DEFINE x == PathSlot(k, j) + 1
  <2>1. x \in Int /\ 0 <= x /\ x < 2 * N BY <1>1 DEF PathSlot
  <2>2. x % N = IF x < N THEN x ELSE x - N
    <3> HIDE DEF x
    <3>1. CASE x < N BY <2>1, <3>1, ModRound
    <3>2. CASE N <= x BY <2>1, <3>2, ModRound
    <3> QED BY <2>1, <3>1, <3>2
  <2> QED BY <2>2, <1>1, <1>2 DEF PathSlot
<1> QED BY <1>1, <1>2 DEF PathSlot, Slots

\* The path reaches every slot within N steps.
LEMMA PathCovers ==
    ASSUME NEW k \in Key, NEW s \in Slots
    PROVE  \E j \in 0..N - 1 : PathSlot(k, j) = s
<1> USE TableAssumption
<1>1. Hash[k] \in 0..N - 1 OBVIOUS
<1>2. CASE s >= Hash[k]
  <2>1. s - Hash[k] \in 0..N - 1 /\ PathSlot(k, s - Hash[k]) = s BY <1>1, <1>2 DEF PathSlot, Slots
  <2> QED BY <2>1
<1>3. CASE s < Hash[k]
  <2>1. s - Hash[k] + N \in 0..N - 1 /\ PathSlot(k, s - Hash[k] + N) = s BY <1>1, <1>3 DEF PathSlot, Slots
  <2> QED BY <2>1
<1> QED BY <1>1, <1>2, <1>3 DEF Slots

\* There are finitely many slots, N in all.
LEMMA SlotsFinite ==
    /\ IsFiniteSet(Slots) /\ Cardinality(Slots) = N
    /\ IsFiniteSet(ValidSlots) /\ Cardinality(ValidSlots) \in Nat
    /\ Cardinality(ValidSlots) < N => \E s \in Slots : slots_[s].state_ # "Valid"
<1> USE TableAssumption
<1>1. IsFiniteSet(Slots) /\ Cardinality(Slots) = N BY FS_Interval DEF Slots
<1>2. IsFiniteSet(ValidSlots) BY <1>1, FS_Subset DEF ValidSlots
<1>3. Cardinality(ValidSlots) \in Nat BY <1>2, FS_CardinalityType
<1>4. ASSUME \A s \in Slots : slots_[s].state_ = "Valid" PROVE Cardinality(ValidSlots) = N
  <2>1. ValidSlots = Slots BY <1>4 DEF ValidSlots
  <2> QED BY <2>1, <1>1
<1> QED BY <1>1, <1>2, <1>3, <1>4

-----------------------------------------------------------------------------
(* Type correctness *)

\* What Advance leaves has the types it found.
LEMMA AdvanceType ==
    ASSUME NEW a \in Slots, NEW i \in 0..N, i < N
    PROVE  (a + 1) % N \in Slots /\ i + 1 \in 0..N
  BY TableAssumption, ModDef DEF Slots

LEMMA TypeInit == Init => TypeOK
  BY TableAssumption DEF Init, TypeOK, EmptySlot, WriterIdle, ReaderIdle, Slots

LEMMA TypeNext == TypeOK /\ WriterInv /\ ReaderInv /\ [Next]_vars => TypeOK'
<1> SUFFICES ASSUME TypeOK, WriterInv, ReaderInv, [Next]_vars PROVE TypeOK'
    OBVIOUS
<1> USE TableAssumption DEF TypeOK
<1>1. ASSUME NEW k \in Key, InsertRefused(k) PROVE TypeOK'
  <2>1. w' = [pc |-> "refused", key |-> k, at |-> 0, i |-> 0] BY <1>1 DEF InsertRefused, WriterIdle
  <2> QED BY <1>1, <2>1 DEF InsertRefused, Slots
<1>2. ASSUME NEW k \in Key, InsertBegin(k) PROVE TypeOK'
      BY <1>2 DEF InsertBegin, Slots
<1>3. CASE InsertProbe
      BY <1>3, AdvanceType DEF InsertProbe, Advance, WriterInv
<1>4. CASE WriteKey
      BY <1>4 DEF WriteKey, WriterInv, Inserting
<1>5. CASE WriteValue
      BY <1>5 DEF WriteValue, WriterInv, Inserting
<1>6. CASE Publish
      BY <1>6 DEF Publish
<1>7. CASE IncSize
  <2>1. size_' \in 0..SizeMod - 1 BY <1>7, ModDef DEF IncSize
  <2> QED BY <1>7, <2>1 DEF IncSize, WriterIdle, Slots
<1>8. CASE RefusedReturn
      BY <1>8 DEF RefusedReturn, WriterIdle, Slots
<1>9. ASSUME NEW k \in Key, NEW op \in {"find", "erase"}, Begin(op, k) PROVE TypeOK'
  <2>1. Holds(k) \in BOOLEAN BY DEF Holds
  <2> QED BY <1>9, <2>1 DEF Begin, Slots
<1>10. CASE ProbeState
      BY <1>10, AdvanceType DEF ProbeState, Advance, ReaderInv
<1>11. CASE ProbeKey
      BY <1>11, AdvanceType DEF ProbeKey, Advance, ReaderInv
<1>12. CASE FindReturn
      BY <1>12 DEF FindReturn, ReaderIdle, Slots
<1>13. CASE EraseSlot
      BY <1>13 DEF EraseSlot
<1>14. CASE DecSize
  <2>1. size_' \in 0..SizeMod - 1 BY <1>14, ModDef DEF DecSize
  <2> QED BY <1>14, <2>1 DEF DecSize, ReaderIdle, Slots
<1>15. CASE Clear
      BY <1>15 DEF Clear
<1>16. CASE UNCHANGED vars
      BY <1>16 DEF vars
<1> QED BY <1>1, <1>2, <1>3, <1>4, <1>5, <1>6, <1>7, <1>8, <1>9, <1>10, <1>11, <1>12, <1>13,
           <1>14, <1>15, <1>16 DEF Next, Insert, Lookup

-----------------------------------------------------------------------------
(* The builder thread *)

\* Entries are whole before and after every step: the fields are written only
\* while their slot is Empty.
LEMMA WholeNext == TypeOK /\ WriterInv /\ WholeInv /\ [Next]_vars => WholeInv'
<1> SUFFICES ASSUME TypeOK, WriterInv, WholeInv, [Next]_vars PROVE WholeInv'
    OBVIOUS
<1> USE DEF WholeInv
<1>1. CASE WriteKey
      BY <1>1 DEF WriteKey, WriterInv, TypeOK
<1>2. CASE WriteValue
      BY <1>2 DEF WriteValue, WriterInv, TypeOK
<1>3. CASE Publish
      BY <1>3 DEF Publish, WriterInv, TypeOK
<1>4. CASE EraseSlot
      BY <1>4 DEF EraseSlot, TypeOK
<1>5. CASE Clear
      BY <1>5 DEF Clear, TypeOK
<1>6. CASE UNCHANGED slots_
      BY <1>6
<1> QED BY <1>1, <1>2, <1>3, <1>4, <1>5, <1>6
        DEF Next, Insert, Lookup, vars, InsertRefused, InsertBegin, InsertProbe, IncSize, RefusedReturn,
            Begin, ProbeState, ProbeKey, FindReturn, DecSize

\* Slots only become Empty under the builder: what it has seen Empty it can fill.
LEMMA WriterNext == IInv /\ [Next]_vars => WriterInv'
<1> SUFFICES ASSUME IInv, [Next]_vars PROVE WriterInv'
    OBVIOUS
<1> USE TableAssumption DEF IInv
<1>1. ASSUME NEW k \in Key, InsertRefused(k) PROVE WriterInv'
      BY <1>1 DEF InsertRefused, WriterIdle, WriterInv, Inserting
<1>2. ASSUME NEW k \in Key, InsertBegin(k) PROVE WriterInv'
  <2>1. Cardinality(ValidSlots) < N
        BY SlotsFinite DEF SizeInv, ErasePending, Reserved, max_load
  <2>2. PICK s \in Slots : slots_[s].state_ # "Valid"
        BY <2>1, SlotsFinite
  <2>3. slots_[s].state_ = "Empty"
        BY <2>2 DEF TypeOK
  <2>4. \E j \in 0..N - 1 : slots_[PathSlot(k, j)].state_ = "Empty"
        BY <2>3, PathCovers
  <2>5. /\ w' = [pc |-> "probe", key |-> k, at |-> Hash[k], i |-> 0] /\ slots_' = slots_
        /\ PathSlot(k, 0) = Hash[k]
        BY <1>2, PathStep DEF InsertBegin
  <2> QED BY <2>4, <2>5 DEF WriterInv, Inserting, PathSlot
<1>3. CASE InsertProbe
  <2>1. w.pc = "probe" /\ w.key \in Key /\ w.i \in 0..N - 1 /\ w.at = PathSlot(w.key, w.i) /\ slots_' = slots_
        BY <1>3 DEF InsertProbe, WriterInv, Inserting, TypeOK
  <2>2. CASE slots_[w.at].state_ = "Empty"
    <3>1. w' = [w EXCEPT !.pc = "key"] BY <1>3, <2>2 DEF InsertProbe
    <3>2. w'.pc = "key" /\ w'.key = w.key /\ w'.at = w.at BY <3>1 DEF TypeOK
    <3> QED BY <2>1, <2>2, <3>2 DEF WriterInv, Inserting
  <2>3. CASE slots_[w.at].state_ # "Empty"
    <3>1. PICK j \in w.i..N - 1 : slots_[PathSlot(w.key, j)].state_ = "Empty"
          BY <2>1 DEF WriterInv
    <3>2. j # w.i /\ j \in w.i + 1..N - 1 /\ w.i + 1 < N
          BY <2>1, <2>3, <3>1
    <3>3. w' = Advance(w, "probe", "exhausted")
          BY <1>3, <2>3 DEF InsertProbe
    <3>4. w'.key = w.key /\ w'.i = w.i + 1 /\ w'.pc = "probe" /\ w'.at = (w.at + 1) % N
          BY <2>1, <3>2, <3>3 DEF Advance, TypeOK
    <3>5. w'.at = PathSlot(w.key, w.i + 1)
          BY <2>1, <3>2, <3>4, PathStep
    <3> QED BY <2>1, <3>1, <3>2, <3>4, <3>5 DEF WriterInv, Inserting, PathSlot
  <2> QED BY <2>2, <2>3
<1>4. CASE WriteKey
      BY <1>4 DEF WriteKey, WriterInv, Inserting, TypeOK
<1>5. CASE WriteValue
      BY <1>5 DEF WriteValue, WriterInv, Inserting, TypeOK
<1>6. CASE Publish
      BY <1>6 DEF Publish, WriterInv, Inserting, TypeOK
<1>7. CASE IncSize
      BY <1>7 DEF IncSize, WriterInv, Inserting, WriterIdle
<1>8. CASE RefusedReturn
      BY <1>8 DEF RefusedReturn, WriterInv, Inserting, WriterIdle
<1>9. CASE EraseSlot
  <2>1. w' = w /\ \A s \in Slots : /\ slots_[s].state_ = "Empty" => slots_'[s].state_ = "Empty"
                                   /\ slots_'[s].key_ = slots_[s].key_ /\ slots_'[s].value_ = slots_[s].value_
        BY <1>9 DEF EraseSlot, TypeOK
  <2>2. w.pc = "probe" => \E j \in w.i..N - 1 : slots_'[PathSlot(w.key, j)].state_ = "Empty"
    <3> SUFFICES ASSUME w.pc = "probe" PROVE \E j \in w.i..N - 1 : slots_'[PathSlot(w.key, j)].state_ = "Empty"
        OBVIOUS
    <3>1. PICK j \in w.i..N - 1 : slots_[PathSlot(w.key, j)].state_ = "Empty"
          BY DEF WriterInv
    <3>2. PathSlot(w.key, j) \in Slots
          BY PathStep DEF WriterInv, Inserting, TypeOK
    <3> QED BY <2>1, <3>1, <3>2
  <2>3. w.at \in Slots BY DEF TypeOK
  <2> QED BY <2>1, <2>2, <2>3 DEF WriterInv, Inserting, PathSlot
<1>10. CASE Clear
      BY <1>10 DEF Clear, WriterInv, Inserting
<1>11. CASE UNCHANGED <<slots_, w>>
      BY <1>11 DEF WriterInv, Inserting, PathSlot
<1> QED BY <1>1, <1>2, <1>3, <1>4, <1>5, <1>6, <1>7, <1>8, <1>9, <1>10, <1>11
        DEF Next, Insert, Lookup, vars, Begin, ProbeState, ProbeKey, FindReturn, DecSize

-----------------------------------------------------------------------------
(* The store thread *)

\* What the builder does to the table leaves Valid slots as they are.
LEMMA ValidStays ==
    ASSUME TypeOK, WriterInv, Insert
    PROVE  \A s \in Slots : slots_[s].state_ = "Valid" => slots_'[s] = slots_[s]
<1>1. CASE UNCHANGED slots_
      BY <1>1
<1>2. CASE WriteKey
      BY <1>2 DEF WriteKey, WriterInv, TypeOK
<1>3. CASE WriteValue
      BY <1>3 DEF WriteValue, WriterInv, TypeOK
<1>4. CASE Publish
      BY <1>4 DEF Publish, WriterInv, TypeOK
<1> QED BY <1>1, <1>2, <1>3, <1>4
        DEF Insert, InsertRefused, InsertBegin, InsertProbe, IncSize, RefusedReturn

\* The store thread stands in slot at on its way along the path and finds that
\* it does not have the key: what remains to be looked at starts one further.
LEMMA ReaderAdvances ==
    ASSUME TypeOK, ReaderInv, r.pc \in {"probe", "compare"}, ~Has(r.at, r.key),
           r' = Advance(r, "probe", "missed"), UNCHANGED slots_
    PROVE  ReaderInv'
<1> USE TableAssumption
<1>1. /\ r.key \in Key /\ r.op \in {"find", "erase"} /\ r.i \in 0..N - 1 /\ r.at = PathSlot(r.key, r.i)
      /\ r.had => \E j \in r.i..N - 1 : Has(PathSlot(r.key, j), r.key)
      BY DEF ReaderInv, TypeOK
<1>2. r.had => \E j \in r.i + 1..N - 1 : Has(PathSlot(r.key, j), r.key)
  <2> SUFFICES ASSUME r.had PROVE \E j \in r.i + 1..N - 1 : Has(PathSlot(r.key, j), r.key)
      OBVIOUS
  <2>1. PICK j \in r.i..N - 1 : Has(PathSlot(r.key, j), r.key) BY <1>1
  <2>2. j # r.i BY <2>1, <1>1
  <2>3. j \in r.i + 1..N - 1 BY <2>2, <1>1
  <2> QED BY <2>1, <2>3
<1>3. /\ r'.key = r.key /\ r'.op = r.op /\ r'.had = r.had /\ r'.i = r.i + 1
      /\ r'.at = (r.at + 1) % N /\ r'.pc = IF r.i + 1 = N THEN "missed" ELSE "probe"
      BY DEF Advance, TypeOK
<1>4. CASE r.i + 1 = N
  <2>1. ~r.had BY <1>1, <1>2, <1>4
  <2> QED BY <1>3, <1>4, <2>1 DEF ReaderInv
<1>5. CASE r.i + 1 # N
  <2>1. r.i + 1 < N BY <1>1, <1>5
  <2>2. r'.at = PathSlot(r.key, r.i + 1) BY <1>1, <1>3, <2>1, PathStep
  <2>3. r'.had => \E j \in r'.i..N - 1 : Has(PathSlot(r.key, j), r.key)'
        BY <1>2, <1>3 DEF Has, PathSlot
  <2> QED BY <1>1, <1>3, <1>5, <2>1, <2>2, <2>3 DEF ReaderInv, PathSlot, Has
<1> QED BY <1>4, <1>5

\* A step of the builder leaves the store thread's view of the table.
LEMMA ReaderKeeps ==
    ASSUME TypeOK, ReaderInv, r' = r,
           \A s \in Slots : slots_[s].state_ = "Valid" => slots_'[s] = slots_[s]
    PROVE  ReaderInv'
<1> USE TableAssumption
<1>1. ASSUME r.pc \in {"probe", "compare"}, r.had
      PROVE  \E j \in r.i..N - 1 : Has(PathSlot(r.key, j), r.key)'
  <2>1. PICK j \in r.i..N - 1 : Has(PathSlot(r.key, j), r.key) BY <1>1 DEF ReaderInv
  <2>2. PathSlot(r.key, j) \in Slots BY <1>1, PathStep DEF ReaderInv, TypeOK
  <2>3. Has(PathSlot(r.key, j), r.key)' BY <2>1, <2>2 DEF Has, PathSlot
  <2> QED BY <2>3
<1>2. r.at \in Slots BY DEF TypeOK
<1> QED BY <1>1, <1>2 DEF ReaderInv, Has, PathSlot

LEMMA ReaderNext == IInv /\ [Next]_vars => ReaderInv'
<1> SUFFICES ASSUME IInv, [Next]_vars PROVE ReaderInv'
    OBVIOUS
<1> USE TableAssumption DEF IInv
<1>1. CASE Insert
  <2>1. r' = r BY <1>1 DEF Insert, InsertRefused, InsertBegin, InsertProbe, WriteKey, WriteValue,
                           Publish, IncSize, RefusedReturn
  <2> QED BY <1>1, <2>1, ValidStays, ReaderKeeps
<1>2. ASSUME NEW k \in Key, NEW op \in {"find", "erase"}, Begin(op, k) PROVE ReaderInv'
  <2>1. r' = [pc |-> "probe", op |-> op, key |-> k, at |-> Hash[k], i |-> 0, had |-> Holds(k)] /\ slots_' = slots_
        BY <1>2 DEF Begin
  <2>2. Holds(k) => \E j \in 0..N - 1 : Has(PathSlot(k, j), k)
    <3> SUFFICES ASSUME Holds(k) PROVE \E j \in 0..N - 1 : Has(PathSlot(k, j), k)
        OBVIOUS
    <3>1. PICK s \in Slots : Has(s, k) BY DEF Holds, ValidSlots, Has
    <3>2. PICK j \in 0..N - 1 : PathSlot(k, j) = s BY PathCovers
    <3> QED BY <3>1, <3>2
  <2>3. PathSlot(k, 0) = Hash[k] BY PathStep
  <2>4. r'.pc = "probe" /\ r'.op = op /\ r'.key = k /\ r'.at = Hash[k] /\ r'.i = 0 /\ r'.had = Holds(k)
        BY <2>1
  <2>5. r'.had => \E j \in r'.i..N - 1 : Has(PathSlot(r.key, j), r.key)'
        BY <2>1, <2>2, <2>4 DEF Has, PathSlot
  <2> QED BY <2>3, <2>4, <2>5 DEF ReaderInv, PathSlot, Has
<1>3. CASE ProbeState
  <2>1. CASE slots_[r.at].state_ = "Valid"
    <3>1. r' = [r EXCEPT !.pc = "compare"] /\ slots_' = slots_ BY <1>3, <2>1 DEF ProbeState
    <3>2. /\ r'.pc = "compare" /\ r'.op = r.op /\ r'.key = r.key /\ r'.at = r.at /\ r'.i = r.i
          /\ r'.had = r.had /\ r.pc = "probe"
          BY <1>3, <3>1 DEF TypeOK, ProbeState
    <3> QED BY <2>1, <3>1, <3>2 DEF ReaderInv, Has, PathSlot
  <2>2. CASE slots_[r.at].state_ # "Valid"
    <3>1. ~Has(r.at, r.key) /\ r' = Advance(r, "probe", "missed") /\ slots_' = slots_ /\ r.pc = "probe"
          BY <1>3, <2>2 DEF ProbeState, Has
    <3> QED BY <3>1, ReaderAdvances
  <2> QED BY <2>1, <2>2
<1>4. CASE ProbeKey
  <2>1. CASE slots_[r.at].key_ = r.key
    <3>1. r' = [r EXCEPT !.pc = r.op] /\ slots_' = slots_ /\ r.pc = "compare" BY <1>4, <2>1 DEF ProbeKey
    <3>2. r'.pc = r.op /\ r'.key = r.key /\ r'.at = r.at BY <3>1 DEF TypeOK
    <3> QED BY <2>1, <3>1, <3>2 DEF ReaderInv
  <2>2. CASE slots_[r.at].key_ # r.key
    <3>1. ~Has(r.at, r.key) /\ r' = Advance(r, "probe", "missed") /\ slots_' = slots_ /\ r.pc = "compare"
          BY <1>4, <2>2 DEF ProbeKey, Has
    <3> QED BY <3>1, ReaderAdvances
  <2> QED BY <2>1, <2>2
<1>5. CASE FindReturn
      BY <1>5 DEF FindReturn, ReaderIdle, ReaderInv
<1>6. CASE EraseSlot
      BY <1>6 DEF EraseSlot, ReaderInv, TypeOK
<1>7. CASE DecSize
      BY <1>7 DEF DecSize, ReaderIdle, ReaderInv
<1>8. CASE Clear
      BY <1>8 DEF Clear, ReaderInv
<1>9. CASE UNCHANGED vars
      BY <1>9, ReaderKeeps DEF vars
<1> QED BY <1>1, <1>2, <1>3, <1>4, <1>5, <1>6, <1>7, <1>8, <1>9 DEF Next, Lookup

-----------------------------------------------------------------------------
(* size_ *)

\* The counter follows a change of what it counts, around the width of size_t.
LEMMA CountStep ==
    ASSUME NEW c \in -1..N
    PROVE  /\ ((c % SizeMod) + 1) % SizeMod = (c + 1) % SizeMod
           /\ c >= 0 => ((c % SizeMod) + SizeMod - 1) % SizeMod = (c - 1) % SizeMod
<1> USE TableAssumption
<1>0. SizeMod \in Nat \ {0} /\ c \in Int /\ c < SizeMod
      OBVIOUS
<1>m. ASSUME NEW y \in Int
      PROVE  /\ 0 <= y /\ y < SizeMod => y % SizeMod = y
             /\ SizeMod <= y /\ y < 2 * SizeMod => y % SizeMod = y - SizeMod
             /\ y < 0 /\ 0 <= y + SizeMod => y % SizeMod = y + SizeMod
      BY <1>0, ModRound
<1>1. CASE c = -1
  <2>1. c % SizeMod = SizeMod - 1 BY <1>0, <1>1, ModRound
  <2>2. SizeMod % SizeMod = 0 /\ 0 % SizeMod = 0 BY <1>0, ModRound
  <2> QED BY <2>1, <2>2, <1>0, <1>1
<1>2. CASE c = 0
  <2>1. c % SizeMod = 0 BY <1>0, <1>2, ModRound
  <2>2. SizeMod - 1 \in Int /\ -1 \in Int /\ 0 <= SizeMod - 1 /\ -1 < 0 /\ 0 <= -1 + SizeMod BY <1>0
  <2>3. (SizeMod - 1) % SizeMod = SizeMod - 1 /\ (-1) % SizeMod = -1 + SizeMod BY <2>2, <1>0, <1>m
  <2> QED BY <2>1, <2>3, <1>0, <1>2
<1>3. CASE c >= 1
  <2>1. /\ c - 1 \in Int /\ 0 <= c - 1 /\ c - 1 < SizeMod
        /\ c + SizeMod - 1 \in Int /\ SizeMod <= c + SizeMod - 1 /\ c + SizeMod - 1 < 2 * SizeMod
        BY <1>0, <1>3
  <2>2. c % SizeMod = c BY <1>0, <1>3, <1>m
  <2>3. (c - 1) % SizeMod = c - 1 BY <2>1, <1>m
  <2>4. (c + SizeMod - 1) % SizeMod = c + SizeMod - 1 - SizeMod BY <2>1, <1>m
  <2> QED BY <2>1, <2>2, <2>3, <2>4, <1>0, <1>3
<1> QED BY <1>0, <1>1, <1>2, <1>3

LEMMA SizeNext == IInv /\ [Next]_vars => SizeInv'
<1> SUFFICES ASSUME IInv, [Next]_vars PROVE SizeInv'
    OBVIOUS
<1> DEFINE n == Cardinality(ValidSlots)
<1> USE TableAssumption DEF IInv
<1>1. n \in Nat /\ IsFiniteSet(ValidSlots) BY SlotsFinite
<1>2. /\ size_ = (n + ErasePending - InsertPending) % SizeMod
      /\ n + ErasePending + Reserved <= N - 1
      BY DEF SizeInv, max_load
<1>3. ASSUME UNCHANGED slots_ PROVE n' = n BY <1>3 DEF ValidSlots
<1> HIDE DEF n
<1>4. SizeInv' <=> /\ size_' = (n' + ErasePending' - InsertPending') % SizeMod
                   /\ n' + ErasePending' + Reserved' <= N - 1
      BY DEF SizeInv, max_load, n
<1>5. ASSUME NEW k \in Key, InsertBegin(k) PROVE SizeInv'
  <2>1. (n + ErasePending) % SizeMod = n + ErasePending BY <1>1, <1>2, ModRound DEF ErasePending, Reserved
  <2>2. size_ = n + ErasePending /\ n + ErasePending < N - 1
        BY <1>1, <1>2, <1>5, <2>1 DEF InsertBegin, InsertPending, ErasePending, max_load
  <2> QED BY <1>1, <1>2, <1>3, <1>4, <1>5, <2>2 DEF InsertBegin, InsertPending, ErasePending, Reserved, Inserting
<1>6. CASE Publish
  <2>1. ValidSlots' = ValidSlots \cup {w.at} /\ w.at \notin ValidSlots
        BY <1>6 DEF Publish, ValidSlots, WriterInv, TypeOK
  <2>2. n' = n + 1 BY <1>1, <2>1, FS_AddElement DEF n
  <2>3. w.pc = "publish" /\ w'.pc = "size" /\ r' = r /\ size_' = size_ BY <1>6 DEF Publish, TypeOK
  <2>4. /\ InsertPending = 0 /\ InsertPending' = 1 /\ Reserved = 1 /\ Reserved' = 0
        /\ ErasePending' = ErasePending /\ ErasePending \in 0..1
        BY <2>3 DEF InsertPending, ErasePending, Reserved, Inserting
  <2> QED BY <1>1, <1>2, <1>4, <2>2, <2>3, <2>4
<1>7. CASE IncSize
  <2>1. /\ w.pc = "size" /\ w'.pc = "idle" /\ r' = r /\ size_' = (size_ + 1) % SizeMod /\ n' = n
        BY <1>3, <1>7 DEF IncSize, WriterIdle
  <2>2. /\ InsertPending = 1 /\ InsertPending' = 0 /\ Reserved = 0 /\ Reserved' = 0
        /\ ErasePending' = ErasePending /\ ErasePending \in 0..1
        BY <2>1 DEF InsertPending, ErasePending, Reserved, Inserting
  <2> DEFINE c == n + ErasePending - 1
  <2>3. c \in -1..N /\ size_ = c % SizeMod /\ n' + ErasePending' - InsertPending' = c + 1
        BY <1>1, <1>2, <2>1, <2>2
  <2> HIDE DEF c
  <2>4. size_' = (c + 1) % SizeMod BY <2>1, <2>3, CountStep
  <2> QED BY <1>2, <1>4, <2>1, <2>2, <2>3, <2>4
<1>8. CASE EraseSlot
  <2>1. ValidSlots' = ValidSlots \ {r.at} /\ r.at \in ValidSlots
        BY <1>8 DEF EraseSlot, ValidSlots, ReaderInv, TypeOK
  <2>2. n' = n - 1 BY <1>1, <2>1, FS_RemoveElement DEF n
  <2>3. r.pc = "erase" /\ r'.pc = "size" /\ w' = w /\ size_' = size_ BY <1>8 DEF EraseSlot, TypeOK
  <2>4. /\ InsertPending' = InsertPending /\ Reserved' = Reserved /\ ErasePending = 0 /\ ErasePending' = 1
        /\ InsertPending \in 0..1 /\ Reserved \in 0..1
        BY <2>3 DEF InsertPending, ErasePending, Reserved, Inserting
  <2>5. /\ n' + ErasePending' - InsertPending' = n + ErasePending - InsertPending
        /\ n' + ErasePending' + Reserved' = n + ErasePending + Reserved
        BY <1>1, <2>2, <2>4
  <2> QED BY <1>2, <1>4, <2>3, <2>4, <2>5
<1>9. CASE DecSize
  <2>1. /\ r.pc = "size" /\ r'.pc = "idle" /\ w' = w /\ size_' = (size_ + SizeMod - 1) % SizeMod /\ n' = n
        BY <1>3, <1>9 DEF DecSize, ReaderIdle
  <2>2. /\ InsertPending' = InsertPending /\ Reserved' = Reserved /\ ErasePending = 1 /\ ErasePending' = 0
        /\ InsertPending \in 0..1 /\ Reserved \in 0..1
        BY <2>1 DEF InsertPending, ErasePending, Reserved, Inserting
  <2> DEFINE c == n + 1 - InsertPending
  <2>3. c \in 0..N /\ size_ = c % SizeMod /\ n' + ErasePending' - InsertPending' = c - 1
        BY <1>1, <1>2, <2>1, <2>2
  <2> HIDE DEF c
  <2>4. size_' = (c - 1) % SizeMod BY <2>1, <2>3, CountStep
  <2> QED BY <1>1, <1>2, <1>4, <2>1, <2>2, <2>3, <2>4
<1>10. CASE Clear
  <2>1. ValidSlots' = {} BY <1>10 DEF Clear, ValidSlots, TypeOK
  <2>2. n' = 0 BY <2>1, FS_EmptySet DEF n
  <2>3. /\ InsertPending' = 0 /\ Reserved' = 0 /\ ErasePending' = 0 /\ size_' = 0
        BY <1>10 DEF Clear, InsertPending, ErasePending, Reserved, Inserting
  <2>4. 0 % SizeMod = 0 BY ModRound
  <2> QED BY <1>1, <1>4, <2>2, <2>3, <2>4
<1>11. ASSUME InsertProbe \/ WriteKey \/ WriteValue \/ RefusedReturn \/ \E k \in Key : InsertRefused(k)
       PROVE  /\ size_' = size_ /\ ValidSlots' = ValidSlots
              /\ ErasePending' = ErasePending /\ InsertPending' = InsertPending
              /\ Reserved' = Reserved \/ Reserved' = 0
  <2>1. CASE InsertProbe
        BY <2>1 DEF InsertProbe, Advance, TypeOK, ErasePending, InsertPending, Reserved, Inserting, ValidSlots
  <2>2. CASE WriteKey
        BY <2>2 DEF WriteKey, TypeOK, ErasePending, InsertPending, Reserved, Inserting, ValidSlots, WriterInv
  <2>3. CASE WriteValue
        BY <2>3 DEF WriteValue, TypeOK, ErasePending, InsertPending, Reserved, Inserting, ValidSlots, WriterInv
  <2>4. CASE RefusedReturn
        BY <2>4 DEF RefusedReturn, WriterIdle, ErasePending, InsertPending, Reserved, Inserting, ValidSlots
  <2>5. ASSUME NEW k \in Key, InsertRefused(k)
        PROVE  /\ size_' = size_ /\ ValidSlots' = ValidSlots
               /\ ErasePending' = ErasePending /\ InsertPending' = InsertPending
               /\ Reserved' = Reserved \/ Reserved' = 0
        BY <2>5 DEF InsertRefused, WriterIdle, ErasePending, InsertPending, Reserved, Inserting, ValidSlots
  <2> QED BY <1>11, <2>1, <2>2, <2>3, <2>4, <2>5
<1>12. ASSUME ProbeState \/ ProbeKey \/ FindReturn \/ \E k \in Key, op \in {"find", "erase"} : Begin(op, k)
       PROVE  /\ size_' = size_ /\ ValidSlots' = ValidSlots
              /\ ErasePending' = ErasePending /\ InsertPending' = InsertPending
              /\ Reserved' = Reserved
  <2>1. CASE ProbeState
        BY <2>1 DEF ProbeState, Advance, TypeOK, ErasePending, InsertPending, Reserved, Inserting, ValidSlots
  <2>2. CASE ProbeKey
        BY <2>2 DEF ProbeKey, Advance, TypeOK, ErasePending, InsertPending, Reserved, Inserting, ValidSlots, ReaderInv
  <2>3. CASE FindReturn
        BY <2>3 DEF FindReturn, ReaderIdle, ErasePending, InsertPending, Reserved, Inserting, ValidSlots
  <2>4. ASSUME NEW k \in Key, NEW op \in {"find", "erase"}, Begin(op, k)
        PROVE  /\ size_' = size_ /\ ValidSlots' = ValidSlots
               /\ ErasePending' = ErasePending /\ InsertPending' = InsertPending
               /\ Reserved' = Reserved
        BY <2>4 DEF Begin, ErasePending, InsertPending, Reserved, Inserting, ValidSlots
  <2> QED BY <1>12, <2>1, <2>2, <2>3, <2>4
<1>13. ASSUME size_' = size_, ValidSlots' = ValidSlots, ErasePending' = ErasePending, InsertPending' = InsertPending,
              Reserved' = Reserved \/ Reserved' = 0
       PROVE  SizeInv'
  <2>1. n' = n /\ Reserved \in 0..1 /\ ErasePending \in 0..1 BY <1>13 DEF Reserved, ErasePending, n
  <2> QED BY <1>1, <1>2, <1>4, <1>13, <2>1
<1>14. CASE UNCHANGED vars
       BY <1>13, <1>14 DEF vars, ValidSlots, ErasePending, InsertPending, Reserved
<1> QED BY <1>5, <1>6, <1>7, <1>8, <1>9, <1>10, <1>11, <1>12, <1>13, <1>14 DEF Next, Insert, Lookup

-----------------------------------------------------------------------------
(* The theorems *)

LEMMA InductiveInit == Init => IInv
<1> SUFFICES ASSUME Init PROVE IInv
    OBVIOUS
<1> USE TableAssumption
<1>1. TypeOK BY TypeInit
<1>2. WriterInv /\ ReaderInv /\ WholeInv
      BY DEF Init, WriterInv, ReaderInv, WholeInv, WriterIdle, ReaderIdle, EmptySlot, Inserting
<1>3. ValidSlots = {} BY DEF Init, ValidSlots, EmptySlot
<1>4. Cardinality(ValidSlots) = 0 BY <1>3, FS_EmptySet
<1>5. 0 % SizeMod = 0 BY ModRound
<1>6. SizeInv
      BY <1>4, <1>5 DEF Init, SizeInv, ErasePending, InsertPending, Reserved, Inserting, WriterIdle, ReaderIdle, max_load
<1> QED BY <1>1, <1>2, <1>6 DEF IInv

\* The invariant of the table and of its two threads is inductive.
THEOREM InductiveInvariant == Spec => []IInv
<1>1. IInv /\ [Next]_vars => IInv'
      BY TypeNext, WriterNext, ReaderNext, WholeNext, SizeNext DEF IInv
<1> QED BY <1>1, InductiveInit, PTL DEF Spec

\* The table, its counter and the locals of insert, find and erase keep their
\* types.
THEOREM TypeCorrect == Spec => []TypeOK
<1>1. IInv => TypeOK BY DEF IInv
<1> QED BY <1>1, InductiveInvariant, PTL

\* find and erase only ever see whole entries, for every interleaving with
\* insert.
THEOREM ReaderSeesWhole == Spec => []ReaderSeesWholeEntries
<1>1. IInv => ReaderSeesWholeEntries
      BY DEF IInv, ReaderSeesWholeEntries, ReaderInv, WholeInv, TypeOK
<1> QED BY <1>1, InductiveInvariant, PTL

\* A look-up never misses an entry that was in the table when it began.
THEOREM LookupFinds == Spec => []NoFalseMiss
<1>1. IInv => NoFalseMiss BY DEF IInv, NoFalseMiss, ReaderInv
<1> QED BY <1>1, InductiveInvariant, PTL

\* insert never probes in vain, the table is never full, and the counter that
\* insert tests is right whenever it is tested, wrapped or not.
THEOREM InsertSucceeds == Spec => []InsertFindsSlot
<1>1. ASSUME IInv PROVE InsertFindsSlot
  <2> USE TableAssumption DEF IInv
  <2>1. Cardinality(ValidSlots) \in Nat BY SlotsFinite
  <2>2. Cardinality(ValidSlots) <= max_load /\ w.pc # "exhausted"
        BY <2>1, <1>1 DEF SizeInv, ErasePending, Reserved, max_load, WriterInv
  <2>3. ASSUME w.pc = "idle" PROVE size_ = Cardinality(ValidSlots) + ErasePending
    <3> DEFINE c == Cardinality(ValidSlots) + ErasePending
    <3>1. size_ = c % SizeMod
      <4>1. InsertPending = 0 BY <2>3 DEF InsertPending
      <4>2. Cardinality(ValidSlots) + ErasePending - InsertPending = c BY <2>1, <4>1 DEF ErasePending
      <4>3. size_ = (Cardinality(ValidSlots) + ErasePending - InsertPending) % SizeMod BY <1>1 DEF SizeInv
      <4> HIDE DEF c
      <4> QED BY <4>2, <4>3
    <3>2. c \in Int /\ SizeMod \in Nat \ {0} /\ 0 <= c /\ c < SizeMod
          BY <2>1, <2>2 DEF ErasePending, max_load
    <3> HIDE DEF c
    <3>3. c % SizeMod = c BY <3>2, ModRound
    <3> QED BY <3>1, <3>3 DEF c
  <2> QED BY <2>2, <2>3 DEF InsertFindsSlot, ErasePending
<1> QED BY <1>1, InductiveInvariant, PTL
=============================================================================
