----------------------- MODULE ConcurrentFixedFlatMap -----------------------
(***************************************************************************)
(* The open-addressing table of utils/CustomMap that holds the orders sent *)
(* to a venue and not yet acknowledged.  The builder thread inserts, the   *)
(* store thread finds and erases, with no lock: a slot's state is the only *)
(* synchronisation, and size_ is a separate atomic counter.  Every atomic  *)
(* access, and every plain write of a slot's fields, is a step.            *)
(*                                                                         *)
(* The table maps a client_order_id to the order that carries it, so the   *)
(* value stored for key k is written k here too.  Nothing stops the        *)
(* builder from inserting a key twice: insert does not compare keys.       *)
(***************************************************************************)
EXTENDS Integers, FiniteSets

CONSTANTS Key,       \* client_order_ids
          Hash,      \* Hash[k]: hash_fn_(k) & index_mask
          N,         \* slots, a power of two
          SizeMod,   \* size_t wraps to 0 here
          none       \* what a field holds before it is written

ASSUME TableAssumption == /\ N \in Nat \ {0} /\ SizeMod \in Nat /\ SizeMod > N
                          /\ Hash \in [Key -> 0..N - 1]
                          /\ none \notin Key

VARIABLES slots_,    \* [state_, key_, value_] per slot
          size_,
          w,         \* the inserting thread: where it is, and its locals
          r          \* the finding and erasing thread, likewise

vars == <<slots_, size_, w, r>>

max_load == N - 1
Slots == 0..N - 1
EmptySlot == [state_ |-> "Empty", key_ |-> none, value_ |-> none]
WriterIdle == [pc |-> "idle", key |-> none, at |-> 0, i |-> 0]
\* op is the call in progress; had is a history variable: whether the key had
\* a Valid slot when the call began.
ReaderIdle == [pc |-> "idle", op |-> none, key |-> none, at |-> 0, i |-> 0, had |-> FALSE]

ValidSlots == {s \in Slots : slots_[s].state_ = "Valid"}
Holds(k) == \E s \in ValidSlots : slots_[s].key_ = k

\* Mutant of Advance: index_mask is forgotten.
Advance_NoMask(t, again, last) ==
    [t EXCEPT !.at = t.at + 1, !.i = t.i + 1,
              !.pc = IF t.i + 1 = N THEN last ELSE again]

\* probe_idx = (probe_idx + 1) & index_mask, and ++i against N: the loop
\* ends in last when every slot has been looked at.
Advance(t, again, last) ==
    [t EXCEPT !.at = (t.at + 1) % N, !.i = t.i + 1,
              !.pc = IF t.i + 1 = N THEN last ELSE again]

Init == /\ slots_ = [s \in Slots |-> EmptySlot]
        /\ size_ = 0
        /\ w = WriterIdle
        /\ r = ReaderIdle

-----------------------------------------------------------------------------
(* insert, by the builder thread *)

InsertRefused(k) == /\ w.pc = "idle"
                    /\ size_ >= max_load
                    /\ w' = [WriterIdle EXCEPT !.pc = "refused", !.key = k]
                    /\ UNCHANGED <<slots_, size_, r>>

\* Mutant of InsertBegin: the load factor is off by one.
InsertBegin_FillsLast(k) ==
    /\ w.pc = "idle"
    /\ size_ <= max_load
    /\ w' = [pc |-> "probe", key |-> k, at |-> Hash[k], i |-> 0]
    /\ UNCHANGED <<slots_, size_, r>>

InsertBegin(k) == /\ w.pc = "idle"
                  /\ size_ < max_load
                  /\ w' = [pc |-> "probe", key |-> k, at |-> Hash[k], i |-> 0]
                  /\ UNCHANGED <<slots_, size_, r>>

InsertProbe == /\ w.pc = "probe"
               /\ w' = IF slots_[w.at].state_ = "Empty" THEN [w EXCEPT !.pc = "key"]
                       ELSE Advance(w, "probe", "exhausted")
               /\ UNCHANGED <<slots_, size_, r>>

\* Mutant of WriteKey: the state is stored before the value.
WriteKey_PublishFirst ==
    /\ w.pc = "key"
    /\ slots_' = [slots_ EXCEPT ![w.at].key_ = w.key, ![w.at].state_ = "Valid"]
    /\ w' = [w EXCEPT !.pc = "value"]
    /\ UNCHANGED <<size_, r>>

\* Slot::insert_slot
WriteKey == /\ w.pc = "key"
            /\ slots_' = [slots_ EXCEPT ![w.at].key_ = w.key]
            /\ w' = [w EXCEPT !.pc = "value"]
            /\ UNCHANGED <<size_, r>>

WriteValue == /\ w.pc = "value"
              /\ slots_' = [slots_ EXCEPT ![w.at].value_ = w.key]
              /\ w' = [w EXCEPT !.pc = "publish"]
              /\ UNCHANGED <<size_, r>>

Publish == /\ w.pc = "publish"
           /\ slots_' = [slots_ EXCEPT ![w.at].state_ = "Valid"]
           /\ w' = [w EXCEPT !.pc = "size"]
           /\ UNCHANGED <<size_, r>>

IncSize == /\ w.pc = "size"
           /\ size_' = (size_ + 1) % SizeMod
           /\ w' = WriterIdle
           /\ UNCHANGED <<slots_, r>>

\* add_awaitingAck_order ignores the refusal.
RefusedReturn == w.pc = "refused" /\ w' = WriterIdle /\ UNCHANGED <<slots_, size_, r>>

(* find and erase, by the store thread *)

Begin(op, k) == /\ r.pc = "idle"
                /\ r' = [pc |-> "probe", op |-> op, key |-> k, at |-> Hash[k], i |-> 0,
                         had |-> Holds(k)]
                /\ UNCHANGED <<slots_, size_, w>>

\* Mutant of ProbeState: an Empty slot ends the probe, as it may in a table
\* that erases with tombstones.
ProbeState_StopsAtEmpty ==
    /\ r.pc = "probe"
    /\ r' = [r EXCEPT !.pc = IF slots_[r.at].state_ = "Valid" THEN "compare" ELSE "missed"]
    /\ UNCHANGED <<slots_, size_, w>>

\* slot.is_valid()
ProbeState == /\ r.pc = "probe"
              /\ r' = IF slots_[r.at].state_ = "Valid" THEN [r EXCEPT !.pc = "compare"]
                      ELSE Advance(r, "probe", "missed")
              /\ UNCHANGED <<slots_, size_, w>>

ProbeKey == /\ r.pc = "compare"
            /\ r' = IF slots_[r.at].key_ = r.key THEN [r EXCEPT !.pc = r.op]
                    ELSE Advance(r, "probe", "missed")
            /\ UNCHANGED <<slots_, size_, w>>

\* The caller dereferences the iterator (it->second), or sees end().
FindReturn == r.pc \in {"find", "missed"} /\ r' = ReaderIdle /\ UNCHANGED <<slots_, size_, w>>

EraseSlot == /\ r.pc = "erase"
             /\ slots_' = [slots_ EXCEPT ![r.at].state_ = "Empty"]
             /\ r' = [r EXCEPT !.pc = "size"]
             /\ UNCHANGED <<size_, w>>

DecSize == /\ r.pc = "size"
           /\ size_' = (size_ + SizeMod - 1) % SizeMod
           /\ r' = ReaderIdle
           /\ UNCHANGED <<slots_, w>>

\* clear: no caller in the engine; like a reset, while no call is in progress
Clear == /\ w.pc = "idle" /\ r.pc = "idle"
         /\ slots_' = [s \in Slots |-> [slots_[s] EXCEPT !.state_ = "Empty"]]
         /\ size_' = 0
         /\ UNCHANGED <<w, r>>

Insert == \/ \E k \in Key : InsertRefused(k) \/ InsertBegin(k)
          \/ InsertProbe \/ WriteKey \/ WriteValue \/ Publish \/ IncSize \/ RefusedReturn
Lookup == \/ \E k \in Key, op \in {"find", "erase"} : Begin(op, k)
          \/ ProbeState \/ ProbeKey \/ FindReturn \/ EraseSlot \/ DecSize

Next == Insert \/ Lookup \/ Clear

Spec == Init /\ [][Next]_vars

-----------------------------------------------------------------------------
(* Properties *)

\* The type invariant of the table and of the two threads' locals.
TypeOK ==
    /\ slots_ \in [Slots -> [state_ : {"Empty", "Valid"}, key_ : Key \cup {none},
                             value_ : Key \cup {none}]]
    /\ size_ \in 0..SizeMod - 1
    /\ w \in [pc : {"idle", "probe", "key", "value", "publish", "size", "refused", "exhausted"},
              key : Key \cup {none}, at : Slots, i : 0..N]
    /\ r \in [pc : {"idle", "probe", "compare", "find", "erase", "size", "missed"},
              op : {"find", "erase", none}, key : Key \cup {none}, at : Slots, i : 0..N,
              had : BOOLEAN]

\* An entry seen by the store thread is whole: while it compares, returns or
\* erases a slot, the slot stays Valid and its value is the order its key
\* names, although the builder writes both fields without an atomic.
ReaderSeesWholeEntries ==
    /\ r.pc \in {"compare", "find", "erase"} =>
          /\ slots_[r.at].state_ = "Valid"
          /\ slots_[r.at].value_ = slots_[r.at].key_
    /\ r.pc \in {"find", "erase"} => slots_[r.at].value_ = r.key

\* A look-up never misses an order that was in the table when it began,
\* whatever has been erased on the probe path before or is inserted
\* meanwhile: an acknowledgement always finds its order.
NoFalseMiss == r.pc = "missed" => ~r.had

\* size_ lags behind the slots, and can pass below zero and wrap while an
\* erase overtakes the increment of the insert it erases; but whenever the
\* builder is about to test it, it is the number of entries, plus one while
\* an erase has freed its slot and not yet counted: insert is never refused
\* because of a wrapped counter and never admitted beyond the limit.  So the
\* load-factor test keeps one slot Empty, a probe always ends in a slot and
\* the failing return after the loop is never taken.
InsertFindsSlot ==
    /\ Cardinality(ValidSlots) <= max_load /\ w.pc # "exhausted"
    /\ w.pc = "idle" => size_ = Cardinality(ValidSlots) + (IF r.pc = "size" THEN 1 ELSE 0)
=============================================================================
