--------------------------- MODULE OwnOrdersProofs ---------------------------
(***************************************************************************)
(* Proofs about OwnOrders: for every number of slots, orders, cancels and  *)
(* messages on the wires, and for all three protocols, a free slot is      *)
(* nobody's, every map leads to the slot its order was entered from, and   *)
(* the store's orders follow the exchange's up to the messages under way.  *)
(*                                                                         *)
(* IInv says where tokens and slots are; LedgerInv, which needs it, what   *)
(* the messages under way still change.                                    *)
(***************************************************************************)
EXTENDS OwnOrders, Lemmas, SequenceTheorems, FiniteSetTheorems, TLAPS

Statuses == {"Unknown", "New", "Partial", "Filled", "Cancelled", "Deleted", "CancelRequest"}
Orders == [status : Statuses, message_type : {"Enter", "Cancel"}, quantity : Int, filled_quantity : Int,
           remaining_quantity : Int, client_order_id : Nat, user_ref_num : Nat, order_id : Nat,
           canModify : SUBSET DONE, syncState : {"WaitingNew", "NewSeen"}]
Requests == [type : {"Enter", "Cancel"}, ref : Nat, qty : Int, token : Nat]
Messages == [type : {"Accepted", "Executed", "Cancelled", "Rejected", "CancelReject"}, token : Nat,
             urn : Nat, id : Nat, qty : Int, filled : Int, leaves : Int]

TypeInv ==
    /\ flow \in {"FIX", "BIST", "NASDAQ"}
    /\ order_pool_ \in [Slots -> Orders]
    /\ free \in Seq(Slots) /\ held \subseteq Slots /\ entered \in Nat /\ cancels \in Nat
    /\ strategy_to_risk_ \in Seq(Slots) /\ risk_to_builder_ \in Seq(Slots) /\ store_to_risk_ \in Seq(Slots)
    /\ building \in Slots \cup {nullptr} /\ user_ref_num \in Nat
    /\ wire_out \in Seq(Requests) /\ wire_in \in Seq(Messages)
    /\ ex \in Seq([token : Nat, urn : Nat, filled : Int, leaves : Int])
    /\ pending_to_strategy_ \in Seq([msg : Messages, order : Slots])

Token(s) == order_pool_[s].client_order_id
Id(s) == order_pool_[s].order_id

\* Where the order of a token is: on its way to the exchange, taken by it, or
\* refused, with the refusal on its way back.
Ordered == {wire_out[i].token : i \in {j \in DOMAIN wire_out : wire_out[j].type = "Enter"}}
Taken == {ex[i].token : i \in DOMAIN ex}
Refused == {wire_in[i].token : i \in {j \in DOMAIN wire_in : wire_in[j].id = 0}}
Sent == Ordered \cup Taken \cup Refused

\* A token is sent once and is in one of those places.
WireInv ==
    /\ \A i, j \in DOMAIN wire_out :
          wire_out[i].type = "Enter" /\ wire_out[j].type = "Enter" /\ wire_out[i].token = wire_out[j].token => i = j
    /\ \A i, j \in DOMAIN wire_in :
          wire_in[i].id = 0 /\ wire_in[j].id = 0 /\ wire_in[i].token = wire_in[j].token => i = j
    /\ Ordered \cap Taken = {} /\ Ordered \cap Refused = {} /\ Taken \cap Refused = {}
    /\ Sent \subseteq 1..entered

\* What the exchange says fits its book; only refusals of new orders carry no
\* id.  BIST refuses the cancel of an order it is known by its token.
Fits(m) ==
    /\ m.id = 0 => m.type = "Rejected"
    /\ m.id # 0 => /\ m.id \in DOMAIN ex /\ m.token = ex[m.id].token /\ m.urn = ex[m.id].urn
                   /\ m.type = "Rejected" => flow = "BIST" /\ m.token \in DOMAIN our_orders_wtokenkey_
                   /\ m.type = "CancelReject" => flow = "FIX"
MessageInv ==
    /\ \A i \in DOMAIN wire_in : Fits(wire_in[i])
    /\ \A i \in DOMAIN pending_to_strategy_ :
          flow = "BIST" /\ pending_to_strategy_[i].msg.id # 0 /\ Fits(pending_to_strategy_[i].msg)
    /\ flow = "BIST" => \A i \in DOMAIN wire_out :
          wire_out[i].type = "Cancel" => wire_out[i].ref \in DOMAIN our_orders_wtokenkey_

\* No two slots hold the same token.
TokenInv ==
    /\ \A s \in Slots : Token(s) <= entered
    /\ \A r, s \in Slots : r # s => Token(r) # Token(s) \/ Token(s) = 0

Queued == Range(strategy_to_risk_) \cup Range(risk_to_builder_)
Once(q, s) == \A i, j \in DOMAIN q : q[i] = s /\ q[j] = s => i = j
Idle == {s \in Slots : s \in Range(free) \cup held \/ (Id(s) = 0 /\ s \in Queued)}

\* An order that was not acknowledged is in one place.
PlaceInv ==
    /\ IsInjective(free)
    /\ \A s \in Range(free) : s \notin held \cup Queued \cup {building}
    /\ \A s \in held : s \notin Queued \cup {building}
    /\ \A s \in Queued : Id(s) = 0 =>
          /\ Once(strategy_to_risk_, s) /\ Once(risk_to_builder_, s) /\ s # building
          /\ s \notin Range(strategy_to_risk_) \cap Range(risk_to_builder_)

\* What a slot's place says of its order.
SlotInv ==
    /\ \A s \in Range(free) \cup held : Id(s) = 0
    /\ \A s \in Queued \cup (held \cup {building}) : s \in Slots => Token(s) # 0
    /\ \A s \in Queued : Id(s) # 0 => order_pool_[s].message_type = "Cancel"
    /\ \A s \in Slots : order_pool_[s].message_type = "Cancel" => Id(s) # 0
    /\ \A s \in Idle : Token(s) \notin Sent
    /\ \A s \in Slots : Id(s) # 0 => Token(s) \in Taken
    /\ \A s \in Slots : Id(s) # 0 /\ flow = "BIST" => Token(s) \in DOMAIN our_orders_wtokenkey_
    /\ \A s \in Slots : order_pool_[s].status # "Unknown" => Token(s) \in Taken

\* The maps lead home; an order is not awaited before the builder has put it
\* there, nor after it is known by its token.
MapInv ==
    /\ \A i \in DOMAIN our_orders_ :
          /\ i \in DOMAIN ex /\ our_orders_[i] \in Slots
          /\ Token(our_orders_[i]) = ex[i].token
          /\ flow = "BIST" => order_pool_[our_orders_[i]].status # "Unknown"
    /\ \A t \in DOMAIN our_orders_wtokenkey_ :
          /\ our_orders_wtokenkey_[t] \in Slots /\ Token(our_orders_wtokenkey_[t]) = t
          /\ flow = "BIST" /\ order_pool_[our_orders_wtokenkey_[t]].status # "Unknown"
          /\ t \notin DOMAIN awaitingAck_orders_
    /\ \A u \in DOMAIN nq_ouch_refnum_ordkey_ :
          nq_ouch_refnum_ordkey_[u] \in DOMAIN our_orders_ /\ ex[nq_ouch_refnum_ordkey_[u]].urn = u
    /\ \A t \in DOMAIN awaitingAck_orders_ :
          /\ t \in 1..entered /\ awaitingAck_orders_[t] \in Slots
          /\ flow # "FIX" \/ t \in Sent => Token(awaitingAck_orders_[t]) = t
    /\ \A s \in held \cup Queued \cup {building} : s \in Slots /\ Id(s) = 0 => Token(s) \notin DOMAIN awaitingAck_orders_
    /\ flow # "FIX" => \A s \in Range(free) : Token(s) \notin DOMAIN awaitingAck_orders_
    /\ building \in Slots /\ Id(building) = 0 =>
          building \notin Range(our_orders_) /\ Token(building) \notin DOMAIN our_orders_wtokenkey_

\* NASDAQ: the slot remembers the number its order was entered under.
UrnInv == flow = "NASDAQ" => \A s \in Slots :
    /\ \A i \in DOMAIN wire_out : wire_out[i].type = "Enter" /\ wire_out[i].token = Token(s) =>
          wire_out[i].ref = order_pool_[s].user_ref_num
    /\ \A i \in DOMAIN ex : ex[i].token = Token(s) => ex[i].urn = order_pool_[s].user_ref_num

\* OUCH: what is awaited, or about to be, is on the wires.
Answered == {wire_in[i].token : i \in {j \in DOMAIN wire_in : wire_in[j].type \in {"Accepted", "Rejected"}}}
Awaited == DOMAIN awaitingAck_orders_ \cup {Token(s) : s \in {r \in Slots : r = building /\ Id(r) = 0}}
AwaitInv == flow # "FIX" => Awaited \subseteq missed \cup Ordered \cup Answered

IInv == TypeInv /\ WireInv /\ MessageInv /\ TokenInv /\ PlaceInv /\ SlotInv /\ MapInv /\ UrnInv /\ AwaitInv

-----------------------------------------------------------------------------
(* Sequences *)

LEMMA Consts == /\ nullptr \notin Slots /\ QtyMod \in Nat \ {0} /\ Flows \subseteq {"FIX", "BIST", "NASDAQ"}
                /\ Quantities \subseteq Int
BY FlowAssumption, SlotAssumption, BoundAssumption

LEMMA AppendFacts ==
  ASSUME NEW S, NEW q \in Seq(S), NEW x \in S
  PROVE  /\ Append(q, x) \in Seq(S) /\ Len(Append(q, x)) = Len(q) + 1 /\ Len(q) \in Nat
         /\ DOMAIN q = 1..Len(q) /\ DOMAIN Append(q, x) = 1..Len(q) + 1
         /\ Append(q, x)[Len(q) + 1] = x /\ \A i \in DOMAIN q : Append(q, x)[i] = q[i]
OBVIOUS

LEMMA TailFacts ==
  ASSUME NEW S, NEW q \in Seq(S), q # <<>>
  PROVE  /\ Tail(q) \in Seq(S) /\ Len(Tail(q)) = Len(q) - 1 /\ Len(q) \in Nat /\ Len(q) > 0
         /\ DOMAIN q = 1..Len(q) /\ DOMAIN Tail(q) = 1..Len(q) - 1
         /\ Head(q) \in S /\ Head(q) = q[1]
         /\ \A i \in DOMAIN Tail(q) : i + 1 \in DOMAIN q /\ Tail(q)[i] = q[i + 1]
OBVIOUS

\* A queue of slots after an append.
LEMMA QueueAppend ==
  ASSUME NEW S, NEW q \in Seq(S), NEW x \in S
  PROVE  /\ Range(Append(q, x)) = Range(q) \cup {x}
         /\ \A s : Once(q, s) /\ s # x => Once(Append(q, x), s)
         /\ \A s : s \notin Range(q) => Once(Append(q, x), s)
         /\ IsInjective(q) /\ x \notin Range(q) => IsInjective(Append(q, x))
<1>1. /\ DOMAIN q = 1..Len(q) /\ DOMAIN Append(q, x) = 1..Len(q) + 1 /\ Len(q) \in Nat
      /\ Append(q, x)[Len(q) + 1] = x /\ \A i \in DOMAIN q : Append(q, x)[i] = q[i]
    BY AppendFacts
<1> DEFINE a == Append(q, x)
<1>2. DOMAIN a = DOMAIN q \cup {Len(q) + 1} /\ Len(q) + 1 \notin DOMAIN q
    BY <1>1
<1>3. a[Len(q) + 1] = x /\ \A i \in DOMAIN q : a[i] = q[i]
    BY <1>1
<1> HIDE DEF a
<1>4. Range(a) = Range(q) \cup {x}
    BY <1>2, <1>3 DEF Range
<1>5. \A s : Once(q, s) /\ s # x => Once(a, s)
    BY <1>2, <1>3 DEF Once
<1>6. \A s : s \notin Range(q) => Once(a, s)
    BY <1>2, <1>3 DEF Once, Range
<1>7. IsInjective(q) /\ x \notin Range(q) => IsInjective(a)
    BY <1>2, <1>3 DEF IsInjective, Range
<1> QED BY <1>4, <1>5, <1>6, <1>7 DEF a

\* A queue of slots after a pop.
LEMMA QueueTail ==
  ASSUME NEW S, NEW q \in Seq(S), q # <<>>
  PROVE  /\ Head(q) \in S /\ Tail(q) \in Seq(S)
         /\ Range(q) = Range(Tail(q)) \cup {Head(q)}
         /\ \A s : Once(q, s) => Once(Tail(q), s)
         /\ Once(q, Head(q)) => Head(q) \notin Range(Tail(q))
         /\ IsInjective(q) => IsInjective(Tail(q)) /\ Head(q) \notin Range(Tail(q))
<1> DEFINE b == Tail(q)
<1>1. /\ b \in Seq(S) /\ Len(q) \in Nat /\ Len(q) > 0 /\ DOMAIN q = 1..Len(q) /\ DOMAIN b = 1..Len(q) - 1
      /\ Head(q) \in S /\ Head(q) = q[1] /\ \A i \in DOMAIN b : i + 1 \in DOMAIN q /\ b[i] = q[i + 1]
    BY TailFacts
<1> HIDE DEF b
<1>2. \A j \in DOMAIN q : j # 1 => j - 1 \in DOMAIN b /\ b[j - 1] = q[j]
  <2> SUFFICES ASSUME NEW j \in DOMAIN q, j # 1 PROVE j - 1 \in DOMAIN b /\ b[j - 1] = q[j]
      OBVIOUS
  <2>1. j - 1 \in DOMAIN b /\ (j - 1) + 1 = j
      BY <1>1
  <2> QED BY <2>1, <1>1
<1>3. Range(q) = Range(b) \cup {Head(q)}
  <2>1. 1 \in DOMAIN q
      BY <1>1
  <2> QED BY <1>1, <1>2, <2>1 DEF Range
<1>4. \A i, j \in DOMAIN b : i + 1 = j + 1 => i = j
    BY <1>1
<1>5. \A s : Once(q, s) => Once(b, s)
    BY <1>1, <1>4 DEF Once
<1>6. \A i \in DOMAIN b : i + 1 # 1 /\ 1 \in DOMAIN q
    BY <1>1
<1>7. Once(q, Head(q)) => Head(q) \notin Range(b)
    BY <1>1, <1>6 DEF Once, Range
<1>8. IsInjective(q) => IsInjective(b) /\ Head(q) \notin Range(b)
    BY <1>1, <1>4, <1>6 DEF IsInjective, Range
<1> QED BY <1>1, <1>3, <1>5, <1>7, <1>8 DEF b

-----------------------------------------------------------------------------
(* The wires *)

LEMMA OutAppend ==
  ASSUME wire_out \in Seq(Requests), NEW e \in Requests, wire_out' = Append(wire_out, e)
  PROVE  Ordered' = IF e.type = "Enter" THEN Ordered \cup {e.token} ELSE Ordered
<1>1. /\ DOMAIN wire_out = 1..Len(wire_out) /\ DOMAIN wire_out' = 1..Len(wire_out) + 1 /\ Len(wire_out) \in Nat
      /\ wire_out'[Len(wire_out) + 1] = e /\ \A i \in DOMAIN wire_out : wire_out'[i] = wire_out[i]
    BY AppendFacts
<1>2. DOMAIN wire_out' = DOMAIN wire_out \cup {Len(wire_out) + 1}
    BY <1>1
<1> QED BY <1>1, <1>2 DEF Ordered

LEMMA InAppend ==
  ASSUME wire_in \in Seq(Messages), NEW m \in Messages, wire_in' = Append(wire_in, m)
  PROVE  /\ Refused' = IF m.id = 0 THEN Refused \cup {m.token} ELSE Refused
         /\ Answered \subseteq Answered'
         /\ m.type \in {"Accepted", "Rejected"} => m.token \in Answered'
<1>1. /\ DOMAIN wire_in = 1..Len(wire_in) /\ DOMAIN wire_in' = 1..Len(wire_in) + 1 /\ Len(wire_in) \in Nat
      /\ wire_in'[Len(wire_in) + 1] = m /\ \A i \in DOMAIN wire_in : wire_in'[i] = wire_in[i]
    BY AppendFacts
<1>2. DOMAIN wire_in' = DOMAIN wire_in \cup {Len(wire_in) + 1}
    BY <1>1
<1>3. Refused' = IF m.id = 0 THEN Refused \cup {m.token} ELSE Refused
    BY <1>1, <1>2 DEF Refused
<1>4. Answered \subseteq Answered' /\ (m.type \in {"Accepted", "Rejected"} => m.token \in Answered')
    BY <1>1, <1>2 DEF Answered
<1> QED BY <1>3, <1>4

\* Taking a request off: it was the only one with its token.
LEMMA OutTail ==
  ASSUME wire_out \in Seq(Requests), wire_out # <<>>, wire_out' = Tail(wire_out), WireInv
  PROVE  /\ Head(wire_out) \in Requests
         /\ Ordered' = IF Head(wire_out).type = "Enter" THEN Ordered \ {Head(wire_out).token} ELSE Ordered
         /\ Head(wire_out).type = "Enter" => Head(wire_out).token \in Ordered
<1> DEFINE e == wire_out[1]
<1>1. /\ Len(wire_out) \in Nat /\ DOMAIN wire_out = 1..Len(wire_out) /\ DOMAIN wire_out' = 1..Len(wire_out) - 1
      /\ Len(wire_out) > 0 /\ Head(wire_out) = e /\ e \in Requests
      /\ \A i \in DOMAIN wire_out' : i + 1 \in DOMAIN wire_out /\ wire_out'[i] = wire_out[i + 1]
    BY TailFacts
<1>2. 1 \in DOMAIN wire_out /\ \A i \in DOMAIN wire_out' : i + 1 # 1
    BY <1>1
<1>3. \A j \in DOMAIN wire_out : j # 1 => j - 1 \in DOMAIN wire_out' /\ wire_out'[j - 1] = wire_out[j]
  <2> SUFFICES ASSUME NEW j \in DOMAIN wire_out, j # 1
               PROVE  j - 1 \in DOMAIN wire_out' /\ wire_out'[j - 1] = wire_out[j]
      OBVIOUS
  <2>1. j - 1 \in DOMAIN wire_out' /\ (j - 1) + 1 = j
      BY <1>1
  <2> QED BY <2>1, <1>1
<1>4. \A i \in DOMAIN wire_out : wire_out[i].type = "Enter" /\ e.type = "Enter" /\ wire_out[i].token = e.token => i = 1
    BY <1>2 DEF WireInv
<1>5. Ordered' \subseteq Ordered
    BY <1>1 DEF Ordered
<1>6. e.type = "Enter" => e.token \notin Ordered' /\ e.token \in Ordered
    BY <1>1, <1>2, <1>4 DEF Ordered
<1>7. ASSUME NEW t \in Ordered, e.type = "Enter" => t # e.token
      PROVE  t \in Ordered'
  <2>1. PICK j \in DOMAIN wire_out : wire_out[j].type = "Enter" /\ wire_out[j].token = t
      BY DEF Ordered
  <2>2. j # 1
      BY <2>1, <1>7
  <2> QED BY <2>1, <2>2, <1>3 DEF Ordered
<1> QED BY <1>1, <1>5, <1>6, <1>7

LEMMA InTail ==
  ASSUME wire_in \in Seq(Messages), wire_in # <<>>, wire_in' = Tail(wire_in), WireInv
  PROVE  /\ Head(wire_in) \in Messages /\ 1 \in DOMAIN wire_in /\ Head(wire_in) = wire_in[1]
         /\ Refused' = IF Head(wire_in).id = 0 THEN Refused \ {Head(wire_in).token} ELSE Refused
         /\ Head(wire_in).id = 0 => Head(wire_in).token \in Refused
         /\ \A t \in Answered : t \in Answered' \/ (t = Head(wire_in).token /\ Head(wire_in).type \in {"Accepted", "Rejected"})
<1> DEFINE e == wire_in[1]
<1>1. /\ Len(wire_in) \in Nat /\ DOMAIN wire_in = 1..Len(wire_in) /\ DOMAIN wire_in' = 1..Len(wire_in) - 1
      /\ Len(wire_in) > 0 /\ Head(wire_in) = e /\ e \in Messages
      /\ \A i \in DOMAIN wire_in' : i + 1 \in DOMAIN wire_in /\ wire_in'[i] = wire_in[i + 1]
    BY TailFacts
<1>2. 1 \in DOMAIN wire_in /\ \A i \in DOMAIN wire_in' : i + 1 # 1
    BY <1>1
<1>3. \A j \in DOMAIN wire_in : j # 1 => j - 1 \in DOMAIN wire_in' /\ wire_in'[j - 1] = wire_in[j]
  <2> SUFFICES ASSUME NEW j \in DOMAIN wire_in, j # 1
               PROVE  j - 1 \in DOMAIN wire_in' /\ wire_in'[j - 1] = wire_in[j]
      OBVIOUS
  <2>1. j - 1 \in DOMAIN wire_in' /\ (j - 1) + 1 = j
      BY <1>1
  <2> QED BY <2>1, <1>1
<1>4. \A i \in DOMAIN wire_in : wire_in[i].id = 0 /\ e.id = 0 /\ wire_in[i].token = e.token => i = 1
    BY <1>2 DEF WireInv
<1>5. Refused' \subseteq Refused
    BY <1>1 DEF Refused
<1>6. e.id = 0 => e.token \notin Refused' /\ e.token \in Refused
    BY <1>1, <1>2, <1>4 DEF Refused
<1>7. ASSUME NEW t \in Refused, e.id = 0 => t # e.token
      PROVE  t \in Refused'
  <2>1. PICK j \in DOMAIN wire_in : wire_in[j].id = 0 /\ wire_in[j].token = t
      BY DEF Refused
  <2>2. j # 1
      BY <2>1, <1>7
  <2> QED BY <2>1, <2>2, <1>3 DEF Refused
<1>8. ASSUME NEW t \in Answered
      PROVE  t \in Answered' \/ (t = e.token /\ e.type \in {"Accepted", "Rejected"})
  <2>1. PICK j \in DOMAIN wire_in : wire_in[j].type \in {"Accepted", "Rejected"} /\ wire_in[j].token = t
      BY DEF Answered
  <2>2. CASE j = 1
      BY <2>1, <2>2
  <2>3. CASE j # 1
      BY <2>1, <2>3, <1>3 DEF Answered
  <2> QED BY <2>2, <2>3
<1> QED BY <1>1, <1>2, <1>5, <1>6, <1>7, <1>8

-----------------------------------------------------------------------------
(* The initial state *)

LEMMA InitFree == ASSUME Init PROVE free \in Seq(Slots) /\ IsInjective(free)
<1>1. IsFiniteSet(Slots) /\ FreeCaps \subseteq 0..Cardinality(Slots)
    BY SlotAssumption
<1> DEFINE c == Cardinality(Slots)
           f == SetToSeq(Slots)
<1>2. c \in Nat /\ ExistsBijection(1..c, Slots)
    BY <1>1, FS_CardinalityType
<1>3. \E g \in [1..c -> Slots] : IsInjective(g)
    BY <1>2 DEF ExistsBijection, Bijection, Injection
<1>4. f \in [1..c -> Slots] /\ IsInjective(f)
    BY <1>3 DEF SetToSeq
<1>5. PICK n \in FreeCaps : free = SubSeq(f, 1, n)
    BY DEF Init
<1> HIDE DEF c, f
<1>6. n \in 0..c
    BY <1>1 DEF c
<1>7. f \in Seq(Slots) /\ Len(f) = c /\ DOMAIN f = 1..c
    BY <1>2, <1>4
<1>8. free \in Seq(Slots) /\ DOMAIN free = 1..n /\ \A i \in 1..n : free[i] = f[i] /\ i \in DOMAIN f
    BY <1>2, <1>5, <1>6, <1>7
<1> QED BY <1>4, <1>8 DEF IsInjective

LEMMA InitInv == ASSUME Init PROVE IInv
<1> USE DEF Init
<1>1. free \in Seq(Slots) /\ IsInjective(free)
    BY InitFree
<1>2. \A s \in Range(free) : s \in Slots
    BY <1>1 DEF Range
<1>16. NoOrder \in Orders
  <2>1. DONE \in SUBSET DONE
      OBVIOUS
  <2> QED BY <2>1 DEF NoOrder, Orders, Statuses
<1>3. NoOrder.client_order_id = 0 /\ NoOrder.order_id = 0 /\ NoOrder.status = "Unknown" /\ NoOrder.message_type = "Enter"
    BY DEF NoOrder
<1>4. \A s \in Slots : /\ order_pool_[s].client_order_id = 0 /\ order_pool_[s].order_id = 0
                       /\ order_pool_[s].status = "Unknown" /\ order_pool_[s].message_type = "Enter"
    BY <1>3
<1>5. Ordered = {} /\ Taken = {} /\ Refused = {} /\ Queued = {}
    BY DEF Ordered, Taken, Refused, Queued, Range
<1>6. building \notin Slots
    BY Consts
<1>7. TypeInv
    BY <1>1, <1>16, Consts DEF TypeInv
<1>8. WireInv
    BY <1>5 DEF WireInv, Sent
<1>15. MessageInv
    BY DEF MessageInv
<1>9. TokenInv
    BY <1>4 DEF TokenInv, Token
<1>10. PlaceInv
    BY <1>1, <1>2, <1>5, <1>6 DEF PlaceInv
<1>11. SlotInv
    BY <1>2, <1>4, <1>5, <1>6 DEF SlotInv, Token, Id, Sent, Idle
<1>12. MapInv
    BY <1>2, <1>4, <1>5, <1>6 DEF MapInv, Token, Id
<1>13. UrnInv
    BY DEF UrnInv
<1>14. AwaitInv
    BY <1>6 DEF AwaitInv, Awaited
<1> QED BY <1>7, <1>8, <1>15, <1>9, <1>10, <1>11, <1>12, <1>13, <1>14 DEF IInv

-----------------------------------------------------------------------------
(* The strategy *)

LEMMA WiresSame ==
  ASSUME UNCHANGED <<wire_out, wire_in, ex>>
  PROVE  Ordered' = Ordered /\ Taken' = Taken /\ Refused' = Refused /\ Sent' = Sent /\ Answered' = Answered
BY DEF Ordered, Taken, Refused, Sent, Answered

LEMMA QueuesInSlots ==
  ASSUME TypeInv
  PROVE  Range(free) \subseteq Slots /\ Queued \subseteq Slots
         /\ Range(strategy_to_risk_) \subseteq Slots /\ Range(risk_to_builder_) \subseteq Slots
BY DEF TypeInv, Range, Queued

\* A slot the strategy may use: no map leads to it and its token is not under way.
LEMMA UsableSlot ==
  ASSUME IInv, NEW s \in Range(free) \cup held
  PROVE  /\ s \in Slots /\ s \notin Queued /\ s # building /\ Id(s) = 0 /\ Token(s) \notin Sent
         /\ order_pool_[s].status = "Unknown" /\ order_pool_[s].message_type = "Enter"
         /\ s \notin Range(our_orders_) /\ s \notin Range(our_orders_wtokenkey_)
         /\ \A t \in DOMAIN awaitingAck_orders_ : awaitingAck_orders_[t] = s => flow = "FIX" /\ t \notin Sent
<1> USE DEF IInv
<1>1. s \in Slots
    BY QueuesInSlots DEF TypeInv
<1>2. s \notin Queued /\ s # building
    BY DEF PlaceInv
<1>3. Id(s) = 0 /\ s \in Idle
    BY <1>1 DEF SlotInv, Idle
<1>4. Token(s) \notin Sent /\ order_pool_[s].status = "Unknown" /\ order_pool_[s].message_type # "Cancel"
    BY <1>1, <1>3 DEF SlotInv, Sent
<1>5. order_pool_[s].message_type = "Enter"
    BY <1>1, <1>4 DEF TypeInv, Orders
<1>6. s \notin Range(our_orders_) /\ s \notin Range(our_orders_wtokenkey_)
    BY <1>4 DEF MapInv, Range, Sent, Taken
<1>7. ASSUME NEW t \in DOMAIN awaitingAck_orders_, awaitingAck_orders_[t] = s
      PROVE  flow = "FIX" /\ t \notin Sent
    BY <1>1, <1>3, <1>4, <1>7 DEF MapInv
<1> QED BY <1>1, <1>2, <1>3, <1>4, <1>5, <1>6, <1>7

LEMMA EnterOrderInv == ASSUME IInv, NEW q \in Quantities, EnterOrder(q) PROVE IInv'
<1>0. TypeInv /\ WireInv /\ MessageInv /\ TokenInv /\ PlaceInv /\ SlotInv /\ MapInv /\ UrnInv /\ AwaitInv
    BY DEF IInv
<1>1. PICK s \in Slots :
          /\ \/ free # <<>> /\ s = Head(free) /\ free' = Tail(free) /\ UNCHANGED held
             \/ s \in held /\ held' = held \ {s} /\ UNCHANGED free
          /\ Submit(s, [order_pool_[s] EXCEPT !.message_type = "Enter", !.quantity = q,
                                              !.client_order_id = entered + 1])
    BY DEF EnterOrder
<1>2. /\ s \in Range(free) \cup held /\ Range(free') \subseteq Range(free) \ {s} /\ held' \subseteq held \ {s}
      /\ free' \in Seq(Slots) /\ IsInjective(free')
  <2>1. free \in Seq(Slots) /\ IsInjective(free) /\ held \subseteq Slots
      BY <1>0 DEF TypeInv, PlaceInv
  <2>2. CASE free # <<>> /\ s = Head(free) /\ free' = Tail(free) /\ UNCHANGED held
    <3>1. /\ Range(free) = Range(free') \cup {s} /\ s \notin Range(free')
          /\ free' \in Seq(Slots) /\ IsInjective(free')
        BY <2>1, <2>2, QueueTail
    <3> QED BY <3>1, <2>2, <1>0 DEF PlaceInv
  <2>3. CASE s \in held /\ held' = held \ {s} /\ UNCHANGED free
    <3>1. s \notin Range(free)
        BY <2>3, <1>0 DEF PlaceInv
    <3> QED BY <3>1, <2>1, <2>3
  <2> QED BY <1>1, <2>2, <2>3
<1>3. /\ s \notin Queued /\ s # building /\ Id(s) = 0 /\ Token(s) \notin Sent
      /\ order_pool_[s].status = "Unknown"
      /\ s \notin Range(our_orders_) /\ s \notin Range(our_orders_wtokenkey_)
      /\ \A t \in DOMAIN awaitingAck_orders_ : awaitingAck_orders_[t] = s => flow = "FIX" /\ t \notin Sent
    BY <1>2, UsableSlot
<1> DEFINE o2 == [order_pool_[s] EXCEPT !.message_type = "Enter", !.quantity = q, !.client_order_id = entered + 1]
<1>4. /\ o2 \in Orders /\ o2.client_order_id = entered + 1 /\ o2.order_id = Id(s) /\ o2.message_type = "Enter"
      /\ o2.status = order_pool_[s].status /\ o2.user_ref_num = order_pool_[s].user_ref_num
  <2>1. order_pool_[s] \in Orders /\ q \in Int /\ entered + 1 \in Nat
      BY <1>0, Consts DEF TypeInv
  <2> QED BY <2>1 DEF Orders, Id
<1>5. order_pool_' = [order_pool_ EXCEPT ![s] = o2] /\ strategy_to_risk_' = Append(strategy_to_risk_, s)
    BY <1>1 DEF Submit
<1> HIDE DEF o2
<1>6. /\ entered' = entered + 1 /\ entered \in Nat
      /\ UNCHANGED <<cancels, flow, risk_to_builder_, store_to_risk_, building, user_ref_num, wire_out, wire_in, ex,
                     awaitingAck_orders_, our_orders_, our_orders_wtokenkey_, nq_ouch_refnum_ordkey_,
                     pending_to_strategy_, crashed, missed>>
    BY <1>0, <1>1 DEF EnterOrder, Submit, builder, exchange, maps, TypeInv
<1>7. /\ order_pool_' \in [Slots -> Orders]
      /\ \A r \in Slots : r # s => order_pool_'[r] = order_pool_[r]
      /\ order_pool_'[s] = o2
    BY <1>0, <1>4, <1>5 DEF TypeInv
<1>8. /\ strategy_to_risk_' \in Seq(Slots) /\ Range(strategy_to_risk_') = Range(strategy_to_risk_) \cup {s}
      /\ \A r : Once(strategy_to_risk_, r) /\ r # s => Once(strategy_to_risk_', r)
      /\ Once(strategy_to_risk_', s)
  <2>1. strategy_to_risk_ \in Seq(Slots) /\ s \notin Range(strategy_to_risk_)
      BY <1>0, <1>3 DEF TypeInv, Queued
  <2> QED BY <2>1, <1>5, QueueAppend, AppendFacts
<1>9. Queued' = Queued \cup {s} /\ Queued \subseteq Slots /\ Range(free) \subseteq Slots
    BY <1>0, <1>6, <1>8, QueuesInSlots DEF Queued
<1>10. Ordered' = Ordered /\ Taken' = Taken /\ Refused' = Refused /\ Sent' = Sent /\ Answered' = Answered
    BY <1>6, WiresSame
<1>11. /\ entered + 1 \notin Sent /\ \A r \in Slots : Token(r) # entered + 1 /\ Token(r) \in Nat
       /\ entered + 1 \notin DOMAIN awaitingAck_orders_ /\ entered + 1 \in Nat /\ entered + 1 # 0
  <2>1. \A r \in Slots : Token(r) \in Nat
      BY <1>0 DEF TypeInv, Token, Orders
  <2> QED BY <2>1, <1>0, <1>6 DEF WireInv, TokenInv, MapInv
<1>12. TypeInv'
    BY <1>0, <1>2, <1>6, <1>7, <1>8 DEF TypeInv
<1>13. WireInv'
  <2>1. 1..entered \subseteq 1..entered'
      BY <1>6
  <2> QED BY <2>1, <1>0, <1>6, <1>10 DEF WireInv
<1>14. MessageInv'
    BY <1>0, <1>6 DEF MessageInv, Fits
<1>15. TokenInv'
    BY <1>0, <1>4, <1>6, <1>7, <1>11 DEF TokenInv, Token
<1>16. PlaceInv'
  <2>1. \A r \in Queued : order_pool_'[r].order_id = 0 => r # s /\ Id(r) = 0
      BY <1>3, <1>7, <1>9 DEF Id
  <2>2. ASSUME NEW r \in Queued', Id(r)' = 0
        PROVE  /\ Once(strategy_to_risk_', r) /\ Once(risk_to_builder_', r) /\ r # building'
               /\ r \notin Range(strategy_to_risk_') \cap Range(risk_to_builder_')
    <3>1. CASE r = s
      <4>1. s \notin Range(risk_to_builder_)
          BY <1>3 DEF Queued
      <4>2. Once(risk_to_builder_, s)
          BY <4>1 DEF Once, Range
      <4> QED BY <4>1, <4>2, <3>1, <1>3, <1>6, <1>8
    <3>2. CASE r # s
      <4>1. r \in Queued /\ Id(r) = 0
          BY <1>9, <3>2, <2>1, <2>2 DEF Id
      <4> QED BY <4>1, <3>2, <1>0, <1>6, <1>8 DEF PlaceInv
    <3> QED BY <3>1, <3>2
  <2> QED BY <2>2, <1>0, <1>2, <1>3, <1>6, <1>9 DEF PlaceInv
<1>17. SlotInv'
  <2>1. \A r \in Idle' : Token(r)' \notin Sent'
    <3> SUFFICES ASSUME NEW r \in Idle' PROVE order_pool_'[r].client_order_id \notin Sent
        BY <1>10 DEF Token
    <3>1. CASE r = s
        BY <3>1, <1>4, <1>7, <1>11
    <3>2. CASE r # s
      <4>1. r \in Idle
          BY <3>2, <1>2, <1>7, <1>9 DEF Idle, Id
      <4> QED BY <4>1, <3>2, <1>0, <1>7 DEF SlotInv, Idle, Token
    <3> QED BY <3>1, <3>2
  <2>2. \A r \in Range(free') \cup held' : r # s /\ r \in Slots /\ Id(r)' = 0
    <3>1. held \subseteq Slots
        BY <1>0 DEF TypeInv
    <3> QED BY <3>1, <1>0, <1>2, <1>7, <1>9 DEF SlotInv, Id
  <2>3. /\ \A r \in Slots : order_pool_'[r].message_type = "Cancel" => Id(r)' # 0
        /\ \A r \in Slots : Id(r)' # 0 => Token(r)' \in Taken'
        /\ \A r \in Slots : Id(r)' # 0 /\ flow' = "BIST" => Token(r)' \in DOMAIN our_orders_wtokenkey_'
        /\ \A r \in Slots : order_pool_'[r].status # "Unknown" => Token(r)' \in Taken'
      BY <1>0, <1>3, <1>4, <1>6, <1>7, <1>10 DEF SlotInv, Id, Token
  <2>4. \A r \in Queued' : Id(r)' # 0 => order_pool_'[r].message_type = "Cancel"
      BY <1>0, <1>3, <1>4, <1>7, <1>9 DEF SlotInv, Id
  <2>5. \A r \in Queued' \cup (held' \cup {building'}) : r \in Slots => Token(r)' # 0
      BY <1>0, <1>2, <1>4, <1>6, <1>7, <1>9, <1>11 DEF SlotInv, Token
  <2> QED BY <2>1, <2>2, <2>3, <2>4, <2>5 DEF SlotInv
<1>18. MapInv'
  <2>1. \A i \in DOMAIN our_orders_ : our_orders_[i] # s
      BY <1>3 DEF Range
  <2>2. \A t \in DOMAIN our_orders_wtokenkey_ : our_orders_wtokenkey_[t] # s
      BY <1>3 DEF Range
  <2>3. \A t \in DOMAIN awaitingAck_orders_ :
          /\ t \in 1..entered' /\ awaitingAck_orders_[t] \in Slots
          /\ flow # "FIX" \/ t \in Sent => Token(awaitingAck_orders_[t])' = t
    <3>1. 1..entered \subseteq 1..entered'
        BY <1>6
    <3> QED BY <3>1, <1>0, <1>3, <1>6, <1>7 DEF MapInv, Token
  <2>4. \A r \in held' \cup Queued' \cup {building'} :
            r \in Slots /\ Id(r)' = 0 => Token(r)' \notin DOMAIN awaitingAck_orders_'
      BY <1>0, <1>2, <1>4, <1>6, <1>7, <1>9, <1>11 DEF MapInv, Token, Id
  <2>5. flow' # "FIX" => \A r \in Range(free') : Token(r)' \notin DOMAIN awaitingAck_orders_'
      BY <1>0, <1>2, <1>6, <1>7, <1>9 DEF MapInv, Token
  <2>6. building' \in Slots /\ Id(building)' = 0 =>
          building' \notin Range(our_orders_') /\ Token(building)' \notin DOMAIN our_orders_wtokenkey_'
      BY <1>0, <1>3, <1>6, <1>7 DEF MapInv, Token, Id
  <2>7. \A i \in DOMAIN our_orders_' :
          /\ i \in DOMAIN ex' /\ our_orders_'[i] \in Slots
          /\ Token(our_orders_[i])' = ex'[i].token
          /\ flow' = "BIST" => order_pool_'[our_orders_'[i]].status # "Unknown"
      BY <1>0, <2>1, <1>6, <1>7 DEF MapInv, Token
  <2>8. \A t \in DOMAIN our_orders_wtokenkey_' :
          /\ our_orders_wtokenkey_'[t] \in Slots /\ Token(our_orders_wtokenkey_[t])' = t
          /\ flow' = "BIST" /\ order_pool_'[our_orders_wtokenkey_'[t]].status # "Unknown"
          /\ t \notin DOMAIN awaitingAck_orders_'
      BY <1>0, <2>2, <1>6, <1>7 DEF MapInv, Token
  <2> QED BY <2>3, <2>4, <2>5, <2>6, <2>7, <2>8, <1>0, <1>6, <1>10 DEF MapInv
<1>19. UrnInv'
  <2>1. \A i \in DOMAIN wire_out : wire_out[i].type = "Enter" => wire_out[i].token \in Sent
      BY DEF Sent, Ordered
  <2>2. \A i \in DOMAIN ex : ex[i].token \in Sent
      BY DEF Sent, Taken
  <2> QED BY <2>1, <2>2, <1>0, <1>4, <1>6, <1>7, <1>11 DEF UrnInv, Token
<1>20. AwaitInv'
  <2>1. Awaited' = Awaited
      BY <1>3, <1>6, <1>7 DEF Awaited, Token, Id
  <2> QED BY <2>1, <1>0, <1>6, <1>10 DEF AwaitInv
<1> QED BY <1>12, <1>13, <1>14, <1>15, <1>16, <1>17, <1>18, <1>19, <1>20 DEF IInv

\* Steps that leave wires and maps alone and of an order change neither token
\* nor id: the strategy's cancel and the two steps of risk.
LEMMA OrdersKept ==
  ASSUME IInv, TypeInv',
         UNCHANGED <<flow, free, entered, building, wire_out, wire_in, ex, awaitingAck_orders_, our_orders_,
                     our_orders_wtokenkey_, nq_ouch_refnum_ordkey_, pending_to_strategy_, missed>>,
         \A s \in Slots : /\ order_pool_'[s].client_order_id = order_pool_[s].client_order_id
                          /\ order_pool_'[s].order_id = order_pool_[s].order_id
                          /\ order_pool_'[s].user_ref_num = order_pool_[s].user_ref_num,
         \A s \in Slots : \/ order_pool_'[s].status = order_pool_[s].status
                          \/ Id(s) # 0 /\ order_pool_'[s].status # "Unknown"
                          \/ flow = "FIX" /\ order_pool_'[s].status = "Unknown",
         \A s \in Slots : \/ order_pool_'[s].message_type = order_pool_[s].message_type
                          \/ Id(s) # 0 /\ order_pool_'[s].message_type = "Cancel",
         \A s \in held' : s \in held \cup Queued /\ Id(s) = 0,
         \A s \in Queued' : s \in Queued \/ (s \in Slots /\ Id(s) # 0 /\ order_pool_'[s].message_type = "Cancel")
  PROVE  WireInv' /\ MessageInv' /\ TokenInv' /\ SlotInv' /\ MapInv' /\ UrnInv' /\ AwaitInv'
<1>0. TypeInv /\ WireInv /\ MessageInv /\ TokenInv /\ PlaceInv /\ SlotInv /\ MapInv /\ UrnInv /\ AwaitInv
    BY DEF IInv
<1>1. \A s \in Slots : Token(s)' = Token(s) /\ Id(s)' = Id(s)
    BY DEF Token, Id
<1>2. Ordered' = Ordered /\ Taken' = Taken /\ Refused' = Refused /\ Sent' = Sent /\ Answered' = Answered
    BY WiresSame
<1>3. Queued \subseteq Slots /\ Queued' \subseteq Slots /\ Range(free) \subseteq Slots /\ held \subseteq Slots
    BY <1>0, QueuesInSlots DEF TypeInv
<1>4. WireInv'
    BY <1>0, <1>2 DEF WireInv
<1>5. MessageInv'
    BY <1>0 DEF MessageInv, Fits
<1>6. TokenInv'
    BY <1>0, <1>1 DEF TokenInv
<1>7. SlotInv'
  <2>1. \A s \in Slots : Id(s) # 0 => Token(s) # 0 /\ Token(s) \in Taken
      BY <1>0 DEF SlotInv, WireInv, Sent
  <2>2. \A s \in Idle' : s \in Idle
      BY <1>1, <1>3 DEF Idle
  <2>3. /\ \A s \in Range(free') \cup held' : Id(s)' = 0
        /\ \A s \in Queued' \cup (held' \cup {building'}) : s \in Slots => Token(s)' # 0
      BY <2>1, <1>0, <1>1, <1>3 DEF SlotInv
  <2>4. \A s \in Queued' : Id(s)' # 0 => order_pool_'[s].message_type = "Cancel"
      BY <1>0, <1>1, <1>3 DEF SlotInv
  <2>5. \A s \in Idle' : Token(s)' \notin Sent'
      BY <2>2, <1>0, <1>1, <1>2 DEF SlotInv, Idle
  <2>6. \A s \in Slots : order_pool_'[s].status # "Unknown" => Token(s)' \in Taken'
      BY <2>1, <1>0, <1>1, <1>2 DEF SlotInv
  <2>7. /\ \A s \in Slots : order_pool_'[s].message_type = "Cancel" => Id(s)' # 0
        /\ \A s \in Slots : Id(s)' # 0 => Token(s)' \in Taken'
        /\ \A s \in Slots : Id(s)' # 0 /\ flow' = "BIST" => Token(s)' \in DOMAIN our_orders_wtokenkey_'
      BY <1>0, <1>1, <1>2 DEF SlotInv
  <2> QED BY <2>3, <2>4, <2>5, <2>6, <2>7 DEF SlotInv
<1>8. MapInv'
  <2>1. \A s \in held' \cup Queued' \cup {building'} :
            s \in Slots /\ Id(s)' = 0 => Token(s)' \notin DOMAIN awaitingAck_orders_'
      BY <1>0, <1>1 DEF MapInv
  <2>2. \A i \in DOMAIN our_orders_' :
          /\ i \in DOMAIN ex' /\ our_orders_'[i] \in Slots
          /\ Token(our_orders_[i])' = ex'[i].token
          /\ flow' = "BIST" => order_pool_'[our_orders_'[i]].status # "Unknown"
      BY <1>0, <1>1 DEF MapInv, Token
  <2>3. \A t \in DOMAIN our_orders_wtokenkey_' :
          /\ our_orders_wtokenkey_'[t] \in Slots /\ Token(our_orders_wtokenkey_[t])' = t
          /\ flow' = "BIST" /\ order_pool_'[our_orders_wtokenkey_'[t]].status # "Unknown"
          /\ t \notin DOMAIN awaitingAck_orders_'
      BY <1>0, <1>1 DEF MapInv, Token
  <2>4. \A t \in DOMAIN awaitingAck_orders_' :
          /\ t \in 1..entered' /\ awaitingAck_orders_'[t] \in Slots
          /\ flow' # "FIX" \/ t \in Sent' => Token(awaitingAck_orders_[t])' = t
      BY <1>0, <1>1, <1>2 DEF MapInv, Token
  <2>5. /\ flow' # "FIX" => \A s \in Range(free') : Token(s)' \notin DOMAIN awaitingAck_orders_'
        /\ building' \in Slots /\ Id(building)' = 0 =>
             building' \notin Range(our_orders_') /\ Token(building)' \notin DOMAIN our_orders_wtokenkey_'
      BY <1>0, <1>3 DEF MapInv, Token, Id
  <2> QED BY <2>1, <2>2, <2>3, <2>4, <2>5, <1>0 DEF MapInv
<1>9. UrnInv'
    BY <1>0 DEF UrnInv, Token
<1>10. AwaitInv'
  <2>1. Awaited' = Awaited
      BY <1>1 DEF Awaited, Token, Id
  <2> QED BY <2>1, <1>0, <1>2 DEF AwaitInv
<1> QED BY <1>4, <1>5, <1>6, <1>7, <1>8, <1>9, <1>10

LEMMA RequestCancelInv == ASSUME IInv, NEW s \in Slots, RequestCancel(s) PROVE IInv'
<1>0. TypeInv /\ PlaceInv /\ Queued \subseteq Slots
    BY QueuesInSlots DEF IInv
<1> DEFINE o2 == [order_pool_[s] EXCEPT !.message_type = "Cancel", !.status = "CancelRequest",
                                        !.canModify = @ \cup {"STRATEGY"}]
<1>1. /\ order_pool_' = [order_pool_ EXCEPT ![s] = o2] /\ strategy_to_risk_' = Append(strategy_to_risk_, s)
      /\ Id(s) # 0
    BY DEF RequestCancel, Submit, Id
<1>2. /\ o2 \in Orders /\ o2.client_order_id = order_pool_[s].client_order_id
      /\ o2.order_id = order_pool_[s].order_id /\ o2.user_ref_num = order_pool_[s].user_ref_num
      /\ o2.status = "CancelRequest" /\ o2.message_type = "Cancel"
  <2>1. order_pool_[s] \in Orders
      BY <1>0 DEF TypeInv
  <2> QED BY <2>1 DEF Orders, Statuses, DONE
<1> HIDE DEF o2
<1>3. /\ order_pool_' \in [Slots -> Orders]
      /\ order_pool_'[s] = o2 /\ \A r \in Slots : r # s => order_pool_'[r] = order_pool_[r]
    BY <1>0, <1>1, <1>2 DEF TypeInv
<1>4. /\ cancels \in Nat /\ cancels' = cancels + 1
      /\ UNCHANGED <<flow, free, held, entered, risk_to_builder_, store_to_risk_, building, user_ref_num, wire_out,
                     wire_in, ex, awaitingAck_orders_, our_orders_, our_orders_wtokenkey_, nq_ouch_refnum_ordkey_,
                     pending_to_strategy_, crashed, missed>>
    BY <1>0 DEF RequestCancel, Submit, builder, exchange, maps, TypeInv
<1>5. /\ strategy_to_risk_' \in Seq(Slots) /\ Range(strategy_to_risk_') = Range(strategy_to_risk_) \cup {s}
      /\ \A r : Once(strategy_to_risk_, r) /\ r # s => Once(strategy_to_risk_', r)
    BY <1>0, <1>1, QueueAppend, AppendFacts DEF TypeInv
<1>6. Queued' = Queued \cup {s}
    BY <1>4, <1>5 DEF Queued
<1>7. TypeInv'
    BY <1>0, <1>3, <1>4, <1>5 DEF TypeInv
<1>8. \A r \in held \cup Range(free) : r # s /\ r \in Slots /\ Id(r) = 0
    BY <1>1, QueuesInSlots DEF IInv, SlotInv, TypeInv
<1>9. PlaceInv'
  <2>1. ASSUME NEW r \in Queued', Id(r)' = 0
        PROVE  /\ Once(strategy_to_risk_', r) /\ Once(risk_to_builder_', r) /\ r # building'
               /\ r \notin Range(strategy_to_risk_') \cap Range(risk_to_builder_')
    <3>1. r # s
        BY <2>1, <1>1, <1>2, <1>3 DEF Id
    <3>2. r \in Queued /\ Id(r) = 0
        BY <3>1, <2>1, <1>0, <1>3, <1>6 DEF Id
    <3> QED BY <3>1, <3>2, <1>0, <1>4, <1>5 DEF PlaceInv
  <2> QED BY <2>1, <1>0, <1>4, <1>6, <1>8 DEF PlaceInv
<1>10. WireInv' /\ MessageInv' /\ TokenInv' /\ SlotInv' /\ MapInv' /\ UrnInv' /\ AwaitInv'
  <2>1. \A r \in Slots : /\ order_pool_'[r].client_order_id = order_pool_[r].client_order_id
                         /\ order_pool_'[r].order_id = order_pool_[r].order_id
                         /\ order_pool_'[r].user_ref_num = order_pool_[r].user_ref_num
      BY <1>2, <1>3
  <2>2. \A r \in Slots : order_pool_'[r].status = order_pool_[r].status \/ (Id(r) # 0 /\ order_pool_'[r].status # "Unknown")
      BY <1>1, <1>2, <1>3
  <2>3. \A r \in Slots : \/ order_pool_'[r].message_type = order_pool_[r].message_type
                         \/ Id(r) # 0 /\ order_pool_'[r].message_type = "Cancel"
      BY <1>1, <1>2, <1>3
  <2>4. /\ \A r \in held' : r \in held \cup Queued /\ Id(r) = 0
        /\ \A r \in Queued' : r \in Queued \/ (r \in Slots /\ Id(r) # 0 /\ order_pool_'[r].message_type = "Cancel")
      BY <1>1, <1>2, <1>3, <1>4, <1>6, <1>8
  <2> QED BY <2>1, <2>2, <2>3, <2>4, <1>4, <1>7, OrdersKept
<1> QED BY <1>7, <1>9, <1>10 DEF IInv

-----------------------------------------------------------------------------
(* Risk *)

LEMMA CheckRiskInv == ASSUME IInv, check_risk PROVE IInv'
<1>0. TypeInv /\ PlaceInv /\ SlotInv /\ Queued \subseteq Slots
    BY QueuesInSlots DEF IInv
<1> DEFINE s == Head(strategy_to_risk_)
           q == Tail(strategy_to_risk_)
<1>1. /\ s \in Slots /\ q \in Seq(Slots) /\ Range(strategy_to_risk_) = Range(q) \cup {s}
      /\ \A r : Once(strategy_to_risk_, r) => Once(q, r)
      /\ Once(strategy_to_risk_, s) => s \notin Range(q)
    BY <1>0, QueueTail DEF check_risk, TypeInv
<1>2. /\ strategy_to_risk_' = q
      /\ UNCHANGED <<flow, free, entered, cancels, store_to_risk_, building, user_ref_num, wire_out, wire_in, ex,
                     awaitingAck_orders_, our_orders_, our_orders_wtokenkey_, nq_ouch_refnum_ordkey_,
                     pending_to_strategy_, crashed, missed>>
    BY DEF check_risk, builder, exchange, maps
<1>3. \/ /\ order_pool_' = [order_pool_ EXCEPT ![s] = [order_pool_[s] EXCEPT !.canModify = @ \cup {"RISK"}]]
         /\ risk_to_builder_' = Append(risk_to_builder_, s)
         /\ UNCHANGED held
      \/ /\ held' = IF Id(s) = 0 THEN held \cup {s} ELSE held
         /\ UNCHANGED <<order_pool_, risk_to_builder_>>
    BY DEF check_risk, Id
<1> HIDE DEF s, q
<1>4. s \in Queued /\ Range(q) \subseteq Range(strategy_to_risk_)
    BY <1>1 DEF Queued
<1>5. s \notin Range(free) /\ s \notin held
    BY <1>0, <1>4 DEF PlaceInv
<1>6. Id(s) = 0 => /\ s \notin Range(q) /\ s \notin Range(risk_to_builder_) /\ s # building
    BY <1>0, <1>1, <1>4 DEF PlaceInv
<1>7. CASE /\ order_pool_' = [order_pool_ EXCEPT ![s] = [order_pool_[s] EXCEPT !.canModify = @ \cup {"RISK"}]]
           /\ risk_to_builder_' = Append(risk_to_builder_, s)
           /\ UNCHANGED held
  <2> DEFINE o2 == [order_pool_[s] EXCEPT !.canModify = @ \cup {"RISK"}]
  <2>1. /\ o2 \in Orders /\ o2.client_order_id = order_pool_[s].client_order_id
        /\ o2.order_id = order_pool_[s].order_id /\ o2.user_ref_num = order_pool_[s].user_ref_num
        /\ o2.status = order_pool_[s].status /\ o2.message_type = order_pool_[s].message_type
    <3>1. order_pool_[s] \in Orders
        BY <1>0, <1>1 DEF TypeInv
    <3> QED BY <3>1 DEF Orders, DONE
  <2>2. order_pool_' = [order_pool_ EXCEPT ![s] = o2]
      BY <1>7
  <2> HIDE DEF o2
  <2>3. /\ order_pool_' \in [Slots -> Orders]
        /\ order_pool_'[s] = o2 /\ \A r \in Slots : r # s => order_pool_'[r] = order_pool_[r]
      BY <1>0, <1>1, <2>1, <2>2 DEF TypeInv
  <2>4. /\ risk_to_builder_' \in Seq(Slots) /\ Range(risk_to_builder_') = Range(risk_to_builder_) \cup {s}
        /\ \A r : Once(risk_to_builder_, r) /\ r # s => Once(risk_to_builder_', r)
        /\ s \notin Range(risk_to_builder_) => Once(risk_to_builder_', s)
      BY <1>0, <1>1, <1>7, QueueAppend, AppendFacts DEF TypeInv
  <2>5. Queued' = Queued
      BY <1>1, <1>2, <2>4 DEF Queued
  <2>6. TypeInv'
      BY <1>0, <1>1, <1>2, <1>7, <2>3, <2>4 DEF TypeInv
  <2>7. \A r \in Slots : /\ order_pool_'[r].client_order_id = order_pool_[r].client_order_id
                         /\ order_pool_'[r].order_id = order_pool_[r].order_id
                         /\ order_pool_'[r].user_ref_num = order_pool_[r].user_ref_num
                         /\ order_pool_'[r].status = order_pool_[r].status
                         /\ order_pool_'[r].message_type = order_pool_[r].message_type
      BY <2>1, <2>3
  <2>8. PlaceInv'
    <3>1. ASSUME NEW r \in Queued', Id(r)' = 0
          PROVE  /\ Once(strategy_to_risk_', r) /\ Once(risk_to_builder_', r) /\ r # building'
                 /\ r \notin Range(strategy_to_risk_') \cap Range(risk_to_builder_')
      <4>1. r \in Queued /\ Id(r) = 0
          BY <3>1, <2>5, <2>7, <1>0 DEF Id
      <4>2. CASE r = s
        <5>1. Once(strategy_to_risk_, s)
            BY <4>1, <4>2, <1>0 DEF PlaceInv
        <5> QED BY <5>1, <4>1, <4>2, <1>1, <1>2, <1>6, <2>4
      <4>3. CASE r # s
          BY <4>1, <4>3, <1>0, <1>1, <1>2, <1>4, <2>4 DEF PlaceInv
      <4> QED BY <4>2, <4>3
    <3> QED BY <3>1, <2>5, <1>0, <1>2, <1>7 DEF PlaceInv
  <2>9. /\ \A r \in held' : r \in held \cup Queued /\ Id(r) = 0
        /\ \A r \in Queued' : r \in Queued
      BY <1>0, <1>7, <2>5 DEF SlotInv
  <2>10. WireInv' /\ MessageInv' /\ TokenInv' /\ SlotInv' /\ MapInv' /\ UrnInv' /\ AwaitInv'
      BY <2>6, <2>7, <2>9, <1>2, OrdersKept
  <2> QED BY <2>6, <2>8, <2>10 DEF IInv
<1>8. CASE /\ held' = IF Id(s) = 0 THEN held \cup {s} ELSE held
           /\ UNCHANGED <<order_pool_, risk_to_builder_>>
  <2>1. TypeInv'
      BY <1>0, <1>1, <1>2, <1>8 DEF TypeInv
  <2>2. Queued' \subseteq Queued /\ (Id(s) = 0 => s \notin Queued')
      BY <1>2, <1>4, <1>6, <1>8 DEF Queued
  <2>3. PlaceInv'
    <3>1. ASSUME NEW r \in Queued', Id(r)' = 0
          PROVE  /\ Once(strategy_to_risk_', r) /\ Once(risk_to_builder_', r) /\ r # building'
                 /\ r \notin Range(strategy_to_risk_') \cap Range(risk_to_builder_')
      <4>1. r \in Queued /\ Id(r) = 0
          BY <3>1, <2>2, <1>8 DEF Id
      <4> QED BY <4>1, <1>0, <1>1, <1>2, <1>4, <1>8 DEF PlaceInv
    <3> QED BY <3>1, <2>2, <1>0, <1>2, <1>5, <1>6, <1>8 DEF PlaceInv
  <2>4. /\ \A r \in held' : r \in held \cup Queued /\ Id(r) = 0
        /\ \A r \in Queued' : r \in Queued
      BY <1>0, <1>4, <1>8, <2>2 DEF SlotInv
  <2>5. WireInv' /\ MessageInv' /\ TokenInv' /\ SlotInv' /\ MapInv' /\ UrnInv' /\ AwaitInv'
      BY <2>1, <2>4, <1>2, <1>8, OrdersKept
  <2> QED BY <2>1, <2>3, <2>5 DEF IInv
<1> QED BY <1>3, <1>7, <1>8

LEMMA UpdateRiskInv == ASSUME IInv, update_risk PROVE IInv'
<1>0. TypeInv /\ PlaceInv /\ SlotInv /\ Queued \subseteq Slots
    BY QueuesInSlots DEF IInv
<1> DEFINE s == Head(store_to_risk_)
           o2 == [order_pool_[s] EXCEPT !.canModify = @ \cup {"RISK"}, !.status = IF flow = "FIX" THEN "Unknown" ELSE @]
<1>1. s \in Slots /\ store_to_risk_' \in Seq(Slots)
    BY <1>0, QueueTail DEF update_risk, TypeInv
<1>2. /\ UNCHANGED <<flow, free, held, entered, cancels, strategy_to_risk_, risk_to_builder_, building, user_ref_num,
                     wire_out, wire_in, ex, awaitingAck_orders_, our_orders_, our_orders_wtokenkey_,
                     nq_ouch_refnum_ordkey_, pending_to_strategy_, crashed, missed>>
    BY DEF update_risk, strategy, builder, exchange, maps
<1>3. order_pool_' = order_pool_ \/ order_pool_' = [order_pool_ EXCEPT ![s] = o2]
  <2>1. \/ order_pool_' = order_pool_
        \/ order_pool_' = [order_pool_ EXCEPT ![s].canModify = @ \cup {"RISK"},
                                              ![s].status = IF flow = "FIX" THEN "Unknown" ELSE @]
      BY DEF update_risk
  <2>2. order_pool_[s] \in Orders /\ order_pool_ \in [Slots -> Orders]
      BY <1>0, <1>1 DEF TypeInv
  <2> QED BY <2>1, <2>2, <1>1
<1>4. /\ o2 \in Orders /\ o2.client_order_id = order_pool_[s].client_order_id
      /\ o2.order_id = order_pool_[s].order_id /\ o2.user_ref_num = order_pool_[s].user_ref_num
      /\ o2.status = order_pool_[s].status \/ (flow = "FIX" /\ o2.status = "Unknown")
      /\ o2.message_type = order_pool_[s].message_type
  <2>1. order_pool_[s] \in Orders
      BY <1>0, <1>1 DEF TypeInv
  <2> QED BY <2>1 DEF Orders, DONE, Statuses
<1> HIDE DEF o2, s
<1>5. /\ order_pool_' \in [Slots -> Orders]
      /\ \A r \in Slots : order_pool_'[r] = order_pool_[r] \/ (r = s /\ order_pool_'[r] = o2)
    BY <1>0, <1>1, <1>3, <1>4 DEF TypeInv
<1>6. TypeInv'
    BY <1>0, <1>1, <1>2, <1>5 DEF TypeInv
<1>7. \A r \in Slots : /\ order_pool_'[r].client_order_id = order_pool_[r].client_order_id
                       /\ order_pool_'[r].order_id = order_pool_[r].order_id
                       /\ order_pool_'[r].user_ref_num = order_pool_[r].user_ref_num
                       /\ order_pool_'[r].message_type = order_pool_[r].message_type
    BY <1>4, <1>5
<1>8. \A r \in Slots : order_pool_'[r].status = order_pool_[r].status \/ (flow = "FIX" /\ order_pool_'[r].status = "Unknown")
    BY <1>4, <1>5
<1>9. Queued' = Queued
    BY <1>2 DEF Queued
<1>10. PlaceInv'
    BY <1>0, <1>2, <1>7, <1>9 DEF PlaceInv, Id
<1>11. \A r \in held' : r \in held \cup Queued /\ Id(r) = 0
    BY <1>0, <1>2 DEF SlotInv
<1>12. WireInv' /\ MessageInv' /\ TokenInv' /\ SlotInv' /\ MapInv' /\ UrnInv' /\ AwaitInv'
    BY <1>2, <1>6, <1>7, <1>8, <1>9, <1>11, OrdersKept
<1> QED BY <1>6, <1>10, <1>12 DEF IInv

-----------------------------------------------------------------------------
(* The builder *)

LEMMA BuildInv == ASSUME IInv, Build PROVE IInv'
<1>0. TypeInv /\ WireInv /\ MessageInv /\ TokenInv /\ PlaceInv /\ SlotInv /\ MapInv /\ UrnInv /\ AwaitInv
      /\ Queued \subseteq Slots /\ Range(free) \subseteq Slots
    BY QueuesInSlots DEF IInv
<1> DEFINE s == Head(risk_to_builder_)
           q == Tail(risk_to_builder_)
           o == order_pool_[s]
           numbers == flow = "NASDAQ" /\ o.message_type = "Enter"
           urn == IF numbers THEN user_ref_num ELSE o.user_ref_num
           o2 == [o EXCEPT !.canModify = @ \cup {"BUILDER"}, !.user_ref_num = urn]
           e == [type |-> o.message_type, ref |-> RefOf(o), qty |-> o.quantity, token |-> o.client_order_id]
<1>1. /\ s \in Slots /\ q \in Seq(Slots) /\ Range(risk_to_builder_) = Range(q) \cup {s}
      /\ \A r : Once(risk_to_builder_, r) => Once(q, r)
      /\ Once(risk_to_builder_, s) => s \notin Range(q)
    BY <1>0, QueueTail DEF Build, TypeInv
<1>2. o \in Orders /\ user_ref_num \in Nat /\ order_pool_ \in [Slots -> Orders]
    BY <1>0, <1>1 DEF TypeInv
<1>3. /\ risk_to_builder_' = q /\ building = nullptr /\ building' = s /\ wire_out' = Append(wire_out, e)
      /\ user_ref_num' = IF numbers THEN user_ref_num + 1 ELSE user_ref_num
      /\ UNCHANGED <<flow, free, held, entered, cancels, strategy_to_risk_, store_to_risk_, ex, wire_in,
                     awaitingAck_orders_, our_orders_, our_orders_wtokenkey_, nq_ouch_refnum_ordkey_,
                     pending_to_strategy_, crashed, missed>>
    BY DEF Build, strategy, maps
<1>4. order_pool_' = [order_pool_ EXCEPT ![s] = o2]
  <2>1. order_pool_' = [order_pool_ EXCEPT ![s].canModify = @ \cup {"BUILDER"},
                                           ![s].user_ref_num = IF numbers THEN user_ref_num ELSE @]
      BY DEF Build
  <2> QED BY <2>1, <1>1, <1>2
<1>5. /\ o2 \in Orders /\ o2.client_order_id = o.client_order_id /\ o2.order_id = o.order_id
      /\ o2.user_ref_num = urn /\ o2.status = o.status /\ o2.message_type = o.message_type
    BY <1>2 DEF Orders, DONE
<1>6. /\ e \in Requests /\ e.type = o.message_type /\ e.token = o.client_order_id
      /\ e.ref = IF flow = "NASDAQ" THEN user_ref_num ELSE o.client_order_id
    BY <1>2 DEF Requests, Orders, RefOf
<1>7. /\ numbers = (flow = "NASDAQ" /\ o.message_type = "Enter")
      /\ urn = IF numbers THEN user_ref_num ELSE o.user_ref_num
    OBVIOUS
<1>8. o = order_pool_[s] /\ o.message_type \in {"Enter", "Cancel"} /\ o.client_order_id \in Nat
    BY <1>2 DEF Orders
<1> HIDE DEF s, q, o, numbers, urn, o2, e
<1>9. /\ order_pool_' \in [Slots -> Orders]
      /\ order_pool_'[s] = o2 /\ \A r \in Slots : r # s => order_pool_'[r] = order_pool_[r]
    BY <1>1, <1>2, <1>4, <1>5
<1>10. \A r \in Slots : /\ order_pool_'[r].client_order_id = order_pool_[r].client_order_id
                        /\ order_pool_'[r].order_id = order_pool_[r].order_id
                        /\ order_pool_'[r].status = order_pool_[r].status
                        /\ order_pool_'[r].message_type = order_pool_[r].message_type
                        /\ Token(r)' = Token(r) /\ Id(r)' = Id(r)
    BY <1>5, <1>8, <1>9 DEF Token, Id
<1>11. s \in Queued /\ Queued' \subseteq Queued /\ (Id(s) = 0 => s \notin Queued')
  <2>1. s \in Queued /\ Queued' \subseteq Queued
      BY <1>1, <1>3 DEF Queued
  <2>2. ASSUME Id(s) = 0 PROVE s \notin Queued'
    <3>1. Once(risk_to_builder_, s) /\ s \notin Range(strategy_to_risk_)
        BY <2>1, <2>2, <1>0, <1>1 DEF PlaceInv
    <3> QED BY <3>1, <1>1, <1>3 DEF Queued
  <2> QED BY <2>1, <2>2
<1>12. s \notin Range(free) /\ s \notin held
    BY <1>0, <1>11 DEF PlaceInv
<1>13. /\ Id(s) = 0 <=> e.type = "Enter"
       /\ e.type = "Enter" \/ e.type = "Cancel"
    BY <1>0, <1>1, <1>6, <1>8, <1>11 DEF SlotInv
<1>14. e.token = Token(s) /\ Token(s) # 0 /\ Token(s) \in Nat /\ Token(s) \in 1..entered
  <2>1. Token(s) # 0
      BY <1>0, <1>1, <1>11 DEF SlotInv
  <2>2. Token(s) <= entered /\ e.token = Token(s) /\ entered \in Nat
      BY <1>0, <1>1, <1>6, <1>8 DEF TokenInv, Token, TypeInv
  <2> QED BY <2>1, <2>2, <1>6, <1>8
<1>15. Id(s) = 0 => Token(s) \notin Sent /\ Token(s) \notin DOMAIN awaitingAck_orders_
    BY <1>0, <1>1, <1>11 DEF SlotInv, Idle, MapInv
<1>16. /\ Ordered' = IF Id(s) = 0 THEN Ordered \cup {Token(s)} ELSE Ordered
       /\ Taken' = Taken /\ Refused' = Refused /\ Answered' = Answered
       /\ Sent' = IF Id(s) = 0 THEN Sent \cup {Token(s)} ELSE Sent
  <2>1. Ordered' = IF e.type = "Enter" THEN Ordered \cup {e.token} ELSE Ordered
      BY <1>0, <1>3, <1>6, OutAppend DEF TypeInv
  <2>2. Taken' = Taken /\ Refused' = Refused /\ Answered' = Answered
      BY <1>3 DEF Taken, Refused, Answered
  <2> QED BY <2>1, <2>2, <1>13, <1>14 DEF Sent
<1>17. /\ wire_out' \in Seq(Requests) /\ Len(wire_out) + 1 \notin DOMAIN wire_out
       /\ DOMAIN wire_out' = DOMAIN wire_out \cup {Len(wire_out) + 1}
       /\ wire_out'[Len(wire_out) + 1] = e /\ \A i \in DOMAIN wire_out : wire_out'[i] = wire_out[i]
  <2>1. /\ wire_out' \in Seq(Requests) /\ Len(wire_out) \in Nat /\ DOMAIN wire_out = 1..Len(wire_out)
        /\ DOMAIN wire_out' = 1..Len(wire_out) + 1
        /\ wire_out'[Len(wire_out) + 1] = e /\ \A i \in DOMAIN wire_out : wire_out'[i] = wire_out[i]
      BY <1>0, <1>3, <1>6, AppendFacts DEF TypeInv
  <2> QED BY <2>1
<1>18. \A r \in Slots : r # s => Token(r) # Token(s)
    BY <1>0, <1>1, <1>14 DEF TokenInv
<1>19. TypeInv'
  <2>1. user_ref_num' \in Nat
      BY <1>2, <1>3
  <2> QED BY <2>1, <1>0, <1>1, <1>3, <1>9, <1>17 DEF TypeInv
<1>20. WireInv'
  <2>1. \A i \in DOMAIN wire_out : wire_out[i].type = "Enter" => wire_out[i].token \in Ordered
      BY DEF Ordered
  <2>2. \A i, j \in DOMAIN wire_out' :
          wire_out'[i].type = "Enter" /\ wire_out'[j].type = "Enter" /\ wire_out'[i].token = wire_out'[j].token => i = j
      BY <2>1, <1>0, <1>13, <1>14, <1>15, <1>17 DEF WireInv, Sent
  <2>3. /\ Ordered' \cap Taken' = {} /\ Ordered' \cap Refused' = {} /\ Taken' \cap Refused' = {}
        /\ Sent' \subseteq 1..entered'
      BY <1>0, <1>3, <1>14, <1>15, <1>16 DEF WireInv, Sent
  <2> QED BY <2>2, <2>3, <1>0, <1>3 DEF WireInv
<1>21. MessageInv'
  <2>1. ASSUME flow = "BIST", NEW i \in DOMAIN wire_out', wire_out'[i].type = "Cancel"
        PROVE  wire_out'[i].ref \in DOMAIN our_orders_wtokenkey_
    <3>1. CASE i \in DOMAIN wire_out
        BY <3>1, <2>1, <1>0, <1>17 DEF MessageInv
    <3>2. CASE i = Len(wire_out) + 1
      <4>1. Id(s) # 0 /\ wire_out'[i].ref = Token(s)
          BY <3>2, <2>1, <1>6, <1>8, <1>13, <1>17 DEF Token
      <4> QED BY <4>1, <2>1, <1>0, <1>1 DEF SlotInv
    <3> QED BY <3>1, <3>2, <1>17
  <2> QED BY <2>1, <1>0, <1>3 DEF MessageInv, Fits
<1>22. TokenInv'
    BY <1>0, <1>3, <1>10 DEF TokenInv
<1>23. PlaceInv'
  <2>1. ASSUME NEW r \in Queued', Id(r)' = 0
        PROVE  /\ Once(strategy_to_risk_', r) /\ Once(risk_to_builder_', r) /\ r # building'
               /\ r \notin Range(strategy_to_risk_') \cap Range(risk_to_builder_')
    <3>1. r \in Queued /\ Id(r) = 0 /\ r # s
        BY <2>1, <1>0, <1>10, <1>11
    <3> QED BY <3>1, <1>0, <1>1, <1>3 DEF PlaceInv
  <2> QED BY <2>1, <1>0, <1>3, <1>11, <1>12 DEF PlaceInv
<1>24. SlotInv'
  <2>1. \A r \in Idle' : Token(r)' \notin Sent'
    <3> SUFFICES ASSUME NEW r \in Idle' PROVE Token(r)' \notin Sent'
        OBVIOUS
    <3>1. r \in Idle /\ r \in Slots /\ (Id(s) = 0 => r # s)
        BY <1>3, <1>10, <1>11, <1>12 DEF Idle
    <3> QED BY <3>1, <1>0, <1>10, <1>16, <1>18 DEF SlotInv
  <2>2. /\ \A r \in Range(free') \cup held' : Id(r)' = 0
        /\ \A r \in Queued' \cup (held' \cup {building'}) : r \in Slots => Token(r)' # 0
        /\ \A r \in Queued' : Id(r)' # 0 => order_pool_'[r].message_type = "Cancel"
    <3>1. held \subseteq Slots
        BY <1>0 DEF TypeInv
    <3> QED BY <3>1, <1>0, <1>3, <1>10, <1>11, <1>14 DEF SlotInv
  <2>3. /\ \A r \in Slots : order_pool_'[r].message_type = "Cancel" => Id(r)' # 0
        /\ \A r \in Slots : Id(r)' # 0 => Token(r)' \in Taken'
        /\ \A r \in Slots : Id(r)' # 0 /\ flow' = "BIST" => Token(r)' \in DOMAIN our_orders_wtokenkey_'
        /\ \A r \in Slots : order_pool_'[r].status # "Unknown" => Token(r)' \in Taken'
      BY <1>0, <1>3, <1>10, <1>16 DEF SlotInv
  <2> QED BY <2>1, <2>2, <2>3 DEF SlotInv
<1>25. MapInv'
  <2>1. \A r \in held' \cup Queued' \cup {building'} :
            r \in Slots /\ Id(r)' = 0 => Token(r)' \notin DOMAIN awaitingAck_orders_'
      BY <1>0, <1>3, <1>10, <1>11, <1>15 DEF MapInv
  <2>2. \A i \in DOMAIN our_orders_' :
          /\ i \in DOMAIN ex' /\ our_orders_'[i] \in Slots
          /\ Token(our_orders_[i])' = ex'[i].token
          /\ flow' = "BIST" => order_pool_'[our_orders_'[i]].status # "Unknown"
      BY <1>0, <1>3, <1>10 DEF MapInv, Token
  <2>3. \A t \in DOMAIN our_orders_wtokenkey_' :
          /\ our_orders_wtokenkey_'[t] \in Slots /\ Token(our_orders_wtokenkey_[t])' = t
          /\ flow' = "BIST" /\ order_pool_'[our_orders_wtokenkey_'[t]].status # "Unknown"
          /\ t \notin DOMAIN awaitingAck_orders_'
      BY <1>0, <1>3, <1>10 DEF MapInv, Token
  <2>4. \A t \in DOMAIN awaitingAck_orders_' :
          /\ t \in 1..entered' /\ awaitingAck_orders_'[t] \in Slots
          /\ flow' # "FIX" \/ t \in Sent' => Token(awaitingAck_orders_[t])' = t
      BY <1>0, <1>3, <1>10, <1>15, <1>16 DEF MapInv, Token
  <2>5. flow' # "FIX" => \A r \in Range(free') : Token(r)' \notin DOMAIN awaitingAck_orders_'
      BY <1>0, <1>3, <1>10 DEF MapInv
  <2>6. building' \in Slots /\ Id(building)' = 0 =>
             building' \notin Range(our_orders_') /\ Token(building)' \notin DOMAIN our_orders_wtokenkey_'
    <3> SUFFICES ASSUME Id(s) = 0 PROVE s \notin Range(our_orders_) /\ Token(s) \notin DOMAIN our_orders_wtokenkey_
        BY <1>1, <1>3, <1>10 DEF Token, Id
    <3>1. Token(s) \notin Taken
        BY <1>15 DEF Sent
    <3>2. \A t \in DOMAIN our_orders_wtokenkey_ : t \in Taken
        BY <1>0 DEF MapInv, SlotInv
    <3> QED BY <3>1, <3>2, <1>0 DEF MapInv, Range, Taken
  <2> QED BY <2>1, <2>2, <2>3, <2>4, <2>5, <2>6, <1>0, <1>3 DEF MapInv
<1>26. UrnInv'
  <2> SUFFICES ASSUME flow = "NASDAQ", NEW r \in Slots
               PROVE  /\ \A i \in DOMAIN wire_out' : wire_out'[i].type = "Enter" /\ wire_out'[i].token = Token(r) =>
                            wire_out'[i].ref = order_pool_'[r].user_ref_num
                      /\ \A i \in DOMAIN ex : ex[i].token = Token(r) => ex[i].urn = order_pool_'[r].user_ref_num
      BY <1>3, <1>10 DEF UrnInv
  <2>1. \A i \in DOMAIN wire_out : wire_out[i].type = "Enter" => wire_out[i].token \in Sent
      BY DEF Sent, Ordered
  <2>2. \A i \in DOMAIN ex : ex[i].token \in Sent
      BY DEF Sent, Taken
  <2>3. CASE r = s /\ Id(s) = 0
    <3>1. order_pool_'[s].user_ref_num = user_ref_num /\ e.ref = user_ref_num
        BY <2>3, <1>5, <1>6, <1>7, <1>9, <1>13
    <3> QED BY <3>1, <2>1, <2>2, <2>3, <1>15, <1>17
  <2>4. CASE ~(r = s /\ Id(s) = 0)
    <3>1. order_pool_'[r].user_ref_num = order_pool_[r].user_ref_num
        BY <2>4, <1>5, <1>6, <1>7, <1>8, <1>9, <1>13
    <3>2. e.type = "Enter" => e.token # Token(r)
        BY <2>4, <1>13, <1>14, <1>18
    <3> QED BY <3>1, <3>2, <1>0, <1>17 DEF UrnInv
  <2> QED BY <2>3, <2>4
<1>27. AwaitInv'
  <2>1. Awaited' \subseteq Awaited \cup (IF Id(s) = 0 THEN {Token(s)} ELSE {})
      BY <1>3, <1>10 DEF Awaited
  <2> QED BY <2>1, <1>0, <1>3, <1>16 DEF AwaitInv
<1> QED BY <1>19, <1>20, <1>21, <1>22, <1>23, <1>24, <1>25, <1>26, <1>27 DEF IInv

LEMMA AddAwaitingInv == ASSUME IInv, add_awaitingAck_order PROVE IInv'
<1>0. TypeInv /\ WireInv /\ MessageInv /\ TokenInv /\ PlaceInv /\ SlotInv /\ MapInv /\ UrnInv /\ AwaitInv
      /\ Queued \subseteq Slots /\ Range(free) \subseteq Slots /\ held \subseteq Slots
    BY QueuesInSlots DEF IInv, TypeInv
<1> DEFINE s == building
<1>1. s \in Slots /\ building' = nullptr /\ building' \notin Slots
    BY <1>0, Consts DEF add_awaitingAck_order, TypeInv
<1>2. UNCHANGED <<flow, order_pool_, free, held, entered, cancels, strategy_to_risk_, risk_to_builder_,
                  store_to_risk_, user_ref_num, wire_out, ex, wire_in, our_orders_, our_orders_wtokenkey_,
                  nq_ouch_refnum_ordkey_, pending_to_strategy_, crashed, missed>>
    BY DEF add_awaitingAck_order, strategy, exchange, maps
<1>3. \/ awaitingAck_orders_' = awaitingAck_orders_
      \/ Id(s) = 0 /\ awaitingAck_orders_' = With(awaitingAck_orders_, Token(s), s)
    BY DEF add_awaitingAck_order, Id, Token
<1>4. \A t \in DOMAIN awaitingAck_orders_' :
         \/ t \in DOMAIN awaitingAck_orders_ /\ awaitingAck_orders_'[t] = awaitingAck_orders_[t]
         \/ Id(s) = 0 /\ t = Token(s) /\ awaitingAck_orders_'[t] = s
  <2>1. CASE awaitingAck_orders_' = awaitingAck_orders_
      BY <2>1
  <2>2. CASE Id(s) = 0 /\ awaitingAck_orders_' = With(awaitingAck_orders_, Token(s), s)
    <3>1. /\ DOMAIN awaitingAck_orders_' = DOMAIN awaitingAck_orders_ \cup {Token(s)}
          /\ awaitingAck_orders_'[Token(s)] = s
          /\ \A t \in DOMAIN awaitingAck_orders_ : t # Token(s) => awaitingAck_orders_'[t] = awaitingAck_orders_[t]
        BY <2>2 DEF With
    <3> QED BY <3>1, <2>2
  <2> QED BY <1>3, <2>1, <2>2
<1>5. \A r : Token(r)' = Token(r) /\ Id(r)' = Id(r)
    BY <1>2 DEF Token, Id
<1>6. Ordered' = Ordered /\ Taken' = Taken /\ Refused' = Refused /\ Sent' = Sent /\ Answered' = Answered
    BY <1>2, WiresSame
<1>7. Queued' = Queued /\ Idle' = Idle
    BY <1>2 DEF Queued, Idle, Id
<1>8. TypeInv'
    BY <1>0, <1>1, <1>2 DEF TypeInv
<1>9. WireInv' /\ MessageInv' /\ TokenInv'
  <2>1. WireInv'
      BY <1>0, <1>2, <1>6 DEF WireInv
  <2>2. MessageInv'
      BY <1>0, <1>2 DEF MessageInv, Fits
  <2> QED BY <2>1, <2>2, <1>0, <1>2 DEF TokenInv, Token
<1>10. PlaceInv'
    BY <1>0, <1>1, <1>2, <1>5, <1>7 DEF PlaceInv
<1>11. SlotInv'
    BY <1>0, <1>1, <1>2, <1>5, <1>6, <1>7 DEF SlotInv
<1>12. MapInv'
  <2>1. \A r \in Slots : r # s => Token(r) # Token(s)
      BY <1>0, <1>1 DEF TokenInv, SlotInv
  <2>2. ASSUME NEW r \in held \cup Queued, Id(r) = 0
        PROVE  Token(r) \notin DOMAIN awaitingAck_orders_'
    <3>1. r # s /\ r \in Slots
        BY <2>2, <1>0 DEF PlaceInv
    <3> QED BY <3>1, <2>1, <2>2, <1>0, <1>4 DEF MapInv
  <2>3. ASSUME flow # "FIX", NEW r \in Range(free)
        PROVE  Token(r) \notin DOMAIN awaitingAck_orders_'
    <3>1. r # s /\ r \in Slots
        BY <2>3, <1>0 DEF PlaceInv
    <3> QED BY <3>1, <2>1, <2>3, <1>0, <1>4 DEF MapInv
  <2>4. \A t \in DOMAIN our_orders_wtokenkey_ : t \notin DOMAIN awaitingAck_orders_'
      BY <1>0, <1>1, <1>4 DEF MapInv
  <2>5. Token(s) \in 1..entered
    <3>1. Token(s) # 0 /\ Token(s) <= entered /\ Token(s) \in Nat /\ entered \in Nat
        BY <1>0, <1>1 DEF SlotInv, TokenInv, TypeInv, Token, Orders
    <3> QED BY <3>1
  <2>6. \A t \in DOMAIN awaitingAck_orders_' :
          /\ t \in 1..entered' /\ awaitingAck_orders_'[t] \in Slots
          /\ flow' # "FIX" \/ t \in Sent' => Token(awaitingAck_orders_'[t]) = t
      BY <2>5, <1>0, <1>1, <1>2, <1>4, <1>6 DEF MapInv
  <2>7. \A t : Token(awaitingAck_orders_[t])' = Token(awaitingAck_orders_'[t])
      BY <1>2 DEF Token
  <2>8. \A t : Token(our_orders_wtokenkey_[t])' = Token(our_orders_wtokenkey_[t])
               /\ Token(our_orders_[t])' = Token(our_orders_[t])
      BY <1>2 DEF Token
  <2> QED BY <2>2, <2>3, <2>4, <2>6, <2>7, <2>8, <1>0, <1>1, <1>2, <1>5, <1>7 DEF MapInv
<1>13. UrnInv'
    BY <1>0, <1>2 DEF UrnInv, Token
<1>14. AwaitInv'
  <2>1. Awaited' \subseteq Awaited
      BY <1>1, <1>4 DEF Awaited
  <2> QED BY <2>1, <1>0, <1>2, <1>6 DEF AwaitInv
<1> QED BY <1>8, <1>9, <1>10, <1>11, <1>12, <1>13, <1>14 DEF IInv

-----------------------------------------------------------------------------
(* The exchange *)

Book == [token : Nat, urn : Nat, filled : Int, leaves : Int]

\* The parts that look at the wires from outside, after a step of the exchange.
LEMMA ExchangeStep ==
  ASSUME IInv, TypeInv',
         UNCHANGED <<flow, order_pool_, free, held, entered, strategy_to_risk_, risk_to_builder_, building,
                     awaitingAck_orders_, our_orders_, our_orders_wtokenkey_, nq_ouch_refnum_ordkey_, missed>>,
         \A i \in DOMAIN wire_out' : \E j \in DOMAIN wire_out : wire_out'[i] = wire_out[j],
         \A i \in DOMAIN ex : i \in DOMAIN ex' /\ ex'[i].token = ex[i].token /\ ex'[i].urn = ex[i].urn,
         \A i \in DOMAIN ex' : i \notin DOMAIN ex =>
            \E j \in DOMAIN wire_out : /\ wire_out[j].type = "Enter" /\ wire_out[j].token = ex'[i].token
                                       /\ wire_out[j].ref = ex'[i].urn,
         Sent' = Sent, Taken \subseteq Taken', Answered \subseteq Answered', Ordered \subseteq Ordered' \cup Answered'
  PROVE  TokenInv' /\ PlaceInv' /\ SlotInv' /\ MapInv' /\ UrnInv' /\ AwaitInv'
<1>0. TypeInv /\ WireInv /\ MessageInv /\ TokenInv /\ PlaceInv /\ SlotInv /\ MapInv /\ UrnInv /\ AwaitInv
    BY DEF IInv
<1>1. \A r : Token(r)' = Token(r) /\ Id(r)' = Id(r)
    BY DEF Token, Id
<1>2. Queued' = Queued /\ Idle' = Idle
    BY DEF Queued, Idle, Id
<1>3. TokenInv' /\ PlaceInv'
    BY <1>0, <1>1, <1>2 DEF TokenInv, PlaceInv
<1>4. SlotInv'
    BY <1>0, <1>1, <1>2 DEF SlotInv
<1>5. MapInv'
  <2>1. \A t : /\ Token(awaitingAck_orders_[t])' = Token(awaitingAck_orders_[t])
               /\ Token(our_orders_wtokenkey_[t])' = Token(our_orders_wtokenkey_[t])
               /\ Token(our_orders_[t])' = Token(our_orders_[t])
      BY DEF Token
  <2>2. Token(building)' = Token(building) /\ Id(building)' = Id(building)
      BY DEF Token, Id
  <2>3. \A u \in DOMAIN nq_ouch_refnum_ordkey_ :
          nq_ouch_refnum_ordkey_[u] \in DOMAIN our_orders_ /\ ex'[nq_ouch_refnum_ordkey_[u]].urn = u
      BY <1>0 DEF MapInv
  <2>4. \A i \in DOMAIN our_orders_ :
          /\ i \in DOMAIN ex' /\ our_orders_[i] \in Slots
          /\ Token(our_orders_[i]) = ex'[i].token
          /\ flow = "BIST" => order_pool_[our_orders_[i]].status # "Unknown"
      BY <1>0 DEF MapInv
  <2> QED BY <2>1, <2>2, <2>3, <2>4, <1>0, <1>1, <1>2 DEF MapInv
<1>6. UrnInv'
  <2> SUFFICES ASSUME flow = "NASDAQ", NEW r \in Slots
               PROVE  /\ \A i \in DOMAIN wire_out' : wire_out'[i].type = "Enter" /\ wire_out'[i].token = Token(r) =>
                            wire_out'[i].ref = order_pool_[r].user_ref_num
                      /\ \A i \in DOMAIN ex' : ex'[i].token = Token(r) => ex'[i].urn = order_pool_[r].user_ref_num
      BY <1>1 DEF UrnInv
  <2>1. /\ \A i \in DOMAIN wire_out : wire_out[i].type = "Enter" /\ wire_out[i].token = Token(r) =>
                            wire_out[i].ref = order_pool_[r].user_ref_num
        /\ \A i \in DOMAIN ex : ex[i].token = Token(r) => ex[i].urn = order_pool_[r].user_ref_num
      BY <1>0 DEF UrnInv
  <2>2. \A i \in DOMAIN ex' : ex'[i].token = Token(r) => ex'[i].urn = order_pool_[r].user_ref_num
      BY <2>1
  <2> QED BY <2>1, <2>2
<1>7. AwaitInv'
  <2>1. Awaited' = Awaited
      BY DEF Awaited, Token, Id
  <2> QED BY <2>1, <1>0 DEF AwaitInv
<1> QED BY <1>3, <1>4, <1>5, <1>6, <1>7

\* The exchange says something about an order it has, or nothing.
LEMMA ExchangeSpeaks ==
  ASSUME IInv,
         \/ wire_in' = wire_in
         \/ \E m \in Messages : m.id # 0 /\ wire_in' = Append(wire_in, m) /\ Fits(m)',
         \/ wire_out' = wire_out
         \/ wire_out # <<>> /\ Head(wire_out).type = "Cancel" /\ wire_out' = Tail(wire_out),
         ex' \in Seq(Book), DOMAIN ex' = DOMAIN ex,
         \A i \in DOMAIN ex : ex'[i].token = ex[i].token /\ ex'[i].urn = ex[i].urn,
         UNCHANGED <<flow, order_pool_, strategy, strategy_to_risk_, risk_to_builder_, store_to_risk_,
                     builder, awaitingAck_orders_, maps, pending_to_strategy_, crashed, missed>>
  PROVE  IInv'
<1>0. TypeInv /\ WireInv /\ MessageInv
    BY DEF IInv
<1> USE DEF strategy, builder, maps
<1>1. wire_in \in Seq(Messages) /\ wire_out \in Seq(Requests)
    BY <1>0 DEF TypeInv
<1>2. /\ wire_in' \in Seq(Messages) /\ Refused' = Refused /\ Answered \subseteq Answered'
      /\ \A i \in DOMAIN wire_in' :
            \/ i \in DOMAIN wire_in /\ wire_in'[i] = wire_in[i]
            \/ wire_in'[i].id # 0 /\ Fits(wire_in[i])'
  <2>1. CASE wire_in' = wire_in
      BY <2>1, <1>1 DEF Refused, Answered
  <2>2. CASE \E m \in Messages : m.id # 0 /\ wire_in' = Append(wire_in, m) /\ Fits(m)'
    <3>1. PICK m \in Messages : m.id # 0 /\ wire_in' = Append(wire_in, m) /\ Fits(m)'
        BY <2>2
    <3>2. Refused' = Refused /\ Answered \subseteq Answered'
        BY <3>1, <1>1, InAppend
    <3>3. /\ wire_in' \in Seq(Messages) /\ Len(wire_in) \in Nat /\ DOMAIN wire_in = 1..Len(wire_in)
          /\ DOMAIN wire_in' = 1..Len(wire_in) + 1
          /\ wire_in'[Len(wire_in) + 1] = m /\ \A i \in DOMAIN wire_in : wire_in'[i] = wire_in[i]
        BY <3>1, <1>1, AppendFacts
    <3>4. DOMAIN wire_in' = DOMAIN wire_in \cup {Len(wire_in) + 1}
        BY <3>3
    <3>5. ASSUME NEW i \in DOMAIN wire_in', i \notin DOMAIN wire_in
          PROVE  wire_in'[i].id # 0 /\ Fits(wire_in[i])'
      <4>1. wire_in'[i] = m
          BY <3>3, <3>4, <3>5
      <4> QED BY <4>1, <3>1 DEF Fits
    <3> QED BY <3>2, <3>3, <3>5
  <2> QED BY <2>1, <2>2
<1>3. /\ wire_out' \in Seq(Requests) /\ Ordered' = Ordered
      /\ \A i \in DOMAIN wire_out' : \E j \in DOMAIN wire_out : wire_out'[i] = wire_out[j]
      /\ \A i, j \in DOMAIN wire_out' :
           wire_out'[i].type = "Enter" /\ wire_out'[j].type = "Enter" /\ wire_out'[i].token = wire_out'[j].token => i = j
  <2>1. CASE wire_out' = wire_out
      BY <2>1, <1>0, <1>1 DEF WireInv, Ordered
  <2>2. CASE wire_out # <<>> /\ Head(wire_out).type = "Cancel" /\ wire_out' = Tail(wire_out)
    <3>1. Ordered' = Ordered
        BY <2>2, <1>0, <1>1, OutTail
    <3>2. /\ wire_out' \in Seq(Requests) /\ DOMAIN wire_out' = 1..Len(wire_out) - 1 /\ Len(wire_out) \in Nat
          /\ \A i \in DOMAIN wire_out' : i + 1 \in DOMAIN wire_out /\ wire_out'[i] = wire_out[i + 1]
        BY <2>2, <1>1, TailFacts
    <3>3. \A i, j \in DOMAIN wire_out' : i + 1 = j + 1 => i = j
        BY <3>2
    <3> QED BY <3>1, <3>2, <3>3, <1>0 DEF WireInv
  <2> QED BY <2>1, <2>2
<1>4. Taken' = Taken /\ Sent' = Sent
  <2>1. Taken' = Taken
      BY DEF Taken
  <2> QED BY <2>1, <1>2, <1>3 DEF Sent
<1>5. TypeInv'
    BY <1>0, <1>2, <1>3 DEF TypeInv, Book
<1>6. WireInv'
    BY <1>0, <1>2, <1>3, <1>4 DEF WireInv
<1>7. MessageInv'
  <2>1. \A x : Fits(x) => Fits(x)'
      BY DEF Fits
  <2>2. \A i \in DOMAIN wire_in' : Fits(wire_in[i])'
    <3> SUFFICES ASSUME NEW i \in DOMAIN wire_in' PROVE Fits(wire_in[i])'
        OBVIOUS
    <3>1. CASE i \in DOMAIN wire_in /\ wire_in'[i] = wire_in[i]
        BY <3>1, <1>0 DEF MessageInv, Fits
    <3> QED BY <3>1, <1>2
  <2>3. \A i \in DOMAIN pending_to_strategy_' :
          flow' = "BIST" /\ pending_to_strategy_'[i].msg.id # 0 /\ Fits(pending_to_strategy_[i].msg)'
      BY <1>0 DEF MessageInv, Fits
  <2> QED BY <2>2, <2>3, <1>0, <1>3 DEF MessageInv
<1>8. TokenInv' /\ PlaceInv' /\ SlotInv' /\ MapInv' /\ UrnInv' /\ AwaitInv'
    BY <1>2, <1>3, <1>4, <1>5, ExchangeStep
<1> QED BY <1>5, <1>6, <1>7, <1>8 DEF IInv

LEMMA BookEntry ==
  ASSUME TypeInv
  PROVE  /\ ex \in Seq(Book)
         /\ \A i \in 1..Len(ex) : /\ i \in Nat /\ i # 0 /\ i \in DOMAIN ex /\ ex[i] \in Book
                                 /\ ex[i].leaves \in Int /\ ex[i].filled \in Int
<1>1. ex \in Seq(Book)
    BY DEF TypeInv, Book
<1>2. \A i \in 1..Len(ex) : i \in Nat /\ i # 0 /\ i \in DOMAIN ex /\ ex[i] \in Book
    BY <1>1
<1>3. \A x \in Book : x.leaves \in Int /\ x.filled \in Int
    BY DEF Book
<1> QED BY <1>1, <1>2, <1>3

LEMMA BookChange ==
  ASSUME TypeInv, NEW i \in 1..Len(ex), NEW b \in Book, b.token = ex[i].token, b.urn = ex[i].urn,
         ex' = [ex EXCEPT ![i] = b]
  PROVE  /\ ex' \in Seq(Book) /\ DOMAIN ex' = DOMAIN ex /\ i \in DOMAIN ex
         /\ \A j \in DOMAIN ex : ex'[j].token = ex[j].token /\ ex'[j].urn = ex[j].urn
<1>1. ex \in Seq(Book)
    BY DEF TypeInv, Book
<1>2. DOMAIN ex = 1..Len(ex) /\ Len(ex) \in Nat /\ ex \in [1..Len(ex) -> Book]
    BY <1>1
<1>3. ex' \in [1..Len(ex) -> Book]
    BY <1>2
<1>4. \A j \in DOMAIN ex : ex'[j] = IF j = i THEN b ELSE ex[j]
    BY <1>2
<1> QED BY <1>2, <1>3, <1>4

LEMMA AnswerFits ==
  ASSUME TypeInv, NEW i \in 1..Len(ex), NEW q \in Int, NEW type \in {"Cancelled", "Rejected", "CancelReject"}
  PROVE  LET m == Answer(type, i, q)
         IN m \in Messages /\ m.id = i /\ i # 0 /\ m.token = ex[i].token /\ m.urn = ex[i].urn /\ m.type = type
<1>1. ex[i] \in Book /\ i \in Nat /\ i # 0
    BY BookEntry
<1> QED BY <1>1 DEF Answer, Said, Messages, Book

LEMMA TakeBackInv ==
  ASSUME IInv, NEW i \in 1..Len(ex), NEW q \in Int, TakeBack(i, q),
         \/ wire_out' = wire_out
         \/ wire_out # <<>> /\ Head(wire_out).type = "Cancel" /\ wire_out' = Tail(wire_out)
  PROVE  IInv'
<1> DEFINE l == ex[i].leaves - q
           b == [ex[i] EXCEPT !.leaves = l]
           m == Answer("Cancelled", i, q)
<1>1. TypeInv
    BY DEF IInv
<1>2. ex[i] \in Book /\ ex \in Seq(Book) /\ ex[i].leaves \in Int /\ ex[i].filled \in Int /\ i \in Nat /\ i # 0
    BY <1>1, BookEntry
<1>3. b \in Book /\ b.token = ex[i].token /\ b.urn = ex[i].urn
  <2>1. l \in Int
      BY <1>2
  <2> HIDE DEF l
  <2> QED BY <2>1, <1>2 DEF Book
<1>4. ex' = [ex EXCEPT ![i] = b] /\ wire_in' = Append(wire_in, m)
    BY DEF TakeBack, Says
<1>5. UNCHANGED <<flow, order_pool_, strategy, strategy_to_risk_, risk_to_builder_, store_to_risk_,
                  builder, awaitingAck_orders_, maps, pending_to_strategy_, crashed, missed>>
    BY DEF TakeBack, Says
<1>6. m \in Messages /\ m.id = i /\ i # 0 /\ m.token = ex[i].token /\ m.urn = ex[i].urn /\ m.type = "Cancelled"
    BY <1>1, AnswerFits
<1> HIDE DEF b, m
<1>7. /\ ex' \in Seq(Book) /\ DOMAIN ex' = DOMAIN ex /\ i \in DOMAIN ex
      /\ \A j \in DOMAIN ex : ex'[j].token = ex[j].token /\ ex'[j].urn = ex[j].urn
    BY <1>1, <1>3, <1>4, BookChange
<1>8. PICK n \in Messages : n = m
    BY <1>6
<1>9. Fits(n)'
    BY <1>6, <1>7, <1>8 DEF Fits
<1> QED BY <1>4, <1>5, <1>6, <1>7, <1>8, <1>9, ExchangeSpeaks

LEMMA TradesInv == ASSUME IInv, NEW i \in 1..Len(ex), ExchangeTrades(i) PROVE IInv'
<1>1. TypeInv
    BY DEF IInv
<1>2. ex[i] \in Book /\ ex \in Seq(Book) /\ ex[i].leaves \in Int /\ ex[i].filled \in Int /\ i \in Nat /\ i # 0
    BY <1>1, BookEntry
<1>3. PICK q \in 1..ex[i].leaves :
          /\ ex' = [ex EXCEPT ![i].filled = ex[i].filled + q, ![i].leaves = ex[i].leaves - q]
          /\ Says(Said("Executed", ex[i].token, ex[i].urn, i, q, ex[i].filled + q, ex[i].leaves - q))
          /\ UNCHANGED wire_out
    BY DEF ExchangeTrades
<1> DEFINE f == ex[i].filled + q
           l == ex[i].leaves - q
           b == [ex[i] EXCEPT !.filled = f, !.leaves = l]
           m == Said("Executed", ex[i].token, ex[i].urn, i, q, f, l)
<1>4. q \in Int /\ f \in Int /\ l \in Int /\ i \in Nat /\ i # 0
    BY <1>2
<1>5. ex' = [ex EXCEPT ![i] = b]
    BY <1>2, <1>3
<1>6. wire_in' = Append(wire_in, m)
    BY <1>3 DEF Says
<1>7. UNCHANGED <<flow, order_pool_, strategy, strategy_to_risk_, risk_to_builder_, store_to_risk_,
                  builder, awaitingAck_orders_, maps, pending_to_strategy_, crashed, missed>>
    BY <1>3 DEF Says
<1> HIDE DEF f, l
<1>8. b \in Book /\ b.token = ex[i].token /\ b.urn = ex[i].urn
    BY <1>2, <1>4 DEF Book
<1>9. m \in Messages /\ m.id = i /\ i # 0 /\ m.token = ex[i].token /\ m.urn = ex[i].urn /\ m.type = "Executed"
    BY <1>2, <1>4 DEF Said, Messages, Book
<1> HIDE DEF b, m
<1>10. /\ ex' \in Seq(Book) /\ DOMAIN ex' = DOMAIN ex /\ i \in DOMAIN ex
       /\ \A j \in DOMAIN ex : ex'[j].token = ex[j].token /\ ex'[j].urn = ex[j].urn
    BY <1>1, <1>5, <1>8, BookChange
<1>11. PICK n \in Messages : n = m
    BY <1>9
<1>12. Fits(n)'
    BY <1>9, <1>10, <1>11 DEF Fits
<1> QED BY <1>3, <1>6, <1>7, <1>9, <1>10, <1>11, <1>12, ExchangeSpeaks

LEMMA TakesBackInv == ASSUME IInv, NEW i \in 1..Len(ex), ExchangeTakesBack(i) PROVE IInv'
<1>1. ex[i].leaves \in Int
    BY BookEntry DEF IInv
<1>2. PICK q \in (IF flow = "NASDAQ" THEN 1..ex[i].leaves ELSE {ex[i].leaves}) : TakeBack(i, q)
    BY DEF ExchangeTakesBack
<1>3. q \in Int
    BY <1>1, <1>2
<1>4. wire_out' = wire_out
    BY DEF ExchangeTakesBack
<1> QED BY <1>2, <1>3, <1>4, TakeBackInv

LEMMA ExchangeCancelsInv == ASSUME IInv, ExchangeCancels PROVE IInv'
<1>0. TypeInv /\ MessageInv
    BY DEF IInv
<1>1. ex \in Seq(Book) /\ wire_out \in Seq(Requests)
    BY <1>0 DEF TypeInv, Book
<1> DEFINE c == Head(wire_out)
           about == {i \in 1..Len(ex) : ExRef(i) = c.ref}
           refusal == IF flow = "FIX" THEN "CancelReject" ELSE "Rejected"
<1>2. wire_out # <<>> /\ c.type = "Cancel" /\ wire_out' = Tail(wire_out)
    BY DEF ExchangeCancels
<1>3. \/ \E i \in about : ex[i].leaves > 0 /\ TakeBack(i, ex[i].leaves)
      \/ /\ flow # "NASDAQ" /\ \E i \in about : Says(Answer(refusal, i, 0))
         /\ UNCHANGED ex
      \/ UNCHANGED <<flow, order_pool_, strategy, strategy_to_risk_, risk_to_builder_, store_to_risk_,
                     builder, ex, wire_in, awaitingAck_orders_, maps, pending_to_strategy_, crashed, missed>>
    BY DEF ExchangeCancels
<1>4. CASE \E i \in about : ex[i].leaves > 0 /\ TakeBack(i, ex[i].leaves)
  <2>1. PICK i \in 1..Len(ex) : TakeBack(i, ex[i].leaves)
      BY <1>4
  <2>2. ex[i].leaves \in Int
      BY <1>0, BookEntry
  <2> QED BY <2>1, <2>2, <1>2, TakeBackInv
<1>5. CASE /\ flow # "NASDAQ" /\ \E i \in about : Says(Answer(refusal, i, 0))
           /\ UNCHANGED ex
  <2>1. PICK i \in 1..Len(ex) : ExRef(i) = c.ref /\ Says(Answer(refusal, i, 0))
      BY <1>5
  <2>2. refusal \in {"Cancelled", "Rejected", "CancelReject"} /\ (refusal = "CancelReject" <=> flow = "FIX")
        /\ (refusal = "Rejected" <=> flow # "FIX")
      OBVIOUS
  <2>3. /\ wire_in' = Append(wire_in, Answer(refusal, i, 0))
        /\ UNCHANGED <<flow, order_pool_, strategy, strategy_to_risk_, risk_to_builder_, store_to_risk_,
                       builder, awaitingAck_orders_, maps, pending_to_strategy_, crashed, missed>>
      BY <2>1 DEF Says
  <2>4. ex[i].token = c.ref
      BY <2>1, <1>5 DEF ExRef
  <2> HIDE DEF refusal
  <2> DEFINE m == Answer(refusal, i, 0)
  <2>5. m \in Messages /\ m.id = i /\ i # 0 /\ m.token = ex[i].token /\ m.urn = ex[i].urn /\ m.type = refusal
      BY <2>2, <1>0, AnswerFits
  <2>6. wire_in' = Append(wire_in, m)
      BY <2>3
  <2> HIDE DEF m
  <2>7. flow = "BIST" => ex[i].token \in DOMAIN our_orders_wtokenkey_
    <3>1. 1 \in DOMAIN wire_out /\ c = wire_out[1]
        BY <1>1, <1>2
    <3> QED BY <3>1, <2>4, <1>0, <1>2 DEF MessageInv
  <2>8. PICK n \in Messages : n = m
      BY <2>5
  <2>9. i \in DOMAIN ex /\ flow \in {"FIX", "BIST", "NASDAQ"} /\ our_orders_wtokenkey_' = our_orders_wtokenkey_
      BY <1>0, <1>1, <2>3 DEF TypeInv, maps
  <2>10. Fits(n)'
      BY <2>2, <2>3, <2>5, <2>7, <2>8, <2>9, <1>5 DEF Fits
  <2> QED BY <2>3, <2>5, <2>6, <2>8, <2>10, <1>1, <1>2, <1>5, ExchangeSpeaks
<1>6. CASE UNCHANGED <<flow, order_pool_, strategy, strategy_to_risk_, risk_to_builder_, store_to_risk_,
                       builder, ex, wire_in, awaitingAck_orders_, maps, pending_to_strategy_, crashed, missed>>
    BY <1>1, <1>2, <1>6, ExchangeSpeaks
<1> QED BY <1>3, <1>4, <1>5, <1>6

LEMMA ExchangeAcceptsInv == ASSUME IInv, ExchangeAccepts PROVE IInv'
<1>0. TypeInv /\ WireInv /\ MessageInv
    BY DEF IInv
<1> DEFINE e == Head(wire_out)
           n == Len(ex) + 1
<1>1. wire_out \in Seq(Requests) /\ wire_in \in Seq(Messages) /\ ex \in Seq(Book)
    BY <1>0, BookEntry DEF TypeInv
<1>2. wire_out # <<>> /\ e.type = "Enter" /\ wire_out' = Tail(wire_out)
    BY DEF ExchangeAccepts
<1>3. \/ /\ ex' = Append(ex, [token |-> e.token, urn |-> e.ref, filled |-> 0, leaves |-> e.qty])
         /\ Says(Said("Accepted", e.token, e.ref, n, e.qty, 0, e.qty))
      \/ /\ Says(Said("Rejected", e.token, e.ref, 0, 0, 0, 0))
         /\ UNCHANGED ex
    BY DEF ExchangeAccepts
<1>4. /\ e \in Requests /\ Ordered' = Ordered \ {e.token} /\ e.token \in Ordered
    BY <1>0, <1>1, <1>2, OutTail
<1>5. e.token \in Nat /\ e.ref \in Nat /\ e.qty \in Int
    BY <1>4 DEF Requests
<1>6. /\ wire_out' \in Seq(Requests) /\ e = wire_out[1] /\ 1 \in DOMAIN wire_out
      /\ \A i \in DOMAIN wire_out' : \E j \in DOMAIN wire_out : wire_out'[i] = wire_out[j]
      /\ \A i, j \in DOMAIN wire_out' :
           wire_out'[i].type = "Enter" /\ wire_out'[j].type = "Enter" /\ wire_out'[i].token = wire_out'[j].token => i = j
  <2>1. /\ wire_out' \in Seq(Requests) /\ DOMAIN wire_out' = 1..Len(wire_out) - 1 /\ Len(wire_out) \in Nat
        /\ Len(wire_out) > 0 /\ DOMAIN wire_out = 1..Len(wire_out) /\ e = wire_out[1]
        /\ \A i \in DOMAIN wire_out' : i + 1 \in DOMAIN wire_out /\ wire_out'[i] = wire_out[i + 1]
      BY <1>1, <1>2, TailFacts
  <2>2. 1 \in DOMAIN wire_out /\ \A i, j \in DOMAIN wire_out' : i + 1 = j + 1 => i = j
      BY <2>1
  <2> QED BY <2>1, <2>2, <1>0 DEF WireInv
<1>7. UNCHANGED <<flow, order_pool_, free, held, entered, cancels, strategy_to_risk_, risk_to_builder_,
                  store_to_risk_, building, user_ref_num, awaitingAck_orders_, our_orders_,
                  our_orders_wtokenkey_, nq_ouch_refnum_ordkey_, pending_to_strategy_, crashed, missed>>
    BY <1>3 DEF Says, strategy, builder, maps
<1>8. n \in Nat /\ n # 0 /\ n \notin DOMAIN ex
    BY <1>1
<1> HIDE DEF e, n
<1>9. e.token \notin Taken /\ e.token \notin Refused
    BY <1>0, <1>4 DEF WireInv
\* What both answers have in common.
<1>10. ASSUME NEW m \in Messages, wire_in' = Append(wire_in, m), m.token = e.token,
              m.type = "Accepted" \/ m.type = "Rejected", Fits(m)', ex' \in Seq(Book),
              \A i \in DOMAIN ex : i \in DOMAIN ex' /\ ex'[i] = ex[i],
              \A i \in DOMAIN ex' : i \notin DOMAIN ex => ex'[i].token = e.token /\ ex'[i].urn = e.ref,
              (m.id = 0 /\ Taken' = Taken) \/ (m.id # 0 /\ Taken' = Taken \cup {e.token})
       PROVE  IInv'
  <2>1. /\ Refused' = IF m.id = 0 THEN Refused \cup {m.token} ELSE Refused
        /\ Answered \subseteq Answered' /\ m.token \in Answered'
      BY <1>1, <1>10, InAppend
  <2>2. /\ wire_in' \in Seq(Messages) /\ Len(wire_in) + 1 \notin DOMAIN wire_in
        /\ DOMAIN wire_in' = DOMAIN wire_in \cup {Len(wire_in) + 1}
        /\ wire_in'[Len(wire_in) + 1] = m /\ \A i \in DOMAIN wire_in : wire_in'[i] = wire_in[i]
    <3>1. /\ wire_in' \in Seq(Messages) /\ Len(wire_in) \in Nat /\ DOMAIN wire_in = 1..Len(wire_in)
          /\ DOMAIN wire_in' = 1..Len(wire_in) + 1
          /\ wire_in'[Len(wire_in) + 1] = m /\ \A i \in DOMAIN wire_in : wire_in'[i] = wire_in[i]
        BY <1>1, <1>10, AppendFacts
    <3> QED BY <3>1
  <2>3. Sent' = Sent
      BY <2>1, <1>4, <1>10 DEF Sent
  <2>4. TypeInv'
      BY <2>2, <1>0, <1>6, <1>7, <1>10 DEF TypeInv, Book
  <2>5. WireInv'
    <3>1. \A i \in DOMAIN wire_in : wire_in[i].id = 0 => wire_in[i].token # e.token
        BY <1>9 DEF Refused
    <3>2. \A i, j \in DOMAIN wire_in' :
            wire_in'[i].id = 0 /\ wire_in'[j].id = 0 /\ wire_in'[i].token = wire_in'[j].token => i = j
        BY <3>1, <2>2, <1>0, <1>10 DEF WireInv
    <3>3. Ordered' \cap Taken' = {} /\ Ordered' \cap Refused' = {} /\ Taken' \cap Refused' = {}
        BY <2>1, <1>0, <1>4, <1>9, <1>10 DEF WireInv
    <3> QED BY <3>2, <3>3, <2>3, <1>0, <1>6, <1>7 DEF WireInv
  <2>6. MessageInv'
    <3>1. ASSUME NEW i \in DOMAIN wire_in' PROVE Fits(wire_in[i])'
      <4>1. CASE i \in DOMAIN wire_in
        <5>1. Fits(wire_in[i]) /\ wire_in'[i] = wire_in[i]
            BY <4>1, <2>2, <1>0 DEF MessageInv
        <5> QED BY <5>1, <1>7, <1>10 DEF Fits
      <4>2. CASE i \notin DOMAIN wire_in
        <5>1. wire_in'[i] = m
            BY <4>2, <2>2
        <5> QED BY <5>1, <1>10 DEF Fits
      <4> QED BY <4>1, <4>2
    <3>2. \A i \in DOMAIN pending_to_strategy_' :
            flow' = "BIST" /\ pending_to_strategy_'[i].msg.id # 0 /\ Fits(pending_to_strategy_[i].msg)'
        BY <1>0, <1>7, <1>10 DEF MessageInv, Fits
    <3>3. flow' = "BIST" => \A i \in DOMAIN wire_out' :
            wire_out'[i].type = "Cancel" => wire_out'[i].ref \in DOMAIN our_orders_wtokenkey_'
        BY <1>0, <1>6, <1>7 DEF MessageInv
    <3> QED BY <3>1, <3>2, <3>3 DEF MessageInv
  <2>7. Taken \subseteq Taken' /\ Ordered \subseteq Ordered' \cup Answered'
      BY <2>1, <1>4, <1>10
  <2>8. \A i \in DOMAIN ex' : i \notin DOMAIN ex =>
            \E j \in DOMAIN wire_out : /\ wire_out[j].type = "Enter" /\ wire_out[j].token = ex'[i].token
                                       /\ wire_out[j].ref = ex'[i].urn
      BY <1>2, <1>6, <1>10
  <2>9. TokenInv' /\ PlaceInv' /\ SlotInv' /\ MapInv' /\ UrnInv' /\ AwaitInv'
    <3>1. \A i \in DOMAIN ex : i \in DOMAIN ex' /\ ex'[i].token = ex[i].token /\ ex'[i].urn = ex[i].urn
        BY <1>10
    <3> QED BY <3>1, <2>1, <2>3, <2>4, <2>7, <2>8, <1>6, <1>7, ExchangeStep
  <2> QED BY <2>4, <2>5, <2>6, <2>9 DEF IInv
<1>11. CASE /\ ex' = Append(ex, [token |-> e.token, urn |-> e.ref, filled |-> 0, leaves |-> e.qty])
            /\ Says(Said("Accepted", e.token, e.ref, n, e.qty, 0, e.qty))
  <2> DEFINE b == [token |-> e.token, urn |-> e.ref, filled |-> 0, leaves |-> e.qty]
             x == Said("Accepted", e.token, e.ref, n, e.qty, 0, e.qty)
  <2>1. b \in Book /\ b.token = e.token /\ b.urn = e.ref
      BY <1>5 DEF Book
  <2>2. x \in Messages /\ x.type = "Accepted" /\ x.token = e.token /\ x.urn = e.ref /\ x.id = n
      BY <1>5, <1>8 DEF Said, Messages
  <2>3. ex' = Append(ex, b) /\ wire_in' = Append(wire_in, x)
      BY <1>11 DEF Says
  <2> HIDE DEF b, x
  <2>4. /\ ex' \in Seq(Book) /\ DOMAIN ex' = DOMAIN ex \cup {n} /\ ex'[n] = b
        /\ \A i \in DOMAIN ex : i \in DOMAIN ex' /\ ex'[i] = ex[i]
    <3>1. /\ ex' \in Seq(Book) /\ Len(ex) \in Nat /\ DOMAIN ex = 1..Len(ex) /\ DOMAIN ex' = 1..Len(ex) + 1
          /\ ex'[Len(ex) + 1] = b /\ \A i \in DOMAIN ex : ex'[i] = ex[i]
        BY <2>1, <2>3, <1>1, AppendFacts
    <3> QED BY <3>1 DEF n
  <2>5. Taken' = Taken \cup {e.token}
      BY <2>1, <2>4 DEF Taken
  <2>6. \A i \in DOMAIN ex' : i \notin DOMAIN ex => ex'[i].token = e.token /\ ex'[i].urn = e.ref
      BY <2>1, <2>4
  <2>7. PICK m \in Messages : m = x
      BY <2>2
  <2>8. Fits(m)'
      BY <2>1, <2>2, <2>4, <2>7, <1>8 DEF Fits
  <2> QED BY <2>2, <2>3, <2>4, <2>5, <2>6, <2>7, <2>8, <1>8, <1>10
<1>12. CASE /\ Says(Said("Rejected", e.token, e.ref, 0, 0, 0, 0))
            /\ UNCHANGED ex
  <2> DEFINE x == Said("Rejected", e.token, e.ref, 0, 0, 0, 0)
  <2>1. x \in Messages /\ x.type = "Rejected" /\ x.token = e.token /\ x.id = 0
      BY <1>5 DEF Said, Messages
  <2>2. wire_in' = Append(wire_in, x) /\ ex' = ex
      BY <1>12 DEF Says
  <2> HIDE DEF x
  <2>3. Taken' = Taken
      BY <2>2 DEF Taken
  <2>4. PICK m \in Messages : m = x
      BY <2>1
  <2>5. Fits(m)'
      BY <2>1, <2>4 DEF Fits
  <2> QED BY <2>1, <2>2, <2>3, <2>4, <2>5, <1>1, <1>10
<1> QED BY <1>3, <1>11, <1>12

-----------------------------------------------------------------------------
(* The store: what its steps have in common *)

\* Message m was taken off the wire, or it waited and the wire is as it was.
Popped(m) ==
    /\ wire_in' \in Seq(Messages)
    /\ \A i \in DOMAIN wire_in' : \E j \in DOMAIN wire_in : wire_in'[i] = wire_in[j]
    /\ \A i, j \in DOMAIN wire_in' :
          wire_in'[i].id = 0 /\ wire_in'[j].id = 0 /\ wire_in'[i].token = wire_in'[j].token => i = j
    /\ Refused' = IF m.id = 0 THEN Refused \ {m.token} ELSE Refused
    /\ m.id = 0 => m.token \in Refused
    /\ \A t \in Answered : t \in Answered' \/ (t = m.token /\ m.type \in {"Accepted", "Rejected"})

\* The messages that wait are the ones that waited, and m perhaps.
Waiting(m) ==
    /\ pending_to_strategy_' \in Seq([msg : Messages, order : Slots])
    /\ \A i \in DOMAIN pending_to_strategy_' :
          \/ \E j \in DOMAIN pending_to_strategy_ : pending_to_strategy_'[i] = pending_to_strategy_[j]
          \/ pending_to_strategy_'[i].msg = m /\ m.id # 0 /\ flow = "BIST"

\* What no step of the store changes.
Elsewhere == UNCHANGED <<flow, held, entered, cancels, strategy_to_risk_, risk_to_builder_, building, user_ref_num,
                         wire_out, ex>>

\* The slot of an order that the exchange may speak of.
Out(s) == s \notin Range(free) /\ s \notin held /\ (Id(s) = 0 => s \notin Queued /\ s # building)

LEMMA StoreWires ==
  ASSUME IInv, NEW m \in Messages, Fits(m), Popped(m), Waiting(m), Elsewhere,
         DOMAIN our_orders_wtokenkey_ \subseteq DOMAIN our_orders_wtokenkey_'
  PROVE  WireInv' /\ MessageInv' /\ Taken' = Taken /\ Ordered' = Ordered /\ Refused' \subseteq Refused
         /\ Sent' \subseteq Sent
<1>0. WireInv /\ MessageInv
    BY DEF IInv
<1>1. Taken' = Taken /\ Ordered' = Ordered /\ Refused' \subseteq Refused
    BY DEF Taken, Ordered, Elsewhere, Popped
<1>2. Sent' \subseteq Sent
    BY <1>1 DEF Sent
<1>3. WireInv'
  <2>1. Ordered' \cap Taken' = {} /\ Ordered' \cap Refused' = {} /\ Taken' \cap Refused' = {}
        /\ Sent' \subseteq 1..entered'
      BY <1>0, <1>1, <1>2 DEF WireInv, Elsewhere
  <2> QED BY <2>1, <1>0 DEF WireInv, Elsewhere, Popped
<1>4. MessageInv'
  <2>1. ASSUME NEW x, Fits(x)
        PROVE  /\ x.id = 0 => x.type = "Rejected"
               /\ x.id # 0 => /\ x.id \in DOMAIN ex' /\ x.token = ex'[x.id].token /\ x.urn = ex'[x.id].urn
                              /\ x.type = "Rejected" => flow' = "BIST" /\ x.token \in DOMAIN our_orders_wtokenkey_'
                              /\ x.type = "CancelReject" => flow' = "FIX"
      BY <2>1 DEF Fits, Elsewhere
  <2>2. \A i \in DOMAIN wire_in' : Fits(wire_in[i])'
      BY <2>1, <1>0 DEF MessageInv, Popped, Fits
  <2>3. ASSUME NEW i \in DOMAIN pending_to_strategy_'
        PROVE  flow' = "BIST" /\ pending_to_strategy_'[i].msg.id # 0 /\ Fits(pending_to_strategy_[i].msg)'
    <3>1. /\ flow = "BIST" /\ pending_to_strategy_'[i].msg.id # 0 /\ Fits(pending_to_strategy_'[i].msg)
        BY <1>0 DEF MessageInv, Waiting
    <3> QED BY <3>1, <2>1 DEF Fits, Elsewhere
  <2>4. flow' = "BIST" => \A i \in DOMAIN wire_out' :
            wire_out'[i].type = "Cancel" => wire_out'[i].ref \in DOMAIN our_orders_wtokenkey_'
      BY <1>0 DEF MessageInv, Elsewhere
  <2> QED BY <2>2, <2>3, <2>4 DEF MessageInv
<1> QED BY <1>1, <1>2, <1>3, <1>4

\* A step of the store that gives no slot back: it writes to the orders in S
\* and may register them.
LEMMA StoreUpdate ==
  ASSUME IInv, NEW m \in Messages, Fits(m), Popped(m), Waiting(m), Elsewhere, free' = free,
         missed \subseteq missed', store_to_risk_' \in Seq(Slots),
         NEW S, S \subseteq Slots, \A s \in S : Token(s) \in Taken /\ Out(s),
         order_pool_' \in [Slots -> Orders],
         \A s \in Slots : s \notin S => order_pool_'[s] = order_pool_[s],
         \A s \in S : /\ order_pool_'[s].client_order_id = order_pool_[s].client_order_id
                      /\ order_pool_'[s].user_ref_num = order_pool_[s].user_ref_num
                      /\ order_pool_'[s].message_type = order_pool_[s].message_type
                      /\ order_pool_'[s].order_id = order_pool_[s].order_id \/ order_pool_'[s].order_id # 0
                      /\ order_pool_'[s].status = order_pool_[s].status \/ order_pool_'[s].status # "Unknown"
                      /\ flow = "BIST" /\ order_pool_'[s].order_id # 0 => Token(s) \in DOMAIN our_orders_wtokenkey_',
         DOMAIN our_orders_ \subseteq DOMAIN our_orders_',
         \A i \in DOMAIN our_orders_' :
            \/ i \in DOMAIN our_orders_ /\ our_orders_'[i] = our_orders_[i]
            \/ /\ our_orders_'[i] \in S /\ i \in DOMAIN ex /\ ex[i].token = Token(our_orders_'[i])
               /\ flow = "BIST" => order_pool_'[our_orders_'[i]].status # "Unknown",
         DOMAIN our_orders_wtokenkey_ \subseteq DOMAIN our_orders_wtokenkey_',
         \A t \in DOMAIN our_orders_wtokenkey_' :
            \/ t \in DOMAIN our_orders_wtokenkey_ /\ our_orders_wtokenkey_'[t] = our_orders_wtokenkey_[t]
            \/ /\ our_orders_wtokenkey_'[t] \in S /\ t = Token(our_orders_wtokenkey_'[t])
               /\ flow = "BIST" /\ order_pool_'[our_orders_wtokenkey_'[t]].status # "Unknown"
               /\ t \notin DOMAIN awaitingAck_orders_',
         \A u \in DOMAIN nq_ouch_refnum_ordkey_' :
            \/ u \in DOMAIN nq_ouch_refnum_ordkey_ /\ nq_ouch_refnum_ordkey_'[u] = nq_ouch_refnum_ordkey_[u]
            \/ nq_ouch_refnum_ordkey_'[u] \in DOMAIN our_orders_' /\ ex[nq_ouch_refnum_ordkey_'[u]].urn = u,
         \A t \in DOMAIN awaitingAck_orders_' :
            t \in DOMAIN awaitingAck_orders_ /\ awaitingAck_orders_'[t] = awaitingAck_orders_[t],
         flow # "FIX" /\ m.type \in {"Accepted", "Rejected"} => m.token \in missed' \/ m.token \notin Awaited'
  PROVE  IInv'
<1>0. TypeInv /\ WireInv /\ MessageInv /\ TokenInv /\ PlaceInv /\ SlotInv /\ MapInv /\ UrnInv /\ AwaitInv
      /\ Queued \subseteq Slots /\ Range(free) \subseteq Slots /\ held \subseteq Slots
    BY QueuesInSlots DEF IInv, TypeInv
<1>1. WireInv' /\ MessageInv' /\ Taken' = Taken /\ Ordered' = Ordered /\ Sent' \subseteq Sent
    BY StoreWires
<1>2. \A s \in Slots : Token(s)' = Token(s)
    BY DEF Token
<1>3. \A s \in Slots : Id(s) # 0 => Id(s)' # 0
    BY DEF Id
<1>4. Queued' = Queued
    BY DEF Queued, Elsewhere
<1>5. TypeInv'
    BY <1>0 DEF TypeInv, Elsewhere, Popped, Waiting
<1>6. TokenInv'
    BY <1>0, <1>2 DEF TokenInv, Elsewhere
\* Where a slot may not be, its order is not written.
<1>7. \A s \in Range(free) \cup held : s \in Slots /\ order_pool_'[s] = order_pool_[s]
    BY <1>0 DEF Out
<1>8. \A s \in Queued \cup {building} : s \in Slots /\ Id(s)' = 0 => order_pool_'[s] = order_pool_[s] /\ Id(s) = 0 /\ s \notin S
    BY <1>0, <1>3 DEF Out, Id
<1>9. PlaceInv'
    BY <1>0, <1>4, <1>8 DEF PlaceInv, Elsewhere
<1>10. SlotInv'
  <2>1. \A s \in Range(free') \cup held' : Id(s)' = 0
      BY <1>0, <1>7 DEF SlotInv, Elsewhere, Id
  <2>2. \A s \in Queued' \cup (held' \cup {building'}) : s \in Slots => Token(s)' # 0
      BY <1>0, <1>2, <1>4 DEF SlotInv, Elsewhere
  <2>3. \A s \in Queued' : Id(s)' # 0 => order_pool_'[s].message_type = "Cancel"
    <3> SUFFICES ASSUME NEW s \in Queued, Id(s)' # 0 PROVE order_pool_'[s].message_type = "Cancel"
        BY <1>4
    <3>1. Id(s) # 0
        BY <1>0 DEF Out, Id
    <3>2. order_pool_'[s].message_type = order_pool_[s].message_type
        BY <1>0
    <3> QED BY <3>1, <3>2, <1>0 DEF SlotInv
  <2>4. \A s \in Slots : order_pool_'[s].message_type = "Cancel" => Id(s)' # 0
      BY <1>0, <1>3 DEF SlotInv
  <2>5. \A s \in Idle' : Token(s)' \notin Sent'
    <3> SUFFICES ASSUME NEW s \in Idle' PROVE Token(s)' \notin Sent'
        OBVIOUS
    <3>1. s \in Slots /\ s \in Idle
        BY <1>4, <1>8 DEF Idle, Elsewhere
    <3> QED BY <3>1, <1>0, <1>1, <1>2 DEF SlotInv
  <2>6. \A s \in Slots : Id(s)' # 0 => Token(s)' \in Taken'
    <3> SUFFICES ASSUME NEW s \in Slots, Id(s)' # 0 PROVE Token(s) \in Taken
        BY <1>1, <1>2
    <3> QED BY <1>0 DEF SlotInv, Id
  <2>7. \A s \in Slots : Id(s)' # 0 /\ flow' = "BIST" => Token(s)' \in DOMAIN our_orders_wtokenkey_'
    <3> SUFFICES ASSUME NEW s \in Slots, Id(s)' # 0, flow = "BIST" PROVE Token(s) \in DOMAIN our_orders_wtokenkey_'
        BY <1>2 DEF Elsewhere
    <3> QED BY <1>0 DEF SlotInv, Id
  <2>8. \A s \in Slots : order_pool_'[s].status # "Unknown" => Token(s)' \in Taken'
      BY <1>0, <1>1, <1>2 DEF SlotInv
  <2> QED BY <2>1, <2>2, <2>3, <2>4, <2>5, <2>6, <2>7, <2>8 DEF SlotInv
<1>11. MapInv'
  <2>1. \A i \in DOMAIN our_orders_' :
          /\ i \in DOMAIN ex' /\ our_orders_'[i] \in Slots
          /\ Token(our_orders_'[i]) = ex'[i].token
          /\ flow' = "BIST" => order_pool_'[our_orders_'[i]].status # "Unknown"
    <3> SUFFICES ASSUME NEW i \in DOMAIN our_orders_'
                 PROVE  /\ i \in DOMAIN ex /\ our_orders_'[i] \in Slots
                        /\ Token(our_orders_'[i]) = ex[i].token
                        /\ flow = "BIST" => order_pool_'[our_orders_'[i]].status # "Unknown"
        BY DEF Elsewhere
    <3>1. CASE i \in DOMAIN our_orders_ /\ our_orders_'[i] = our_orders_[i]
      <4>1. /\ i \in DOMAIN ex /\ our_orders_'[i] \in Slots
            /\ Token(our_orders_'[i]) = ex[i].token
            /\ flow = "BIST" => order_pool_[our_orders_'[i]].status # "Unknown"
          BY <3>1, <1>0 DEF MapInv
      <4> QED BY <4>1
    <3> QED BY <3>1
  <2>2. \A t \in DOMAIN our_orders_wtokenkey_' :
          /\ our_orders_wtokenkey_'[t] \in Slots /\ Token(our_orders_wtokenkey_'[t]) = t
          /\ flow' = "BIST" /\ order_pool_'[our_orders_wtokenkey_'[t]].status # "Unknown"
          /\ t \notin DOMAIN awaitingAck_orders_'
    <3> SUFFICES ASSUME NEW t \in DOMAIN our_orders_wtokenkey_'
                 PROVE  /\ our_orders_wtokenkey_'[t] \in Slots /\ Token(our_orders_wtokenkey_'[t]) = t
                        /\ flow = "BIST" /\ order_pool_'[our_orders_wtokenkey_'[t]].status # "Unknown"
                        /\ t \notin DOMAIN awaitingAck_orders_'
        BY DEF Elsewhere
    <3>1. CASE t \in DOMAIN our_orders_wtokenkey_ /\ our_orders_wtokenkey_'[t] = our_orders_wtokenkey_[t]
      <4>1. /\ our_orders_wtokenkey_'[t] \in Slots /\ Token(our_orders_wtokenkey_'[t]) = t
            /\ flow = "BIST" /\ order_pool_[our_orders_wtokenkey_'[t]].status # "Unknown"
            /\ t \notin DOMAIN awaitingAck_orders_
          BY <3>1, <1>0 DEF MapInv
      <4> QED BY <4>1
    <3> QED BY <3>1
  <2>3. \A u \in DOMAIN nq_ouch_refnum_ordkey_' :
          nq_ouch_refnum_ordkey_'[u] \in DOMAIN our_orders_' /\ ex'[nq_ouch_refnum_ordkey_'[u]].urn = u
      BY <1>0 DEF MapInv, Elsewhere
  <2>4. \A t \in DOMAIN awaitingAck_orders_' :
          /\ t \in 1..entered' /\ awaitingAck_orders_'[t] \in Slots
          /\ flow' # "FIX" \/ t \in Sent' => Token(awaitingAck_orders_'[t]) = t
      BY <1>0, <1>1 DEF MapInv, Elsewhere
  <2>5. \A s \in held' \cup Queued' \cup {building'} :
            s \in Slots /\ Id(s)' = 0 => Token(s)' \notin DOMAIN awaitingAck_orders_'
    <3> SUFFICES ASSUME NEW s \in held \cup Queued \cup {building}, s \in Slots, Id(s)' = 0
                 PROVE  Token(s) \notin DOMAIN awaitingAck_orders_
        BY <1>2, <1>4 DEF Elsewhere
    <3>1. Id(s) = 0
        BY <1>3
    <3> QED BY <3>1, <1>0 DEF MapInv
  <2>6. flow' # "FIX" => \A s \in Range(free') : Token(s)' \notin DOMAIN awaitingAck_orders_'
      BY <1>0, <1>2 DEF MapInv, Elsewhere
  <2>7. building' \in Slots /\ Id(building)' = 0 =>
          building' \notin Range(our_orders_') /\ Token(building)' \notin DOMAIN our_orders_wtokenkey_'
    <3> SUFFICES ASSUME building \in Slots, order_pool_'[building].order_id = 0
                 PROVE  building \notin Range(our_orders_') /\ Token(building) \notin DOMAIN our_orders_wtokenkey_'
        BY <1>2 DEF Elsewhere, Id, Token
    <3>1. Id(building) = 0 /\ building \notin S
        BY <1>8 DEF Id
    <3>2. building \notin Range(our_orders_) /\ Token(building) \notin DOMAIN our_orders_wtokenkey_
        BY <3>1, <1>0 DEF MapInv
    <3>3. building \notin Range(our_orders_')
        BY <3>1, <3>2 DEF Range
    <3>4. \A s \in S : Token(s) # Token(building)
      <4>1. Token(building) # 0
          BY <1>0 DEF SlotInv
      <4> QED BY <4>1, <3>1, <1>0 DEF TokenInv
    <3> QED BY <3>2, <3>3, <3>4
  <2>8. /\ \A i \in DOMAIN our_orders_' : Token(our_orders_[i])' = Token(our_orders_'[i])
        /\ \A t \in DOMAIN our_orders_wtokenkey_' : Token(our_orders_wtokenkey_[t])' = Token(our_orders_wtokenkey_'[t])
        /\ \A t \in DOMAIN awaitingAck_orders_' : Token(awaitingAck_orders_[t])' = Token(awaitingAck_orders_'[t])
      BY <2>1, <2>2, <2>4 DEF Token
  <2> QED BY <2>1, <2>2, <2>3, <2>4, <2>5, <2>6, <2>7, <2>8 DEF MapInv
<1>12. UrnInv'
  <2>1. \A s \in Slots : order_pool_'[s].user_ref_num = order_pool_[s].user_ref_num
      OBVIOUS
  <2> QED BY <2>1, <1>0, <1>2 DEF UrnInv, Elsewhere
<1>13. AwaitInv'
  <2> SUFFICES ASSUME flow # "FIX", NEW t \in Awaited' PROVE t \in missed' \/ t \in Ordered' \/ t \in Answered'
      BY DEF AwaitInv, Elsewhere
  <2>1. t \in Awaited
      BY <1>2, <1>8 DEF Awaited, Elsewhere
  <2>2. t \in missed \/ t \in Ordered \/ t \in Answered
      BY <2>1, <1>0 DEF AwaitInv
  <2> QED BY <2>2, <1>1 DEF Popped
<1> QED BY <1>1, <1>5, <1>6, <1>9, <1>10, <1>11, <1>12, <1>13 DEF IInv

\* A refused order: its slot goes back to the strategy.  It is in no place
\* where it could still be used.
LEMMA StoreFree ==
  ASSUME IInv, NEW m \in Messages, Fits(m), Popped(m), Waiting(m), Elsewhere, m.id = 0,
         m.token \in DOMAIN awaitingAck_orders_, free' = Append(free, awaitingAck_orders_[m.token]),
         UNCHANGED <<order_pool_, our_orders_, our_orders_wtokenkey_, nq_ouch_refnum_ordkey_, store_to_risk_>>,
         missed \subseteq missed',
         \/ flow = "FIX" /\ awaitingAck_orders_' = awaitingAck_orders_
         \/ awaitingAck_orders_' = Without(awaitingAck_orders_, m.token)
  PROVE  IInv'
<1>0. TypeInv /\ WireInv /\ MessageInv /\ TokenInv /\ PlaceInv /\ SlotInv /\ MapInv /\ UrnInv /\ AwaitInv
      /\ Queued \subseteq Slots /\ Range(free) \subseteq Slots /\ held \subseteq Slots
    BY QueuesInSlots DEF IInv, TypeInv
<1> DEFINE t == m.token
           s == awaitingAck_orders_[t]
<1>1. WireInv' /\ MessageInv' /\ Taken' = Taken /\ Ordered' = Ordered /\ Sent' \subseteq Sent
    BY StoreWires
<1>2. t \in Refused /\ t \in Sent /\ t \notin Taken /\ t \notin Sent' /\ t # 0
  <2>1. t \in Refused /\ t \notin Refused'
      BY DEF Popped
  <2>2. t \in Sent /\ t \notin Taken /\ t \notin Ordered
      BY <2>1, <1>0 DEF WireInv, Sent
  <2> QED BY <2>1, <2>2, <1>0, <1>1 DEF Sent, WireInv
<1>3. s \in Slots /\ Token(s) = t /\ free' = Append(free, s)
    BY <1>0, <1>2 DEF MapInv
<1>4. \A x \in DOMAIN awaitingAck_orders_' :
         /\ x \in DOMAIN awaitingAck_orders_ /\ awaitingAck_orders_'[x] = awaitingAck_orders_[x]
         /\ flow # "FIX" => x # t
    BY DEF Without, Restrict
<1>5. t \in DOMAIN awaitingAck_orders_
    OBVIOUS
<1> HIDE DEF s, t
<1>6. Id(s) = 0 /\ s \notin Idle
    BY <1>0, <1>2, <1>3 DEF SlotInv
<1>7. s \notin Range(free) /\ s \notin held /\ s \notin Queued
    BY <1>3, <1>6 DEF Idle
<1>8. s # building
    BY <1>0, <1>3, <1>5, <1>6 DEF MapInv
<1>9. /\ free' \in Seq(Slots) /\ Range(free') = Range(free) \cup {s} /\ IsInjective(free')
    BY <1>0, <1>3, <1>7, QueueAppend, AppendFacts DEF TypeInv, PlaceInv
<1>10. \A r : Token(r)' = Token(r) /\ Id(r)' = Id(r)
    BY DEF Token, Id
<1>11. Queued' = Queued
    BY DEF Queued, Elsewhere
<1>12. TypeInv'
    BY <1>0, <1>9 DEF TypeInv, Elsewhere, Popped, Waiting
<1>13. TokenInv'
    BY <1>0, <1>10 DEF TokenInv, Elsewhere
<1>14. PlaceInv'
    BY <1>0, <1>7, <1>8, <1>9, <1>10, <1>11 DEF PlaceInv, Elsewhere
<1>15. SlotInv'
  <2>1. \A r \in Idle' : Token(r)' \notin Sent'
    <3> SUFFICES ASSUME NEW r \in Idle' PROVE Token(r) \notin Sent'
        BY <1>10
    <3>1. r = s \/ r \in Idle
        BY <1>9, <1>10, <1>11 DEF Idle, Elsewhere
    <3> QED BY <3>1, <1>0, <1>1, <1>2, <1>3 DEF SlotInv
  <2>2. \A r \in Range(free') \cup held' : Id(r)' = 0
      BY <1>0, <1>6, <1>9, <1>10 DEF SlotInv, Elsewhere
  <2> QED BY <2>1, <2>2, <1>0, <1>1, <1>10, <1>11 DEF SlotInv, Elsewhere
<1>16. MapInv'
  <2>1. \A x : /\ Token(awaitingAck_orders_[x])' = Token(awaitingAck_orders_'[x])
               /\ Token(our_orders_wtokenkey_[x])' = Token(our_orders_wtokenkey_[x])
               /\ Token(our_orders_[x])' = Token(our_orders_[x])
      BY DEF Token
  <2>2. Token(building)' = Token(building) /\ Id(building)' = Id(building)
      BY DEF Token, Id, Elsewhere
  <2>3. \A x \in DOMAIN awaitingAck_orders_' :
          /\ x \in 1..entered' /\ awaitingAck_orders_'[x] \in Slots
          /\ flow' # "FIX" \/ x \in Sent' => Token(awaitingAck_orders_'[x]) = x
      BY <1>0, <1>1, <1>4 DEF MapInv, Elsewhere
  <2>4. \A r \in held' \cup Queued' \cup {building'} :
            r \in Slots /\ Id(r)' = 0 => Token(r)' \notin DOMAIN awaitingAck_orders_'
      BY <1>0, <1>4, <1>10, <1>11 DEF MapInv, Elsewhere
  <2>5. flow' # "FIX" => \A r \in Range(free') : Token(r)' \notin DOMAIN awaitingAck_orders_'
      BY <1>0, <1>3, <1>4, <1>9, <1>10 DEF MapInv, Elsewhere
  <2>6. \A x \in DOMAIN our_orders_wtokenkey_ : x \notin DOMAIN awaitingAck_orders_'
      BY <1>0, <1>4 DEF MapInv
  <2> QED BY <2>1, <2>2, <2>3, <2>4, <2>5, <2>6, <1>0 DEF MapInv, Elsewhere
<1>17. UrnInv'
    BY <1>0, <1>10 DEF UrnInv, Elsewhere
<1>18. AwaitInv'
  <2> SUFFICES ASSUME flow # "FIX", NEW x \in Awaited' PROVE x \in missed' \/ x \in Ordered' \/ x \in Answered'
      BY DEF AwaitInv, Elsewhere
  <2>1. x \in Awaited
      BY <1>4, <1>10 DEF Awaited, Elsewhere
  <2>2. x # t
    <3>1. \A r \in Slots : r # s => Token(r) # t
        BY <1>0, <1>2, <1>3 DEF TokenInv
    <3> QED BY <3>1, <1>4, <1>8, <1>10 DEF Awaited, Elsewhere
  <2>3. x \in missed \/ x \in Ordered \/ x \in Answered
      BY <2>1, <1>0 DEF AwaitInv
  <2> QED BY <2>2, <2>3, <1>1 DEF Popped, t
<1> QED BY <1>1, <1>12, <1>13, <1>14, <1>15, <1>16, <1>17, <1>18 DEF IInv

\* The slots messages lead to.
LEMMA FoundAwaiting ==
  ASSUME IInv, NEW t \in DOMAIN awaitingAck_orders_, t \in Sent
  PROVE  awaitingAck_orders_[t] \in Slots /\ Token(awaitingAck_orders_[t]) = t /\ Out(awaitingAck_orders_[t])
<1>0. TypeInv /\ SlotInv /\ MapInv
    BY DEF IInv
<1>1. PICK s \in Slots : s = awaitingAck_orders_[t]
    BY <1>0 DEF MapInv
<1>2. Token(s) = t
    BY <1>0, <1>1 DEF MapInv
<1>3. s \notin Idle
    BY <1>0, <1>2 DEF SlotInv
<1>4. Id(s) = 0 => s # building
    BY <1>0, <1>2 DEF MapInv
<1> QED BY <1>1, <1>2, <1>3, <1>4 DEF Idle, Out

LEMMA FoundById ==
  ASSUME IInv, NEW i \in DOMAIN our_orders_
  PROVE  /\ our_orders_[i] \in Slots /\ i \in DOMAIN ex /\ Token(our_orders_[i]) = ex[i].token
         /\ Token(our_orders_[i]) \in Taken /\ Out(our_orders_[i])
         /\ flow = "BIST" => order_pool_[our_orders_[i]].status # "Unknown"
<1>0. TypeInv /\ SlotInv /\ MapInv
    BY DEF IInv
<1>1. PICK s \in Slots : s = our_orders_[i]
    BY <1>0 DEF MapInv
<1>2. Token(s) = ex[i].token /\ i \in DOMAIN ex /\ (flow = "BIST" => order_pool_[s].status # "Unknown")
    BY <1>0, <1>1 DEF MapInv
<1>3. Token(s) \in Taken
    BY <1>2 DEF Taken
<1>4. s \notin Idle
    BY <1>0, <1>3 DEF SlotInv, Sent
<1>5. s \in Range(our_orders_)
    BY <1>1 DEF Range
<1>6. Id(s) = 0 => s # building
    BY <1>0, <1>5 DEF MapInv
<1> QED BY <1>1, <1>2, <1>3, <1>4, <1>6 DEF Idle, Out

LEMMA FoundByToken ==
  ASSUME IInv, NEW t \in DOMAIN our_orders_wtokenkey_
  PROVE  /\ our_orders_wtokenkey_[t] \in Slots /\ Token(our_orders_wtokenkey_[t]) = t
         /\ t \in Taken /\ Out(our_orders_wtokenkey_[t])
         /\ order_pool_[our_orders_wtokenkey_[t]].status # "Unknown"
<1>0. TypeInv /\ SlotInv /\ MapInv
    BY DEF IInv
<1>1. PICK s \in Slots : s = our_orders_wtokenkey_[t]
    BY <1>0 DEF MapInv
<1>2. Token(s) = t /\ order_pool_[s].status # "Unknown"
    BY <1>0, <1>1 DEF MapInv
<1>3. t \in Taken
    BY <1>0, <1>2 DEF SlotInv
<1>4. s \notin Idle
    BY <1>0, <1>2, <1>3 DEF SlotInv, Sent
<1>5. Id(s) = 0 => s # building
    BY <1>0, <1>2 DEF MapInv
<1> QED BY <1>1, <1>2, <1>3, <1>4, <1>5 DEF Idle, Out

\* What every filler leaves alone and what it writes.
LEMMA FilledFacts ==
  ASSUME NEW o \in Orders, NEW m \in Messages, m.type \in {"Accepted", "Executed", "Cancelled"},
         flow \in {"FIX", "BIST", "NASDAQ"}
  PROVE  LET f == Filled(o, m)
         IN /\ f \in Orders /\ f.client_order_id = o.client_order_id /\ f.user_ref_num = o.user_ref_num
            /\ f.message_type = o.message_type /\ f.status # "Unknown"
            /\ f.order_id = IF m.type = "Accepted" THEN m.id ELSE o.order_id
<1>1. /\ m.qty \in Int /\ m.filled \in Int /\ m.leaves \in Int /\ m.id \in Nat
      /\ o.quantity \in Int /\ o.filled_quantity \in Int /\ o.remaining_quantity \in Int
  <2>2. m.qty \in Int /\ m.filled \in Int /\ m.leaves \in Int /\ m.id \in Nat
      BY DEF Messages
  <2>3. o.quantity \in Int /\ o.filled_quantity \in Int /\ o.remaining_quantity \in Int
      BY DEF Orders
  <2> QED BY <2>2, <2>3
<1>2. CASE m.type = "Accepted"
  <2> DEFINE fq == IF flow = "NASDAQ" THEN 0 ELSE o.filled_quantity
             sy == IF flow = "FIX" THEN "NewSeen" ELSE o.syncState
             f == [o EXCEPT !.quantity = m.qty, !.remaining_quantity = m.qty, !.status = "New", !.order_id = m.id,
                            !.filled_quantity = fq, !.syncState = sy]
  <2>1. Filled(o, m) = f
      BY <1>2 DEF Filled, fill_accepted
  <2>2. fq \in Int /\ sy \in {"WaitingNew", "NewSeen"}
      BY <1>1 DEF Orders
  <2> HIDE DEF fq, sy
  <2>3. f \in Orders /\ f.client_order_id = o.client_order_id /\ f.user_ref_num = o.user_ref_num
            /\ f.message_type = o.message_type /\ f.status # "Unknown" /\ f.order_id = m.id
      BY <2>2, <1>1 DEF Orders, Statuses
  <2> QED BY <2>1, <2>3, <1>2
<1>3. CASE m.type = "Executed"
  <2>1. CASE flow = "FIX"
    <3> DEFINE st == IF m.leaves > 0 THEN "Partial" ELSE "Filled"
               f == [o EXCEPT !.filled_quantity = m.filled, !.remaining_quantity = m.leaves, !.status = st]
    <3>1. Filled(o, m) = f
        BY <1>3, <2>1 DEF Filled, fill_executed
    <3>2. st \in Statuses /\ st # "Unknown"
        BY DEF Statuses
    <3> HIDE DEF st
    <3>3. f \in Orders /\ f.client_order_id = o.client_order_id /\ f.user_ref_num = o.user_ref_num
              /\ f.message_type = o.message_type /\ f.status # "Unknown" /\ f.order_id = o.order_id
        BY <3>2, <1>1 DEF Orders
    <3> QED BY <3>1, <3>3, <1>3
  <2>2. CASE flow # "FIX"
    <3> DEFINE st == IF o.filled_quantity + m.qty < o.quantity THEN "Partial" ELSE "Filled"
               fq == o.filled_quantity + m.qty
               rq == Sub(o.remaining_quantity, m.qty)
               f == [o EXCEPT !.filled_quantity = fq, !.remaining_quantity = rq, !.status = st]
    <3>1. Filled(o, m) = f
        BY <1>3, <2>2 DEF Filled, fill_executed
    <3>2. st \in Statuses /\ st # "Unknown" /\ fq \in Int /\ rq \in Int
      <4>1. fq \in Int
          BY <1>1
      <4>2. rq \in Int
          BY <1>1, Consts DEF Sub
      <4>3. st \in Statuses /\ st # "Unknown"
          BY DEF Statuses
      <4> QED BY <4>1, <4>2, <4>3
    <3> HIDE DEF st, fq, rq
    <3>3. f \in Orders /\ f.client_order_id = o.client_order_id /\ f.user_ref_num = o.user_ref_num
              /\ f.message_type = o.message_type /\ f.status # "Unknown" /\ f.order_id = o.order_id
        BY <3>2 DEF Orders
    <3> QED BY <3>1, <3>3, <1>3
  <2> QED BY <2>1, <2>2
<1>4. CASE m.type = "Cancelled"
  <2> DEFINE st == IF flow = "NASDAQ" THEN "Cancelled" ELSE "Deleted"
             fq == IF flow = "FIX" THEN m.filled ELSE o.filled_quantity
             rq == IF flow = "NASDAQ" THEN Sub(o.remaining_quantity, m.qty) ELSE 0
             f == [o EXCEPT !.filled_quantity = fq, !.remaining_quantity = rq, !.status = st]
  <2>1. Filled(o, m) = fill_cancelled(o, m)
      BY <1>4 DEF Filled
  <2>2. st \in Statuses /\ st # "Unknown" /\ fq \in Int /\ rq \in Int
    <3>1. fq \in Int
        BY <1>1
    <3>2. rq \in Int
        BY <1>1, Consts DEF Sub
    <3>3. st \in Statuses /\ st # "Unknown"
        BY DEF Statuses
    <3> QED BY <3>1, <3>2, <3>3
  <2>3. fill_cancelled(o, m) = f
    <3>1. CASE flow = "NASDAQ"
        BY <3>1 DEF fill_cancelled, Orders
    <3>2. CASE flow = "BIST"
        BY <3>2 DEF fill_cancelled, Orders
    <3>3. CASE flow = "FIX"
        BY <3>3 DEF fill_cancelled, Orders
    <3> QED BY <3>1, <3>2, <3>3
  <2> HIDE DEF st, fq, rq
  <2>4. f \in Orders /\ f.client_order_id = o.client_order_id /\ f.user_ref_num = o.user_ref_num
            /\ f.message_type = o.message_type /\ f.status # "Unknown" /\ f.order_id = o.order_id
      BY <2>2 DEF Orders
  <2> QED BY <2>1, <2>3, <2>4, <1>4
<1> QED BY <1>2, <1>3, <1>4

-----------------------------------------------------------------------------
(* The store: update_order *)

Pending == [msg : Messages, order : Slots]

\* Nobody awaits the order any more, nor is the builder about to.
LEMMA NotAwaited ==
  ASSUME IInv, NEW s \in Slots, Out(s), Token(s) # 0, Elsewhere, Token(s) \notin DOMAIN awaitingAck_orders_',
         \A r \in Slots : r # s => order_pool_'[r] = order_pool_[r],
         order_pool_'[s].order_id = order_pool_[s].order_id \/ order_pool_'[s].order_id # 0
  PROVE  Token(s) \notin Awaited'
<1>1. \A r \in Slots : r # s => Token(r) # Token(s)
    BY DEF IInv, TokenInv
<1>2. s = building => order_pool_'[s].order_id # 0
    BY DEF Out, Id
<1> QED BY <1>1, <1>2 DEF Awaited, Elsewhere, Token, Id

\* Nothing happens to orders and maps: the message is dropped or parked.
LEMMA StoreQuiet ==
  ASSUME IInv, NEW m \in Messages, Fits(m), Popped(m), Waiting(m), Elsewhere,
         UNCHANGED <<order_pool_, free, awaitingAck_orders_, our_orders_, our_orders_wtokenkey_,
                     nq_ouch_refnum_ordkey_, store_to_risk_>>,
         missed \subseteq missed',
         flow # "FIX" /\ m.type \in {"Accepted", "Rejected"} => m.token \in missed' \/ m.token \notin Awaited'
  PROVE  IInv'
<1>1. order_pool_' \in [Slots -> Orders] /\ store_to_risk_' \in Seq(Slots)
    BY DEF IInv, TypeInv
<1> DEFINE S == {}
<1>2. S \subseteq Slots /\ \A s : s \notin S
    OBVIOUS
<1> HIDE DEF S
<1> QED BY <1>1, <1>2, StoreUpdate

\* A filler's result is written, and the order registered where it was not.
LEMMA StoreFill ==
  ASSUME IInv, NEW m \in Messages, Fits(m), Popped(m), Waiting(m), Elsewhere,
         NEW s \in Slots, Token(s) \in Taken, Out(s),
         \/ Token(s) = m.token
         \/ /\ m.type # "Accepted"
            /\ UNCHANGED <<our_orders_, our_orders_wtokenkey_, nq_ouch_refnum_ordkey_, awaitingAck_orders_>>,
         m.type \in {"Accepted", "Executed", "Cancelled"}, NEW rest, Fill(s, Filled(order_pool_[s], m), rest),
         \/ our_orders_' = our_orders_
         \/ our_orders_' = With(our_orders_, m.id, s),
         \/ our_orders_wtokenkey_' = our_orders_wtokenkey_ /\ (m.type = "Accepted" => flow # "BIST")
         \/ /\ flow = "BIST" /\ our_orders_wtokenkey_' = With(our_orders_wtokenkey_, Token(s), s)
            /\ awaitingAck_orders_' = Without(awaitingAck_orders_, m.token),
         \/ nq_ouch_refnum_ordkey_' = nq_ouch_refnum_ordkey_
         \/ /\ flow = "NASDAQ" /\ our_orders_' = With(our_orders_, m.id, s)
            /\ nq_ouch_refnum_ordkey_' = With(nq_ouch_refnum_ordkey_, order_pool_[s].user_ref_num, m.id),
         \/ awaitingAck_orders_' = awaitingAck_orders_ /\ m.type # "Accepted"
         \/ awaitingAck_orders_' = Without(awaitingAck_orders_, m.token)
  PROVE  IInv'
<1>0. TypeInv /\ WireInv /\ TokenInv /\ SlotInv /\ MapInv /\ UrnInv
    BY DEF IInv
<1> DEFINE o2 == Filled(order_pool_[s], m)
           S == {s}
<1>1. order_pool_[s] \in Orders /\ flow \in {"FIX", "BIST", "NASDAQ"} /\ order_pool_ \in [Slots -> Orders]
    BY <1>0 DEF TypeInv
<1>2. /\ o2 \in Orders /\ o2.client_order_id = order_pool_[s].client_order_id
      /\ o2.user_ref_num = order_pool_[s].user_ref_num
      /\ o2.message_type = order_pool_[s].message_type /\ o2.status # "Unknown"
      /\ o2.order_id = IF m.type = "Accepted" THEN m.id ELSE order_pool_[s].order_id
    BY <1>1, FilledFacts
<1>3. /\ order_pool_' = [order_pool_ EXCEPT ![s] = o2] /\ store_to_risk_' = Append(store_to_risk_, s)
      /\ missed \subseteq missed' /\ free' = free
    BY DEF Fill
<1> HIDE DEF o2
<1>4. /\ order_pool_' \in [Slots -> Orders] /\ order_pool_'[s] = o2
      /\ \A r \in Slots : r # s => order_pool_'[r] = order_pool_[r]
    BY <1>1, <1>2, <1>3
<1>5. store_to_risk_' \in Seq(Slots)
    BY <1>0, <1>3, AppendFacts DEF TypeInv
<1>6. m.id # 0 /\ (Token(s) = m.token => m.id \in DOMAIN ex /\ ex[m.id].token = Token(s))
    BY DEF Fits
<1>7. Token(s) # 0
    BY <1>0 DEF WireInv, Sent
<1>8. /\ DOMAIN our_orders_ \subseteq DOMAIN our_orders_'
      /\ \A i \in DOMAIN our_orders_' :
            \/ i \in DOMAIN our_orders_ /\ our_orders_'[i] = our_orders_[i]
            \/ our_orders_'[i] = s /\ i = m.id /\ Token(s) = m.token
      /\ our_orders_' = With(our_orders_, m.id, s) => m.id \in DOMAIN our_orders_'
    BY DEF With
<1>9. /\ DOMAIN our_orders_wtokenkey_ \subseteq DOMAIN our_orders_wtokenkey_'
      /\ \A t \in DOMAIN our_orders_wtokenkey_' :
            \/ t \in DOMAIN our_orders_wtokenkey_ /\ our_orders_wtokenkey_'[t] = our_orders_wtokenkey_[t]
            \/ /\ our_orders_wtokenkey_'[t] = s /\ t = Token(s) /\ flow = "BIST"
               /\ t \notin DOMAIN awaitingAck_orders_'
      /\ m.type = "Accepted" /\ flow = "BIST" => Token(s) \in DOMAIN our_orders_wtokenkey_'
    BY DEF With, Without, Restrict
<1>10. \A t \in DOMAIN awaitingAck_orders_' :
          /\ t \in DOMAIN awaitingAck_orders_ /\ awaitingAck_orders_'[t] = awaitingAck_orders_[t]
          /\ m.type = "Accepted" => t # Token(s)
    BY DEF Without, Restrict
<1>11. flow = "NASDAQ" /\ Token(s) = m.token => ex[m.id].urn = order_pool_[s].user_ref_num
    BY <1>0, <1>6 DEF UrnInv
<1>12. \A u \in DOMAIN nq_ouch_refnum_ordkey_' :
            \/ u \in DOMAIN nq_ouch_refnum_ordkey_ /\ nq_ouch_refnum_ordkey_'[u] = nq_ouch_refnum_ordkey_[u]
            \/ nq_ouch_refnum_ordkey_'[u] \in DOMAIN our_orders_' /\ ex[nq_ouch_refnum_ordkey_'[u]].urn = u
    BY <1>8, <1>11 DEF With
<1>13. m.type = "Accepted" => m.token \notin Awaited'
    BY <1>2, <1>4, <1>6, <1>7, <1>10, NotAwaited
<1>14. /\ o2.order_id = order_pool_[s].order_id \/ o2.order_id # 0
       /\ flow = "BIST" /\ o2.order_id # 0 => Token(s) \in DOMAIN our_orders_wtokenkey_'
    BY <1>0, <1>2, <1>6, <1>9 DEF SlotInv, Id
<1>15. S \subseteq Slots /\ s \in S /\ \A r \in S : r = s
    OBVIOUS
<1> HIDE DEF S
<1>16. /\ \A r \in Slots : r \notin S => order_pool_'[r] = order_pool_[r]
       /\ \A r \in S : Token(r) \in Taken /\ Out(r)
       /\ \A r \in S : /\ order_pool_'[r].client_order_id = order_pool_[r].client_order_id
                       /\ order_pool_'[r].user_ref_num = order_pool_[r].user_ref_num
                       /\ order_pool_'[r].message_type = order_pool_[r].message_type
                       /\ order_pool_'[r].order_id = order_pool_[r].order_id \/ order_pool_'[r].order_id # 0
                       /\ order_pool_'[r].status = order_pool_[r].status \/ order_pool_'[r].status # "Unknown"
                       /\ flow = "BIST" /\ order_pool_'[r].order_id # 0 => Token(r) \in DOMAIN our_orders_wtokenkey_'
    BY <1>2, <1>4, <1>14, <1>15
<1>17. \A i \in DOMAIN our_orders_' :
            \/ i \in DOMAIN our_orders_ /\ our_orders_'[i] = our_orders_[i]
            \/ /\ our_orders_'[i] \in S /\ i \in DOMAIN ex /\ ex[i].token = Token(our_orders_'[i])
               /\ flow = "BIST" => order_pool_'[our_orders_'[i]].status # "Unknown"
    BY <1>2, <1>4, <1>6, <1>8, <1>15
<1>18. \A t \in DOMAIN our_orders_wtokenkey_' :
            \/ t \in DOMAIN our_orders_wtokenkey_ /\ our_orders_wtokenkey_'[t] = our_orders_wtokenkey_[t]
            \/ /\ our_orders_wtokenkey_'[t] \in S /\ t = Token(our_orders_wtokenkey_'[t])
               /\ flow = "BIST" /\ order_pool_'[our_orders_wtokenkey_'[t]].status # "Unknown"
               /\ t \notin DOMAIN awaitingAck_orders_'
    BY <1>2, <1>4, <1>9, <1>15
<1> QED BY <1>3, <1>4, <1>5, <1>8, <1>9, <1>10, <1>12, <1>13, <1>15, <1>16, <1>17, <1>18, StoreUpdate

\* The token of a message that fits is under way.
LEMMA MessageSent ==
  ASSUME NEW m \in Messages, Fits(m), Popped(m)
  PROVE  m.token \in Sent /\ (m.id # 0 => m.token \in Taken) /\ (m.id = 0 => m.token \in Refused)
BY DEF Fits, Popped, Sent, Taken

LEMMA UpdateBist ==
  ASSUME IInv, flow = "BIST", NEW m \in Messages, Fits(m), Popped(m), Elsewhere,
         NEW rest \in Seq(Pending),
         \A i \in DOMAIN rest : \E j \in DOMAIN pending_to_strategy_ : rest[i] = pending_to_strategy_[j],
         update_BIST(m, rest)
  PROVE  IInv'
<1>0. TypeInv /\ WireInv /\ TokenInv /\ SlotInv /\ MapInv
    BY DEF IInv
<1> DEFINE byKey == m.type \in {"Accepted", "Cancelled"}
           known == CASE m.type = "Accepted" -> nullptr
                      [] m.type = "Cancelled" -> Find(our_orders_, m.id)
                      [] OTHER -> Find(our_orders_wtokenkey_, m.token)
           s == IF known # nullptr THEN known ELSE Find(awaitingAck_orders_, m.token)
<1>1. \/ s = nullptr /\ Drop(m) /\ pending_to_strategy_' = rest
      \/ known # nullptr /\ order_pool_[s].canModify = {} /\ Park(m, s, rest)
      \/ /\ s # nullptr
         /\ pending_to_strategy_' = rest
         /\ \/ known = nullptr /\ byKey /\ Register(s, m)
            \/ known = nullptr /\ ~byKey /\ UNCHANGED maps
               /\ awaitingAck_orders_' = Without(awaitingAck_orders_, m.token)
            \/ known # nullptr /\ UNCHANGED <<maps, awaitingAck_orders_>>
         /\ \/ m.type # "Rejected" /\ Fill(s, Filled(order_pool_[s], m), rest)
            \/ m.type = "Rejected" /\ fill_rejected(s) /\ UNCHANGED <<store_to_risk_, missed, crashed>>
    BY DEF update_BIST
<1>2. m.token \in Sent /\ (m.id # 0 => m.token \in Taken) /\ (m.id = 0 => m.token \in Refused /\ m.token \notin Taken)
    BY <1>0, MessageSent DEF WireInv
<1>3. /\ m.type \in {"Accepted", "Executed", "Cancelled", "Rejected"}
      /\ m.type # "Rejected" => m.id # 0
      /\ m.type = "Rejected" /\ m.id # 0 => m.token \in DOMAIN our_orders_wtokenkey_
    BY DEF Fits, Messages
<1>4. m.token # 0 /\ nullptr \notin Slots
    BY <1>0, <1>2, Consts DEF WireInv
<1>5. known # nullptr =>
         /\ known \in Slots /\ Token(known) = m.token /\ m.token \in Taken /\ Out(known) /\ s = known
         /\ order_pool_[known].status # "Unknown" /\ m.type # "Accepted" /\ m.id # 0
         /\ m.type = "Rejected" => m.token \in DOMAIN our_orders_wtokenkey_
  <2> SUFFICES ASSUME known # nullptr
               PROVE /\ known \in Slots /\ Token(known) = m.token /\ m.token \in Taken /\ Out(known)
                     /\ order_pool_[known].status # "Unknown" /\ m.type # "Accepted" /\ m.id # 0
                     /\ m.type = "Rejected" => m.token \in DOMAIN our_orders_wtokenkey_
      OBVIOUS
  <2>1. m.type # "Accepted"
      OBVIOUS
  <2>2. CASE m.type = "Cancelled"
    <3>1. known = our_orders_[m.id] /\ m.id \in DOMAIN our_orders_
        BY <2>2 DEF Find
    <3>2. m.token = ex[m.id].token
        BY <1>3, <2>2 DEF Fits
    <3> HIDE DEF known
    <3> QED BY <3>1, <3>2, <2>1, <2>2, <1>3, FoundById
  <2>3. CASE m.type # "Cancelled"
    <3>1. known = our_orders_wtokenkey_[m.token] /\ m.token \in DOMAIN our_orders_wtokenkey_
        BY <2>1, <2>3 DEF Find
    <3> HIDE DEF known
    <3>2. /\ known \in Slots /\ Token(known) = m.token /\ m.token \in Taken /\ Out(known)
          /\ order_pool_[known].status # "Unknown"
        BY <3>1, FoundByToken
    <3> QED BY <3>1, <3>2, <2>1, <1>2
  <2> QED BY <2>2, <2>3
<1>6. known = nullptr /\ s # nullptr =>
         /\ m.token \in DOMAIN awaitingAck_orders_ /\ s = awaitingAck_orders_[m.token]
         /\ s \in Slots /\ Token(s) = m.token /\ Out(s)
  <2> SUFFICES ASSUME known = nullptr, s # nullptr
               PROVE  /\ m.token \in DOMAIN awaitingAck_orders_ /\ s = awaitingAck_orders_[m.token]
                      /\ s \in Slots /\ Token(s) = m.token /\ Out(s)
      OBVIOUS
  <2>1. m.token \in DOMAIN awaitingAck_orders_ /\ s = awaitingAck_orders_[m.token]
      BY DEF Find
  <2> HIDE DEF s, known
  <2> QED BY <2>1, <1>2, FoundAwaiting
<1>7. known = nullptr /\ m.type = "Rejected" => m.id = 0
  <2> SUFFICES ASSUME known = nullptr, m.type = "Rejected", m.id # 0 PROVE FALSE
      OBVIOUS
  <2>1. m.token \in DOMAIN our_orders_wtokenkey_
      BY <1>3
  <2>2. known = our_orders_wtokenkey_[m.token]
      BY <2>1 DEF Find
  <2> HIDE DEF known
  <2> QED BY <2>1, <2>2, <1>4, FoundByToken
<1> HIDE DEF known, s
<1>8. pending_to_strategy_' = rest => Waiting(m)
    BY DEF Waiting, Pending
<1>9. CASE s = nullptr /\ Drop(m) /\ pending_to_strategy_' = rest
  <2>1. /\ UNCHANGED <<order_pool_, free, awaitingAck_orders_, our_orders_, our_orders_wtokenkey_,
                       nq_ouch_refnum_ordkey_, store_to_risk_>>
        /\ missed' = missed \cup {m.token}
      BY <1>9 DEF Drop, maps
  <2> QED BY <2>1, <1>8, <1>9, StoreQuiet
<1>10. CASE known # nullptr /\ order_pool_[s].canModify = {} /\ Park(m, s, rest)
  <2>1. /\ UNCHANGED <<order_pool_, free, awaitingAck_orders_, our_orders_, our_orders_wtokenkey_,
                       nq_ouch_refnum_ordkey_, store_to_risk_, missed>>
        /\ pending_to_strategy_' = Append(rest, [msg |-> m, order |-> s])
      BY <1>10 DEF Park, maps
  <2>2. s \in Slots /\ m.id # 0 /\ Token(s) = m.token /\ Out(s)
      BY <1>5, <1>10
  <2> DEFINE w == [msg |-> m, order |-> s]
  <2>3. w \in Pending /\ w.msg = m
      BY <2>2 DEF Pending
  <2> HIDE DEF w
  <2>4. Waiting(m)
    <3>1. /\ pending_to_strategy_' \in Seq(Pending) /\ DOMAIN rest = 1..Len(rest) /\ Len(rest) \in Nat
          /\ DOMAIN pending_to_strategy_' = 1..Len(rest) + 1 /\ pending_to_strategy_'[Len(rest) + 1] = w
          /\ \A i \in DOMAIN rest : pending_to_strategy_'[i] = rest[i]
        BY <2>1, <2>3, AppendFacts DEF w
    <3>2. DOMAIN pending_to_strategy_' = DOMAIN rest \cup {Len(rest) + 1}
        BY <3>1
    <3> QED BY <3>1, <3>2, <2>2, <2>3 DEF Waiting, Pending
  <2>5. m.type \in {"Accepted", "Rejected"} => m.token \notin Awaited'
    <3> SUFFICES ASSUME m.type = "Rejected" PROVE m.token \notin Awaited'
        BY <1>5, <1>10
    <3>1. m.token \notin DOMAIN awaitingAck_orders_
        BY <1>0, <1>5, <1>10 DEF MapInv
    <3> QED BY <3>1, <2>1, <2>2, <1>4, NotAwaited
  <2> QED BY <2>1, <2>4, <2>5, StoreQuiet
<1>11. CASE /\ s # nullptr
            /\ pending_to_strategy_' = rest
            /\ \/ known = nullptr /\ byKey /\ Register(s, m)
               \/ known = nullptr /\ ~byKey /\ UNCHANGED maps
                  /\ awaitingAck_orders_' = Without(awaitingAck_orders_, m.token)
               \/ known # nullptr /\ UNCHANGED <<maps, awaitingAck_orders_>>
            /\ \/ m.type # "Rejected" /\ Fill(s, Filled(order_pool_[s], m), rest)
               \/ m.type = "Rejected" /\ fill_rejected(s) /\ UNCHANGED <<store_to_risk_, missed, crashed>>
  <2>1. Waiting(m) /\ s \in Slots /\ Token(s) = m.token /\ Out(s)
      BY <1>5, <1>6, <1>8, <1>11
  <2>2. CASE m.type # "Rejected" /\ Fill(s, Filled(order_pool_[s], m), rest)
    <3>1. /\ our_orders_' = our_orders_ \/ our_orders_' = With(our_orders_, m.id, s)
          /\ \/ our_orders_wtokenkey_' = our_orders_wtokenkey_ /\ m.type # "Accepted"
             \/ /\ our_orders_wtokenkey_' = With(our_orders_wtokenkey_, Token(s), s)
                /\ awaitingAck_orders_' = Without(awaitingAck_orders_, m.token)
          /\ nq_ouch_refnum_ordkey_' = nq_ouch_refnum_ordkey_
          /\ \/ awaitingAck_orders_' = awaitingAck_orders_ /\ m.type # "Accepted"
             \/ awaitingAck_orders_' = Without(awaitingAck_orders_, m.token)
      <4>1. CASE known = nullptr /\ byKey /\ Register(s, m)
          BY <4>1 DEF Register, Token
      <4>2. CASE /\ known = nullptr /\ ~byKey /\ UNCHANGED maps
                 /\ awaitingAck_orders_' = Without(awaitingAck_orders_, m.token)
          BY <4>2 DEF maps
      <4>3. CASE known # nullptr /\ UNCHANGED <<maps, awaitingAck_orders_>>
          BY <4>3, <1>5 DEF maps
      <4> QED BY <4>1, <4>2, <4>3, <1>11
    <3> QED BY <3>1, <2>1, <2>2, <1>2, <1>3, StoreFill
  <2>3. CASE /\ m.type = "Rejected" /\ known = nullptr /\ fill_rejected(s)
             /\ UNCHANGED <<store_to_risk_, missed, crashed>>
    <3>1. m.id = 0 /\ s = awaitingAck_orders_[m.token] /\ m.token \in DOMAIN awaitingAck_orders_
        BY <2>3, <1>6, <1>7, <1>11
    <3>2. order_pool_[s].status = "Unknown"
        BY <3>1, <2>1, <1>0, <1>2 DEF SlotInv
    <3>3. free' = Append(free, s) /\ order_pool_' = order_pool_
        BY <3>2, <2>3 DEF fill_rejected
    <3>4. UNCHANGED maps /\ awaitingAck_orders_' = Without(awaitingAck_orders_, m.token)
        BY <2>3, <1>11
    <3> QED BY <3>1, <3>3, <3>4, <2>1, <2>3, StoreFree DEF maps
  <2>4. CASE /\ m.type = "Rejected" /\ known # nullptr /\ fill_rejected(s)
             /\ UNCHANGED <<store_to_risk_, missed, crashed>>
    <3>1. order_pool_[s].status # "Unknown" /\ m.token \in Taken /\ m.token \in DOMAIN our_orders_wtokenkey_
        BY <2>4, <1>5
    <3> DEFINE o2 == [order_pool_[s] EXCEPT !.canModify = {}]
    <3>2. order_pool_' = [order_pool_ EXCEPT ![s] = o2] /\ free' = free
        BY <3>1, <2>4 DEF fill_rejected
    <3>3. /\ o2 \in Orders /\ o2.client_order_id = order_pool_[s].client_order_id
          /\ o2.user_ref_num = order_pool_[s].user_ref_num /\ o2.order_id = order_pool_[s].order_id
          /\ o2.message_type = order_pool_[s].message_type /\ o2.status = order_pool_[s].status
      <4>1. order_pool_[s] \in Orders
          BY <2>1, <1>0 DEF TypeInv
      <4> QED BY <4>1 DEF Orders
    <3> HIDE DEF o2
    <3>4. /\ order_pool_' \in [Slots -> Orders] /\ order_pool_'[s] = o2
          /\ \A r \in Slots : r # s => order_pool_'[r] = order_pool_[r]
        BY <3>2, <3>3, <2>1, <1>0 DEF TypeInv
    <3>5. UNCHANGED <<our_orders_, our_orders_wtokenkey_, nq_ouch_refnum_ordkey_, awaitingAck_orders_>>
        BY <2>4, <1>11 DEF maps
    <3> DEFINE S == {s}
    <3>6. S \subseteq Slots /\ s \in S /\ \A r \in S : r = s
        BY <2>1
    <3> HIDE DEF S
    <3>7. /\ \A r \in Slots : r \notin S => order_pool_'[r] = order_pool_[r]
          /\ \A r \in S : Token(r) \in Taken /\ Out(r)
          /\ \A r \in S : /\ order_pool_'[r].client_order_id = order_pool_[r].client_order_id
                          /\ order_pool_'[r].user_ref_num = order_pool_[r].user_ref_num
                          /\ order_pool_'[r].message_type = order_pool_[r].message_type
                          /\ order_pool_'[r].order_id = order_pool_[r].order_id \/ order_pool_'[r].order_id # 0
                          /\ order_pool_'[r].status = order_pool_[r].status \/ order_pool_'[r].status # "Unknown"
                          /\ flow = "BIST" /\ order_pool_'[r].order_id # 0 => Token(r) \in DOMAIN our_orders_wtokenkey_'
        BY <3>1, <3>3, <3>4, <3>5, <3>6, <2>1
    <3>8. m.token \notin Awaited'
      <4>1. m.token \notin DOMAIN awaitingAck_orders_'
          BY <3>1, <3>5, <1>0 DEF MapInv
      <4> QED BY <4>1, <3>3, <3>4, <2>1, <1>4, NotAwaited
    <3>9. store_to_risk_' \in Seq(Slots) /\ missed' = missed
        BY <2>4, <1>0 DEF TypeInv
    <3> QED BY <3>2, <3>4, <3>5, <3>6, <3>7, <3>8, <3>9, <2>1, StoreUpdate
  <2> QED BY <2>2, <2>3, <2>4, <1>11
<1> QED BY <1>1, <1>9, <1>10, <1>11

LEMMA UpdateNasdaq ==
  ASSUME IInv, flow = "NASDAQ", NEW m \in Messages, Fits(m), Popped(m), Elsewhere, update_NASDAQ(m)
  PROVE  IInv'
<1>0. TypeInv /\ WireInv /\ TokenInv /\ SlotInv /\ MapInv
    BY DEF IInv
<1> DEFINE new == Find(awaitingAck_orders_, m.token)
<1>1. \/ /\ m.type \in {"Accepted", "Rejected"} /\ new = nullptr
         /\ Drop(m) /\ UNCHANGED pending_to_strategy_
      \/ /\ m.type = "Accepted" /\ new # nullptr /\ UNCHANGED pending_to_strategy_
         /\ Register(new, m) /\ Fill(new, Filled(order_pool_[new], m), pending_to_strategy_)
      \/ /\ m.type = "Rejected" /\ new # nullptr /\ UNCHANGED pending_to_strategy_
         /\ awaitingAck_orders_' = Without(awaitingAck_orders_, m.token)
         /\ fill_rejected(new) /\ UNCHANGED <<maps, store_to_risk_, missed, crashed>>
      \/ /\ m.type \in {"Executed", "Cancelled"}
         /\ UNCHANGED <<order_pool_, free, awaitingAck_orders_, maps, store_to_risk_, missed, pending_to_strategy_>>
      \/ /\ m.type \in {"Executed", "Cancelled"} /\ m.urn \in DOMAIN nq_ouch_refnum_ordkey_
         /\ LET s == our_orders_[nq_ouch_refnum_ordkey_[m.urn]]
            IN Fill(s, Filled(order_pool_[s], m), pending_to_strategy_)
         /\ UNCHANGED <<maps, awaitingAck_orders_, pending_to_strategy_>>
    BY DEF update_NASDAQ
<1>2. m.token \in Sent /\ (m.id # 0 => m.token \in Taken) /\ (m.id = 0 => m.token \in Refused /\ m.token \notin Taken)
    BY <1>0, MessageSent DEF WireInv
<1>3. /\ m.type # "Rejected" => m.id # 0
      /\ m.type = "Rejected" => m.id = 0
    BY DEF Fits
<1>4. new # nullptr =>
         /\ m.token \in DOMAIN awaitingAck_orders_ /\ new = awaitingAck_orders_[m.token]
         /\ new \in Slots /\ Token(new) = m.token /\ Out(new)
  <2> SUFFICES ASSUME new # nullptr
               PROVE  /\ m.token \in DOMAIN awaitingAck_orders_ /\ new = awaitingAck_orders_[m.token]
                      /\ new \in Slots /\ Token(new) = m.token /\ Out(new)
      OBVIOUS
  <2>1. m.token \in DOMAIN awaitingAck_orders_ /\ new = awaitingAck_orders_[m.token]
      BY DEF Find
  <2> HIDE DEF new
  <2> QED BY <2>1, <1>2, FoundAwaiting
<1> HIDE DEF new
<1>5. pending_to_strategy_' = pending_to_strategy_ => Waiting(m)
    BY <1>0 DEF Waiting, TypeInv
<1>6. CASE /\ m.type \in {"Accepted", "Rejected"} /\ new = nullptr
           /\ Drop(m) /\ UNCHANGED pending_to_strategy_
  <2>1. /\ UNCHANGED <<order_pool_, free, awaitingAck_orders_, our_orders_, our_orders_wtokenkey_,
                       nq_ouch_refnum_ordkey_, store_to_risk_>>
        /\ missed' = missed \cup {m.token}
      BY <1>6 DEF Drop, maps
  <2> QED BY <2>1, <1>5, <1>6, StoreQuiet
<1>7. CASE /\ m.type = "Accepted" /\ new # nullptr /\ UNCHANGED pending_to_strategy_
           /\ Register(new, m) /\ Fill(new, Filled(order_pool_[new], m), pending_to_strategy_)
  <2>1. /\ our_orders_' = With(our_orders_, m.id, new) /\ our_orders_wtokenkey_' = our_orders_wtokenkey_
        /\ nq_ouch_refnum_ordkey_' = With(nq_ouch_refnum_ordkey_, order_pool_[new].user_ref_num, m.id)
        /\ awaitingAck_orders_' = Without(awaitingAck_orders_, m.token)
      BY <1>7 DEF Register
  <2> QED BY <2>1, <1>2, <1>3, <1>4, <1>5, <1>7, StoreFill
<1>8. CASE /\ m.type = "Rejected" /\ new # nullptr /\ UNCHANGED pending_to_strategy_
           /\ awaitingAck_orders_' = Without(awaitingAck_orders_, m.token)
           /\ fill_rejected(new) /\ UNCHANGED <<maps, store_to_risk_, missed, crashed>>
  <2>1. order_pool_[new].status = "Unknown"
      BY <1>0, <1>2, <1>3, <1>4, <1>8 DEF SlotInv
  <2>2. free' = Append(free, new) /\ order_pool_' = order_pool_
      BY <2>1, <1>8 DEF fill_rejected
  <2> QED BY <2>2, <1>3, <1>4, <1>5, <1>8, StoreFree DEF maps
<1>9. CASE /\ m.type \in {"Executed", "Cancelled"}
           /\ UNCHANGED <<order_pool_, free, awaitingAck_orders_, maps, store_to_risk_, missed, pending_to_strategy_>>
    BY <1>5, <1>9, StoreQuiet DEF maps
<1>10. CASE /\ m.type \in {"Executed", "Cancelled"} /\ m.urn \in DOMAIN nq_ouch_refnum_ordkey_
            /\ LET s == our_orders_[nq_ouch_refnum_ordkey_[m.urn]]
               IN Fill(s, Filled(order_pool_[s], m), pending_to_strategy_)
            /\ UNCHANGED <<maps, awaitingAck_orders_, pending_to_strategy_>>
  <2>1. PICK i \in DOMAIN our_orders_ : i = nq_ouch_refnum_ordkey_[m.urn]
      BY <1>0, <1>10 DEF MapInv
  <2>2. PICK s \in Slots : s = our_orders_[i]
      BY <2>1, FoundById
  <2>3. Token(s) \in Taken /\ Out(s)
      BY <2>1, <2>2, FoundById
  <2>4. Fill(s, Filled(order_pool_[s], m), pending_to_strategy_)
      BY <2>1, <2>2, <1>10
  <2> QED BY <2>3, <2>4, <1>5, <1>10, StoreFill DEF maps
<1> QED BY <1>1, <1>6, <1>7, <1>8, <1>9, <1>10

LEMMA UpdateFix ==
  ASSUME IInv, flow = "FIX", NEW m \in Messages, Fits(m), Popped(m), Elsewhere, update_FIX(m)
  PROVE  IInv'
<1>0. TypeInv /\ WireInv /\ TokenInv /\ SlotInv /\ MapInv
    BY DEF IInv
<1> DEFINE known == Find(our_orders_, m.id)
           s == IF known # nullptr THEN known ELSE Find(awaitingAck_orders_, m.token)
<1>1. \/ s = nullptr /\ Drop(m) /\ UNCHANGED pending_to_strategy_
      \/ /\ s # nullptr /\ known = nullptr /\ m.type = "Rejected" /\ UNCHANGED pending_to_strategy_
         /\ free' = Append(free, s)
         /\ UNCHANGED <<order_pool_, awaitingAck_orders_, maps, store_to_risk_, crashed, missed>>
      \/ /\ s # nullptr /\ ~(known = nullptr /\ m.type = "Rejected")
         /\ \/ known = nullptr /\ our_orders_' = With(our_orders_, m.id, s)
            \/ known # nullptr /\ UNCHANGED our_orders_
         /\ UNCHANGED <<our_orders_wtokenkey_, nq_ouch_refnum_ordkey_>>
         /\ UNCHANGED pending_to_strategy_
         /\ \/ /\ m.type = "CancelReject"
               /\ UNCHANGED <<order_pool_, free, awaitingAck_orders_, store_to_risk_, crashed, missed>>
            \/ /\ m.type # "CancelReject" /\ Fill(s, Filled(order_pool_[s], m), pending_to_strategy_)
               /\ awaitingAck_orders_' = Without(awaitingAck_orders_, m.token)
    BY DEF update_FIX
<1>2. m.token \in Sent /\ (m.id # 0 => m.token \in Taken) /\ (m.id = 0 => m.token \in Refused /\ m.token \notin Taken)
    BY <1>0, MessageSent DEF WireInv
<1>3. /\ m.type # "Rejected" => m.id # 0 /\ m.id \in DOMAIN ex /\ m.token = ex[m.id].token
      /\ m.type = "Rejected" => m.id = 0
    BY DEF Fits
<1>4. 0 \notin DOMAIN our_orders_
  <2>1. 0 \notin DOMAIN ex
      BY <1>0 DEF TypeInv
  <2> QED BY <2>1, <1>0 DEF MapInv
<1>5. m.type = "Rejected" => known = nullptr
    BY <1>3, <1>4 DEF Find
<1>6. known # nullptr => /\ known \in Slots /\ Token(known) = m.token /\ Out(known) /\ s = known
  <2> SUFFICES ASSUME known # nullptr PROVE known \in Slots /\ Token(known) = m.token /\ Out(known)
      OBVIOUS
  <2>1. known = our_orders_[m.id] /\ m.id \in DOMAIN our_orders_ /\ m.type # "Rejected"
      BY <1>5 DEF Find
  <2> HIDE DEF known
  <2> QED BY <2>1, <1>3, FoundById
<1>7. known = nullptr /\ s # nullptr =>
         /\ m.token \in DOMAIN awaitingAck_orders_ /\ s = awaitingAck_orders_[m.token]
         /\ s \in Slots /\ Token(s) = m.token /\ Out(s)
  <2> SUFFICES ASSUME known = nullptr, s # nullptr
               PROVE  /\ m.token \in DOMAIN awaitingAck_orders_ /\ s = awaitingAck_orders_[m.token]
                      /\ s \in Slots /\ Token(s) = m.token /\ Out(s)
      OBVIOUS
  <2>1. m.token \in DOMAIN awaitingAck_orders_ /\ s = awaitingAck_orders_[m.token]
      BY DEF Find
  <2> HIDE DEF s, known
  <2> QED BY <2>1, <1>2, FoundAwaiting
<1> HIDE DEF known, s
<1>8. pending_to_strategy_' = pending_to_strategy_ => Waiting(m)
    BY <1>0 DEF Waiting, TypeInv
<1>9. CASE s = nullptr /\ Drop(m) /\ UNCHANGED pending_to_strategy_
  <2>1. /\ UNCHANGED <<order_pool_, free, awaitingAck_orders_, our_orders_, our_orders_wtokenkey_,
                       nq_ouch_refnum_ordkey_, store_to_risk_>>
        /\ missed' = missed \cup {m.token}
      BY <1>9 DEF Drop, maps
  <2> QED BY <2>1, <1>8, <1>9, StoreQuiet
<1>10. CASE /\ s # nullptr /\ known = nullptr /\ m.type = "Rejected" /\ UNCHANGED pending_to_strategy_
            /\ free' = Append(free, s)
            /\ UNCHANGED <<order_pool_, awaitingAck_orders_, maps, store_to_risk_, crashed, missed>>
  <2>1. m.id = 0 /\ m.token \in DOMAIN awaitingAck_orders_ /\ free' = Append(free, awaitingAck_orders_[m.token])
      BY <1>3, <1>7, <1>10
  <2> QED BY <2>1, <1>8, <1>10, StoreFree DEF maps
<1>11. CASE /\ s # nullptr /\ ~(known = nullptr /\ m.type = "Rejected")
            /\ \/ known = nullptr /\ our_orders_' = With(our_orders_, m.id, s)
               \/ known # nullptr /\ UNCHANGED our_orders_
            /\ UNCHANGED <<our_orders_wtokenkey_, nq_ouch_refnum_ordkey_>>
            /\ UNCHANGED pending_to_strategy_
            /\ \/ /\ m.type = "CancelReject"
                  /\ UNCHANGED <<order_pool_, free, awaitingAck_orders_, store_to_risk_, crashed, missed>>
               \/ /\ m.type # "CancelReject" /\ Fill(s, Filled(order_pool_[s], m), pending_to_strategy_)
                  /\ awaitingAck_orders_' = Without(awaitingAck_orders_, m.token)
  <2>1. m.type # "Rejected" /\ s \in Slots /\ Token(s) = m.token /\ m.token \in Taken /\ Out(s) /\ Waiting(m)
      BY <1>2, <1>3, <1>5, <1>6, <1>7, <1>8, <1>11
  <2>2. our_orders_' = our_orders_ \/ our_orders_' = With(our_orders_, m.id, s)
      BY <1>11
  <2>3. CASE /\ m.type # "CancelReject" /\ Fill(s, Filled(order_pool_[s], m), pending_to_strategy_)
             /\ awaitingAck_orders_' = Without(awaitingAck_orders_, m.token)
    <3>1. m.type \in {"Accepted", "Executed", "Cancelled"}
        BY <2>1, <2>3 DEF Messages
    <3> QED BY <3>1, <2>1, <2>2, <2>3, <1>11, StoreFill
  <2>4. CASE /\ m.type = "CancelReject"
             /\ UNCHANGED <<order_pool_, free, awaitingAck_orders_, store_to_risk_, crashed, missed>>
    <3> DEFINE S == {s}
    <3>1. S \subseteq Slots /\ s \in S /\ \A r \in S : r = s
        BY <2>1
    <3> HIDE DEF S
    <3>2. /\ DOMAIN our_orders_ \subseteq DOMAIN our_orders_'
          /\ \A i \in DOMAIN our_orders_' :
                \/ i \in DOMAIN our_orders_ /\ our_orders_'[i] = our_orders_[i]
                \/ our_orders_'[i] \in S /\ i \in DOMAIN ex /\ ex[i].token = Token(our_orders_'[i])
      <4>1. /\ DOMAIN our_orders_ \subseteq DOMAIN our_orders_'
            /\ \A i \in DOMAIN our_orders_' :
                  \/ i \in DOMAIN our_orders_ /\ our_orders_'[i] = our_orders_[i]
                  \/ our_orders_'[i] = s /\ i = m.id
          BY <2>2 DEF With
      <4> QED BY <4>1, <3>1, <2>1, <1>3
    <3>3. order_pool_' \in [Slots -> Orders] /\ store_to_risk_' \in Seq(Slots)
        BY <2>4, <1>0 DEF TypeInv
    <3>4. \A r \in S : Token(r) \in Taken /\ Out(r)
        BY <3>1, <2>1
    <3> QED BY <3>1, <3>2, <3>3, <3>4, <2>1, <2>4, <1>11, StoreUpdate
  <2> QED BY <2>3, <2>4, <1>11
<1> QED BY <1>1, <1>9, <1>10, <1>11

LEMMA StoreInv == ASSUME IInv, store PROVE IInv'
<1>0. TypeInv /\ WireInv /\ MessageInv
    BY DEF IInv
<1>1. Elsewhere
    BY DEF store, Elsewhere, builder, exchange
<1>2. wire_in \in Seq(Messages) /\ pending_to_strategy_ \in Seq(Pending)
    BY <1>0 DEF TypeInv, Pending
<1>3. CASE /\ ParkedReady
           /\ update_BIST(Head(pending_to_strategy_).msg, Tail(pending_to_strategy_))
           /\ UNCHANGED wire_in
  <2>1. pending_to_strategy_ # <<>>
      BY <1>3 DEF ParkedReady
  <2>2. /\ Tail(pending_to_strategy_) \in Seq(Pending) /\ Head(pending_to_strategy_) \in Pending
        /\ Head(pending_to_strategy_) = pending_to_strategy_[1] /\ 1 \in DOMAIN pending_to_strategy_
        /\ \A i \in DOMAIN Tail(pending_to_strategy_) :
              \E j \in DOMAIN pending_to_strategy_ : Tail(pending_to_strategy_)[i] = pending_to_strategy_[j]
    <3>1. /\ Tail(pending_to_strategy_) \in Seq(Pending) /\ Head(pending_to_strategy_) \in Pending
          /\ Head(pending_to_strategy_) = pending_to_strategy_[1]
          /\ Len(pending_to_strategy_) \in Nat /\ Len(pending_to_strategy_) > 0
          /\ DOMAIN pending_to_strategy_ = 1..Len(pending_to_strategy_)
          /\ \A i \in DOMAIN Tail(pending_to_strategy_) :
                i + 1 \in DOMAIN pending_to_strategy_ /\ Tail(pending_to_strategy_)[i] = pending_to_strategy_[i + 1]
        BY <2>1, <1>2, TailFacts
    <3> QED BY <3>1
  <2>3. PICK m \in Messages : m = Head(pending_to_strategy_).msg
      BY <2>2 DEF Pending
  <2>4. PICK rest \in Seq(Pending) : rest = Tail(pending_to_strategy_)
      BY <2>2
  <2>5. flow = "BIST" /\ m.id # 0 /\ Fits(m)
      BY <2>2, <2>3, <1>0 DEF MessageInv
  <2>6. Popped(m)
    <3>1. Refused' = Refused /\ Answered' = Answered
        BY <1>3 DEF Refused, Answered
    <3> QED BY <3>1, <2>5, <1>0, <1>2, <1>3 DEF Popped, WireInv
  <2>7. /\ update_BIST(m, rest)
        /\ \A i \in DOMAIN rest : \E j \in DOMAIN pending_to_strategy_ : rest[i] = pending_to_strategy_[j]
      BY <2>2, <2>3, <2>4, <1>3
  <2> QED BY <2>5, <2>6, <2>7, <1>1, UpdateBist
<1>4. CASE /\ wire_in # <<>>
           /\ update_order(Head(wire_in))
           /\ wire_in' = Tail(wire_in)
  <2>1. /\ Head(wire_in) \in Messages /\ 1 \in DOMAIN wire_in /\ Head(wire_in) = wire_in[1]
        /\ Refused' = IF Head(wire_in).id = 0 THEN Refused \ {Head(wire_in).token} ELSE Refused
        /\ Head(wire_in).id = 0 => Head(wire_in).token \in Refused
        /\ \A t \in Answered : t \in Answered' \/ (t = Head(wire_in).token /\ Head(wire_in).type \in {"Accepted", "Rejected"})
      BY <1>0, <1>2, <1>4, InTail
  <2>2. PICK m \in Messages : m = Head(wire_in)
      BY <2>1
  <2>3. Fits(m) /\ update_order(m)
      BY <2>1, <2>2, <1>0, <1>4 DEF MessageInv
  <2>4. Popped(m)
    <3>1. /\ wire_in' \in Seq(Messages) /\ DOMAIN wire_in' = 1..Len(wire_in) - 1 /\ Len(wire_in) \in Nat
          /\ \A i \in DOMAIN wire_in' : i + 1 \in DOMAIN wire_in /\ wire_in'[i] = wire_in[i + 1]
        BY <1>2, <1>4, TailFacts
    <3>2. \A i, j \in DOMAIN wire_in' : i + 1 = j + 1 => i = j
        BY <3>1
    <3>3. \A i, j \in DOMAIN wire_in' :
            wire_in'[i].id = 0 /\ wire_in'[j].id = 0 /\ wire_in'[i].token = wire_in'[j].token => i = j
        BY <3>1, <3>2, <1>0 DEF WireInv
    <3> QED BY <3>1, <3>3, <2>1, <2>2 DEF Popped
  <2>5. CASE flow = "BIST" /\ update_BIST(m, pending_to_strategy_)
      BY <2>3, <2>4, <2>5, <1>1, <1>2, UpdateBist
  <2>6. CASE flow = "NASDAQ" /\ update_NASDAQ(m)
      BY <2>3, <2>4, <2>6, <1>1, UpdateNasdaq
  <2>7. CASE flow = "FIX" /\ update_FIX(m)
      BY <2>3, <2>4, <2>7, <1>1, UpdateFix
  <2> QED BY <2>3, <2>5, <2>6, <2>7 DEF update_order
<1> QED BY <1>3, <1>4 DEF store

-----------------------------------------------------------------------------
(* The theorems *)

LEMMA StutterInv == ASSUME IInv, UNCHANGED vars PROVE IInv'
<1>u. UNCHANGED <<flow, order_pool_, free, held, entered, cancels, strategy_to_risk_, risk_to_builder_,
                  store_to_risk_, building, user_ref_num, wire_out, ex, wire_in, awaitingAck_orders_,
                  our_orders_, our_orders_wtokenkey_, nq_ouch_refnum_ordkey_, pending_to_strategy_,
                  crashed, missed>>
    BY DEF vars, strategy, builder, exchange, maps
<1>1. TypeInv'
    BY <1>u DEF IInv, TypeInv
<1>2. Ordered' = Ordered /\ Taken' = Taken /\ Refused' = Refused /\ Sent' = Sent /\ Answered' = Answered
    BY <1>u DEF Ordered, Taken, Refused, Sent, Answered
<1>3. WireInv' /\ MessageInv'
    BY <1>u, <1>2 DEF IInv, WireInv, MessageInv, Fits
<1>4. Queued' = Queued /\ Idle' = Idle /\ Awaited' = Awaited
    BY <1>u DEF Queued, Idle, Awaited, Token, Id
<1>5. TokenInv' /\ PlaceInv' /\ SlotInv'
    BY <1>u, <1>2, <1>4 DEF IInv, TokenInv, PlaceInv, SlotInv, Token, Id, Once
<1>6. MapInv' /\ UrnInv' /\ AwaitInv'
    BY <1>u, <1>2, <1>4 DEF IInv, MapInv, UrnInv, AwaitInv, Token, Id
<1> QED BY <1>1, <1>3, <1>5, <1>6 DEF IInv

LEMMA NextInv == ASSUME IInv, Next PROVE IInv'
<1>1. CASE \E q \in Quantities : EnterOrder(q)
    BY <1>1, EnterOrderInv
<1>2. CASE \E s \in Slots : RequestCancel(s)
    BY <1>2, RequestCancelInv
<1>3. CASE \E i \in 1..Len(ex) : ExchangeTrades(i) \/ ExchangeTakesBack(i)
    BY <1>3, TradesInv, TakesBackInv
<1> QED BY <1>1, <1>2, <1>3, StoreInv, CheckRiskInv, UpdateRiskInv, BuildInv, AddAwaitingInv,
           ExchangeAcceptsInv, ExchangeCancelsInv DEF Next

\* However the strategy, risk, builder and store threads and the exchange take
\* turns, each token is sent once and is in one place, an order that was not
\* acknowledged is in one queue, and every map leads to the slot its order was
\* entered from (OrderManager::update_order, add_awaitingAck_order and the
\* fillers' release of slots).
THEOREM InductiveInvariant == Spec => []IInv
<1>1. ASSUME IInv, [Next]_vars PROVE IInv'
    BY <1>1, NextInv, StutterInv
<1> QED BY InitInv, <1>1, PTL DEF Spec

\* A slot that fill_rejected or update_order gave back to the strategy is
\* nobody's: it is on the free list once, in no queue, not with the builder, in
\* no map of the store, and the exchange has no order that was entered from it.
THEOREM SlotsOwnedOnce == Spec => []SlotOwnedOnce
<1>1. IInv => SlotOwnedOnce
  <2> SUFFICES ASSUME IInv PROVE SlotOwnedOnce
      OBVIOUS
  <2>1. IsInjective(free)
      BY DEF IInv, PlaceInv
  <2>2. ASSUME NEW s \in Range(free)
        PROVE  /\ s \notin held \cup {building}
               /\ s \notin Range(strategy_to_risk_) \cup Range(risk_to_builder_)
               /\ s \notin Range(our_orders_) \cup Range(our_orders_wtokenkey_)
               /\ flow # "FIX" => s \notin Range(awaitingAck_orders_)
               /\ \A i \in 1..Len(ex) : ex[i].leaves > 0 => ex[i].token # order_pool_[s].client_order_id
    <3>1. /\ s \notin Queued /\ s # building /\ Token(s) \notin Sent
          /\ s \notin Range(our_orders_) /\ s \notin Range(our_orders_wtokenkey_)
          /\ \A t \in DOMAIN awaitingAck_orders_ : awaitingAck_orders_[t] = s => flow = "FIX"
        BY UsableSlot
    <3>2. s \notin held
        BY DEF IInv, PlaceInv
    <3>3. flow # "FIX" => s \notin Range(awaitingAck_orders_)
        BY <3>1 DEF Range
    <3>4. DOMAIN ex = 1..Len(ex)
        BY DEF IInv, TypeInv
    <3>5. \A i \in 1..Len(ex) : ex[i].token # Token(s)
        BY <3>1, <3>4 DEF Sent, Taken
    <3> QED BY <3>1, <3>2, <3>3, <3>5 DEF Queued, Token
  <2> QED BY <2>1, <2>2 DEF SlotOwnedOnce
<1> QED BY <1>1, InductiveInvariant, PTL

\* our_orders_, our_orders_wtokenkey_ and nq_ouch_refnum_ordkey_ lead to the
\* slot from which their order was entered, although slots are given back and
\* used again; and with OUCH what the builder put into awaitingAck_orders_ is
\* on its way to the exchange or its answer on the way back, unless that answer
\* was missed.
THEOREM KeysHome == Spec => []KeysLeadHome
<1>1. IInv => KeysLeadHome
  <2> SUFFICES ASSUME IInv PROVE KeysLeadHome
      OBVIOUS
  <2>1. \A id \in DOMAIN our_orders_ : order_pool_[our_orders_[id]].client_order_id = ex[id].token
      BY DEF IInv, MapInv, Token
  <2>2. \A t \in DOMAIN our_orders_wtokenkey_ : order_pool_[our_orders_wtokenkey_[t]].client_order_id = t
      BY DEF IInv, MapInv, Token
  <2>3. \A u \in DOMAIN nq_ouch_refnum_ordkey_ : ex[nq_ouch_refnum_ordkey_[u]].urn = u
      BY DEF IInv, MapInv
  <2>4. ASSUME flow # "FIX", NEW t \in DOMAIN awaitingAck_orders_ \ missed
        PROVE  /\ order_pool_[awaitingAck_orders_[t]].client_order_id = t
               /\ \/ \E i \in 1..Len(wire_out) : wire_out[i].type = "Enter" /\ wire_out[i].token = t
                  \/ \E i \in 1..Len(wire_in) : wire_in[i].type \in {"Accepted", "Rejected"} /\ wire_in[i].token = t
    <3>1. order_pool_[awaitingAck_orders_[t]].client_order_id = t
        BY <2>4 DEF IInv, MapInv, Token
    <3>2. t \in Ordered \cup Answered
        BY <2>4 DEF IInv, AwaitInv, Awaited
    <3>3. DOMAIN wire_out = 1..Len(wire_out) /\ DOMAIN wire_in = 1..Len(wire_in)
        BY DEF IInv, TypeInv
    <3> QED BY <3>1, <3>2, <3>3 DEF Ordered, Answered
  <2> QED BY <2>1, <2>2, <2>3, <2>4 DEF KeysLeadHome
<1> QED BY <1>1, InductiveInvariant, PTL

-----------------------------------------------------------------------------
(* The second invariant: what is under way between the exchange and the store *)

\* Quantities are those of a uint32_t; a refusal or a report tells the state of
\* the order after it, but for what a Cancelled message takes back.
Sized(m) ==
    /\ m.qty \in 0..QtyMod - 1 /\ m.filled \in Nat /\ m.leaves \in 0..QtyMod - 1
    /\ m.type = "Accepted" => m.filled = 0 /\ m.qty = m.leaves
    /\ m.type = "Cancelled" => m.qty <= m.leaves /\ (flow # "NASDAQ" => m.qty = m.leaves)
SizeInv ==
    /\ \A s \in Slots : order_pool_[s].quantity \in 0..QtyMod - 1
    /\ \A k \in DOMAIN wire_out : wire_out[k].qty \in 0..QtyMod - 1
    /\ \A i \in DOMAIN ex : ex[i].filled \in Nat /\ ex[i].leaves \in 0..QtyMod - 1
    /\ \A k \in DOMAIN wire_in : Sized(wire_in[k])
    /\ \A k \in DOMAIN pending_to_strategy_ : Sized(pending_to_strategy_[k].msg)

\* The exchange got each token, and from NASDAQ's builder each number, once.
NameInv ==
    /\ \A i, j \in DOMAIN ex : ex[i].token = ex[j].token => i = j
    /\ flow = "NASDAQ" =>
          /\ \A k \in DOMAIN wire_out : wire_out[k].type = "Enter" => wire_out[k].ref < user_ref_num
          /\ \A i \in DOMAIN ex : ex[i].urn < user_ref_num
          /\ \A k, l \in DOMAIN wire_out :
                wire_out[k].type = "Enter" /\ wire_out[l].type = "Enter" /\ wire_out[k].ref = wire_out[l].ref => k = l
          /\ \A i, j \in DOMAIN ex : ex[i].urn = ex[j].urn => i = j
          /\ \A k \in DOMAIN wire_out, i \in DOMAIN ex : wire_out[k].type = "Enter" => wire_out[k].ref # ex[i].urn

\* The Accepted message of an order is handled before its other messages.
FirstInv ==
    /\ \A s \in Slots : Token(s) \notin Taken => order_pool_[s].filled_quantity = 0
    /\ \A k \in DOMAIN wire_in : wire_in[k].type = "Accepted" =>
          /\ wire_in[k].id \notin DOMAIN our_orders_
          /\ \A j \in DOMAIN wire_in : wire_in[j].id = wire_in[k].id => j >= k
          /\ \A j \in DOMAIN pending_to_strategy_ : pending_to_strategy_[j].msg.id # wire_in[k].id
          /\ \A s \in Slots : Token(s) = wire_in[k].token => order_pool_[s].filled_quantity = 0

\* OUCH: an order of the exchange is registered, or will be, or was missed.
RegInv == flow # "FIX" => \A i \in DOMAIN ex :
    \/ i \in DOMAIN our_orders_ \/ ex[i].token \in missed
    \/ \E k \in DOMAIN wire_in : wire_in[k].type = "Accepted" /\ wire_in[k].id = i

\* FIX: what is cancelled is registered.
CancelInv == flow = "FIX" =>
    /\ \A k \in DOMAIN wire_in : wire_in[k].type = "CancelReject" => wire_in[k].id \in DOMAIN our_orders_
    /\ \A k \in DOMAIN wire_out : wire_out[k].type = "Cancel" =>
          \E i \in DOMAIN our_orders_ : ex[i].token = wire_out[k].ref
    /\ \A s \in Slots : Id(s) # 0 => \E i \in DOMAIN our_orders_ : ex[i].token = Token(s)

\* A message on the wire tells the exchange's order up to the messages behind it.
AheadInv == \A k \in DOMAIN wire_in : wire_in[k].id # 0 =>
    /\ wire_in[k].filled + Behind(wire_in, k, wire_in[k].id, {"Executed"}) = ex[wire_in[k].id].filled
    /\ wire_in[k].leaves - (IF wire_in[k].type = "Cancelled" THEN wire_in[k].qty ELSE 0)
         = ex[wire_in[k].id].leaves + Behind(wire_in, k, wire_in[k].id, {"Executed", "Cancelled"})

\* A parked message waits for its own order; behind a parked Cancelled message
\* nothing of the order is left.
ParkInv == \A k \in DOMAIN pending_to_strategy_ :
    LET m == pending_to_strategy_[k].msg
    IN /\ Token(pending_to_strategy_[k].order) = m.token /\ m.type # "Accepted"
       /\ m.type = "Cancelled" => ex[m.id].leaves + Behind(Parked, k, m.id, {"Executed", "Cancelled"})
                                    + Behind(wire_in, 0, m.id, {"Executed", "Cancelled"}) = 0

\* StoreFollowsExchange, and no rest above what a uint32_t holds.
BalanceInv == \A i \in DOMAIN our_orders_ : flow = "FIX" \/ ex[i].token \notin missed =>
    /\ order_pool_[our_orders_[i]].filled_quantity + Transit(i, {"Executed"}) = ex[i].filled
    /\ order_pool_[our_orders_[i]].remaining_quantity = ex[i].leaves + Transit(i, {"Executed", "Cancelled"})
    /\ order_pool_[our_orders_[i]].remaining_quantity < QtyMod

Ledger == SizeInv /\ NameInv /\ FirstInv /\ RegInv /\ CancelInv /\ AheadInv /\ ParkInv /\ BalanceInv
LedgerInv == ~crashed => Ledger

-----------------------------------------------------------------------------
(* Sums over messages *)

\* What message m changes of order i.
Weight(m, i, T) == IF m.id = i /\ m.type \in T THEN m.qty ELSE 0
Counted == {m \in Messages : m.qty \in Nat}

LEMMA BehindTerms ==
  ASSUME NEW q \in Seq(Counted), NEW k \in Nat, NEW i, NEW T
  PROVE  /\ Len(q) \in Nat /\ IsFiniteSet(1..Len(q)) /\ DOMAIN q = 1..Len(q)
         /\ \E f \in [1..Len(q) -> Nat] :
               /\ Behind(q, k, i, T) = Total(f)
               /\ \A j \in 1..Len(q) : f[j] = IF j > k THEN Weight(q[j], i, T) ELSE 0
<1> DEFINE f == [j \in 1..Len(q) |-> IF j > k /\ q[j].id = i /\ q[j].type \in T THEN q[j].qty ELSE 0]
<1>1. Len(q) \in Nat /\ DOMAIN q = 1..Len(q) /\ \A j \in 1..Len(q) : q[j] \in Counted
    OBVIOUS
<1>2. IsFiniteSet(1..Len(q))
    BY <1>1, FS_Interval
<1>3. \A j \in 1..Len(q) : q[j].qty \in Nat
    BY <1>1 DEF Counted
<1>4. f \in [1..Len(q) -> Nat]
    BY <1>1, <1>3
<1>5. \A j \in 1..Len(q) : f[j] = IF j > k THEN Weight(q[j], i, T) ELSE 0
    BY DEF Weight
<1>6. Behind(q, k, i, T) = Total(f)
    BY DEF Behind
<1> HIDE DEF f
<1> QED BY <1>1, <1>2, <1>4, <1>5, <1>6

LEMMA BehindNat ==
  ASSUME NEW q \in Seq(Counted), NEW k \in Nat, NEW i, NEW T
  PROVE  Behind(q, k, i, T) \in Nat
<1>1. IsFiniteSet(1..Len(q)) /\ \E f \in [1..Len(q) -> Nat] : Behind(q, k, i, T) = Total(f)
    BY BehindTerms
<1> QED BY <1>1, TotalNat

LEMMA BehindNone ==
  ASSUME NEW q \in Seq(Counted), NEW k \in Nat, NEW i, NEW T, \A j \in DOMAIN q : j > k => Weight(q[j], i, T) = 0
  PROVE  Behind(q, k, i, T) = 0
<1>1. DOMAIN q = 1..Len(q)
    OBVIOUS
<1>2. PICK f \in [1..Len(q) -> Nat] :
         /\ Behind(q, k, i, T) = Total(f)
         /\ \A j \in 1..Len(q) : f[j] = IF j > k THEN Weight(q[j], i, T) ELSE 0
    BY BehindTerms
<1>3. \A j \in DOMAIN f : f[j] = 0
    BY <1>1, <1>2
<1> QED BY <1>2, <1>3, TotalZero

\* One message more on the wire.
LEMMA BehindAppend ==
  ASSUME NEW q \in Seq(Counted), NEW m \in Counted, NEW i, NEW T
  PROVE  /\ \A k \in 0..Len(q) : Behind(Append(q, m), k, i, T) = Behind(q, k, i, T) + Weight(m, i, T)
         /\ Behind(Append(q, m), Len(q) + 1, i, T) = 0
<1>1. PICK a \in Seq(Counted) : a = Append(q, m)
    BY AppendFacts
<1>2. /\ Len(q) \in Nat /\ Len(a) = Len(q) + 1 /\ DOMAIN a = 1..Len(q) + 1 /\ DOMAIN q = 1..Len(q)
      /\ a[Len(q) + 1] = m /\ \A j \in 1..Len(q) : a[j] = q[j]
    BY <1>1, AppendFacts
<1>3. ASSUME NEW k \in 0..Len(q)
      PROVE  Behind(a, k, i, T) = Behind(q, k, i, T) + Weight(m, i, T)
  <2>k. k \in Nat
      BY <1>2
  <2> DEFINE n == Len(q) + 1
  <2>1. PICK f \in [1..Len(q) -> Nat] :
           /\ Behind(q, k, i, T) = Total(f)
           /\ \A j \in 1..Len(q) : f[j] = IF j > k THEN Weight(q[j], i, T) ELSE 0
      BY <2>k, BehindTerms
  <2>2. PICK g \in [1..Len(a) -> Nat] :
           /\ Behind(a, k, i, T) = Total(g)
           /\ \A j \in 1..Len(a) : g[j] = IF j > k THEN Weight(a[j], i, T) ELSE 0
      BY <2>k, BehindTerms
  <2>3. n \in 1..Len(a) /\ (1..Len(a)) \ {n} = 1..Len(q) /\ n > k
      BY <1>2
  <2> HIDE DEF n
  <2>4. Total(g) = Total([x \in (1..Len(a)) \ {n} |-> g[x]]) + g[n]
    <3>1. IsFiniteSet(1..Len(a))
        BY <2>k, BehindTerms
    <3> QED BY <3>1, <2>3, TotalSplit
  <2>5. [x \in (1..Len(a)) \ {n} |-> g[x]] = f
    <3>1. \A x \in 1..Len(q) : x \in 1..Len(a) /\ g[x] = f[x]
        BY <1>2, <2>1, <2>2
    <3> QED BY <3>1, <2>1, <2>3
  <2>6. g[n] = Weight(m, i, T)
      BY <1>2, <2>2, <2>3 DEF n
  <2> QED BY <2>1, <2>2, <2>4, <2>5, <2>6
<1>4. Behind(a, Len(q) + 1, i, T) = 0
  <2>1. Len(q) + 1 \in Nat /\ \A j \in DOMAIN a : ~(j > Len(q) + 1)
      BY <1>2
  <2> QED BY <2>1, BehindNone
<1> QED BY <1>1, <1>3, <1>4

\* What is behind the messages of t, when t is q without its first one.
Dropped(t, q) == \A i, T :
    /\ \A k \in Nat : Behind(t, k, i, T) = Behind(q, k + 1, i, T)
    /\ Behind(q, 0, i, T) = Weight(q[1], i, T) + Behind(t, 0, i, T)
    /\ Behind(q, 1, i, T) = Behind(t, 0, i, T)

\* One message less.
LEMMA BehindTail ==
  ASSUME NEW q \in Seq(Counted), q # <<>>
  PROVE  \E t \in Seq(Counted) : t = Tail(q) /\ Dropped(t, q)
<1>1. PICK a \in Seq(Counted) : a = Tail(q)
    BY TailFacts
<1>2. /\ Len(q) \in Nat /\ Len(q) > 0 /\ Len(a) = Len(q) - 1 /\ \A j \in 1..Len(a) : a[j] = q[j + 1]
  <2>1. /\ Len(q) \in Nat /\ Len(q) > 0 /\ Len(a) = Len(q) - 1 /\ DOMAIN a = 1..Len(q) - 1
        /\ \A j \in DOMAIN a : a[j] = q[j + 1]
      BY <1>1, TailFacts
  <2> QED BY <2>1
<1>5. IsFiniteSet(1..Len(q)) /\ IsFiniteSet(1..Len(a))
    BY <1>2, FS_Interval
<1>3. ASSUME NEW i, NEW T, NEW k \in Nat
      PROVE  Behind(a, k, i, T) = Behind(q, k + 1, i, T)
  <2>1. PICK f \in [1..Len(q) -> Nat] :
           /\ Behind(q, k + 1, i, T) = Total(f)
           /\ \A j \in 1..Len(q) : f[j] = IF j > k + 1 THEN Weight(q[j], i, T) ELSE 0
    <3>1. k + 1 \in Nat
        OBVIOUS
    <3> QED BY <3>1, BehindTerms
  <2>2. PICK g \in [1..Len(a) -> Nat] :
           /\ Behind(a, k, i, T) = Total(g)
           /\ \A j \in 1..Len(a) : g[j] = IF j > k THEN Weight(a[j], i, T) ELSE 0
      BY BehindTerms
  <2>3. 1 \in 1..Len(q) /\ f[1] = 0
      BY <1>2, <2>1
  <2>4. PICK n \in Nat : n = Len(a) /\ Len(q) = n + 1
      BY <1>2
  <2>5. f \in [1..n + 1 -> Nat] /\ g \in [1..n -> Nat]
      BY <2>4
  <2>6. \A x \in 1..n : g[x] = f[x + 1]
    <3> SUFFICES ASSUME NEW x \in 1..n PROVE g[x] = f[x + 1]
        OBVIOUS
    <3>1. x \in 1..Len(a) /\ x + 1 \in 1..Len(q) /\ (x + 1 > k + 1 <=> x > k)
        BY <2>4
    <3> QED BY <3>1, <2>1, <2>2, <1>2
  <2> QED BY <2>1, <2>2, <2>3, <2>5, <2>6, TotalShift
<1>4. ASSUME NEW i, NEW T
      PROVE  Behind(q, 0, i, T) = Weight(q[1], i, T) + Behind(q, 1, i, T)
  <2> DEFINE D == 1..Len(q)
  <2>z. PICK z \in Nat : z = 0
      OBVIOUS
  <2>1. PICK f \in [1..Len(q) -> Nat] :
           /\ Behind(q, z, i, T) = Total(f)
           /\ \A j \in 1..Len(q) : f[j] = IF j > z THEN Weight(q[j], i, T) ELSE 0
      BY BehindTerms
  <2>2. PICK g \in [1..Len(q) -> Nat] :
           /\ Behind(q, 1, i, T) = Total(g)
           /\ \A j \in 1..Len(q) : g[j] = IF j > 1 THEN Weight(q[j], i, T) ELSE 0
    <3>1. PICK k \in Nat : k = 1
        OBVIOUS
    <3> QED BY <3>1, BehindTerms
  <2>3. 1 \in D /\ f[1] = Weight(q[1], i, T) /\ g[1] = 0 /\ f[1] \in Nat
      BY <1>2, <2>z, <2>1, <2>2
  <2>4. \A x \in D \ {1} : f[x] = g[x]
      BY <1>2, <2>z, <2>1, <2>2
  <2>5. f \in [D -> Nat] /\ g \in [D -> Nat] /\ IsFiniteSet(D)
      BY <1>5
  <2> HIDE DEF D
  <2>6. Total(f) \in Nat /\ Total(g) \in Nat /\ Total(f) = Total(g) - g[1] + f[1]
    <3>1. PICK k \in D : k = 1
        BY <2>3
    <3>2. \A x \in D \ {k} : f[x] = g[x]
        BY <3>1, <2>4
    <3>3. Total(f) \in Nat /\ Total(g) \in Nat /\ Total(f) = Total(g) - g[k] + f[k]
        BY <3>2, <2>5, TotalChange
    <3> QED BY <3>1, <3>3
  <2> QED BY <2>z, <2>1, <2>2, <2>3, <2>6
<1>6. ASSUME NEW i, NEW T
      PROVE  Behind(q, 1, i, T) = Behind(a, 0, i, T)
  <2>1. PICK z \in Nat : z = 0 /\ z + 1 = 1
      OBVIOUS
  <2>2. Behind(a, z, i, T) = Behind(q, z + 1, i, T)
      BY <1>3
  <2> QED BY <2>1, <2>2
<1>7. Dropped(a, q)
  <2> SUFFICES ASSUME NEW i, NEW T
               PROVE  /\ \A k \in Nat : Behind(a, k, i, T) = Behind(q, k + 1, i, T)
                      /\ Behind(q, 0, i, T) = Weight(q[1], i, T) + Behind(a, 0, i, T)
                      /\ Behind(q, 1, i, T) = Behind(a, 0, i, T)
      BY DEF Dropped
  <2>1. \A k \in Nat : Behind(a, k, i, T) = Behind(q, k + 1, i, T)
      BY <1>3
  <2>2. Behind(q, 1, i, T) = Behind(a, 0, i, T)
      BY <1>6
  <2>3. Behind(q, 0, i, T) = Weight(q[1], i, T) + Behind(q, 1, i, T)
      BY <1>4
  <2> QED BY <2>1, <2>2, <2>3
<1> QED BY <1>1, <1>7

LEMMA SeqInto ==
  ASSUME NEW S, NEW R, NEW q \in Seq(S), \A k \in DOMAIN q : q[k] \in R
  PROVE  q \in Seq(R)
<1>1. DOMAIN q = 1..Len(q) /\ Len(q) \in Nat /\ q = [k \in 1..Len(q) |-> q[k]]
    OBVIOUS
<1>2. q \in [1..Len(q) -> R]
    BY <1>1
<1> QED BY <1>1, <1>2

\* The messages of a queue of parked messages.
Msgs(q) == [k \in 1..Len(q) |-> q[k].msg]

LEMMA MsgsFacts ==
  ASSUME NEW q \in Seq(Pending)
  PROVE  /\ Msgs(q) \in Seq(Messages) /\ Len(Msgs(q)) = Len(q) /\ DOMAIN Msgs(q) = DOMAIN q
         /\ DOMAIN q = 1..Len(q) /\ Len(q) \in Nat /\ \A k \in DOMAIN q : Msgs(q)[k] = q[k].msg /\ q[k].msg \in Messages
<1>1. DOMAIN q = 1..Len(q) /\ Len(q) \in Nat /\ \A k \in 1..Len(q) : q[k] \in Pending
    OBVIOUS
<1>2. \A k \in 1..Len(q) : q[k].msg \in Messages
    BY <1>1 DEF Pending
<1>3. Msgs(q) \in [1..Len(q) -> Messages]
    BY <1>2 DEF Msgs
<1>4. Msgs(q) \in Seq(Messages) /\ DOMAIN Msgs(q) = 1..Len(q)
    BY <1>1, <1>3
<1>5. Len(Msgs(q)) = Len(q)
    BY <1>1, <1>4
<1> QED BY <1>1, <1>2, <1>4, <1>5 DEF Msgs

LEMMA MsgsAppend ==
  ASSUME NEW q \in Seq(Pending), NEW w \in Pending
  PROVE  Msgs(Append(q, w)) = Append(Msgs(q), w.msg)
<1>1. /\ Append(q, w) \in Seq(Pending) /\ Len(Append(q, w)) = Len(q) + 1 /\ Len(q) \in Nat
      /\ Append(q, w)[Len(q) + 1] = w /\ DOMAIN q = 1..Len(q) /\ \A i \in DOMAIN q : Append(q, w)[i] = q[i]
    BY AppendFacts
<1>2. w.msg \in Messages
    BY DEF Pending
<1>3. PICK p \in Seq(Messages) : p = Msgs(q)
    BY MsgsFacts
<1>4. Len(p) = Len(q) /\ \A k \in 1..Len(q) : p[k] = q[k].msg
    BY <1>1, <1>3, MsgsFacts
<1>5. /\ Append(p, w.msg) \in Seq(Messages) /\ Len(Append(p, w.msg)) = Len(q) + 1
      /\ Append(p, w.msg)[Len(q) + 1] = w.msg /\ \A i \in 1..Len(q) : Append(p, w.msg)[i] = p[i]
    BY <1>1, <1>2, <1>4, AppendFacts
<1>6. PICK a \in Seq(Messages) : a = Msgs(Append(q, w))
    BY <1>1, MsgsFacts
<1>7. Len(a) = Len(q) + 1 /\ \A k \in 1..Len(q) + 1 : a[k] = Append(q, w)[k].msg
    BY <1>1, <1>6, MsgsFacts
<1>8. \A k \in 1..Len(q) + 1 : a[k] = Append(p, w.msg)[k]
  <2> SUFFICES ASSUME NEW k \in 1..Len(q) + 1 PROVE a[k] = Append(p, w.msg)[k]
      OBVIOUS
  <2>1. CASE k = Len(q) + 1
      BY <2>1, <1>1, <1>5, <1>7
  <2>2. CASE k \in 1..Len(q)
      BY <2>2, <1>1, <1>4, <1>5, <1>7
  <2>3. Len(q) \in Nat
      BY <1>1
  <2>4. k = Len(q) + 1 \/ k \in 1..Len(q)
      BY <2>3
  <2> QED BY <2>1, <2>2, <2>4
<1>9. a = Append(p, w.msg)
  <2>1. PICK b \in Seq(Messages) : b = Append(p, w.msg)
      BY <1>5
  <2>2. Len(a) = Len(b) /\ \A k \in 1..Len(a) : a[k] = b[k]
      BY <2>1, <1>5, <1>7, <1>8
  <2> QED BY <2>1, <2>2, SeqEqual
<1> QED BY <1>3, <1>6, <1>9

LEMMA MsgsTail ==
  ASSUME NEW q \in Seq(Pending), q # <<>>
  PROVE  Msgs(Tail(q)) = Tail(Msgs(q)) /\ Msgs(q) # <<>>
<1>1. /\ Tail(q) \in Seq(Pending) /\ Len(Tail(q)) = Len(q) - 1 /\ Len(q) \in Nat /\ Len(q) > 0
      /\ DOMAIN q = 1..Len(q) /\ DOMAIN Tail(q) = 1..Len(q) - 1
      /\ \A i \in DOMAIN Tail(q) : i + 1 \in DOMAIN q /\ Tail(q)[i] = q[i + 1]
    BY TailFacts
<1>2. PICK p \in Seq(Messages) : p = Msgs(q)
    BY MsgsFacts
<1>3. Len(p) = Len(q) /\ \A k \in 1..Len(q) : p[k] = q[k].msg
    BY <1>1, <1>2, MsgsFacts
<1>4. p # <<>>
    BY <1>1, <1>3
<1>5. /\ Tail(p) \in Seq(Messages) /\ Len(Tail(p)) = Len(q) - 1
      /\ \A i \in 1..Len(q) - 1 : Tail(p)[i] = p[i + 1]
    BY <1>3, <1>4, TailFacts
<1>6. PICK a \in Seq(Messages) : a = Msgs(Tail(q))
    BY <1>1, MsgsFacts
<1>7. Len(a) = Len(q) - 1 /\ \A k \in 1..Len(q) - 1 : a[k] = Tail(q)[k].msg
    BY <1>1, <1>6, MsgsFacts
<1>8. \A k \in 1..Len(q) - 1 : a[k] = Tail(p)[k]
  <2> SUFFICES ASSUME NEW k \in 1..Len(q) - 1 PROVE a[k] = Tail(p)[k]
      OBVIOUS
  <2>1. k + 1 \in 1..Len(q)
      BY <1>1
  <2> QED BY <2>1, <1>1, <1>3, <1>5, <1>7
<1>9. a = Tail(p)
    BY <1>5, <1>7, <1>8, SeqEqual
<1> QED BY <1>2, <1>4, <1>6, <1>9

\* The messages under way can be counted.
LEMMA CountedWires ==
  ASSUME TypeInv, SizeInv
  PROVE  /\ wire_in \in Seq(Counted) /\ pending_to_strategy_ \in Seq(Pending) /\ Msgs(pending_to_strategy_) \in Seq(Counted)
         /\ Parked = Msgs(pending_to_strategy_) /\ Len(wire_in) \in Nat /\ DOMAIN wire_in = 1..Len(wire_in)
<1>0. QtyMod \in Nat \ {0}
    BY Consts
<1>1. wire_in \in Seq(Messages) /\ pending_to_strategy_ \in Seq(Pending)
    BY DEF TypeInv, Pending
<1>2. \A k \in DOMAIN wire_in : wire_in[k] \in Counted
  <2>1. \A k \in DOMAIN wire_in : wire_in[k] \in Messages
      BY <1>1
  <2> QED BY <2>1, <1>0 DEF SizeInv, Sized, Counted
<1>3. \A k \in DOMAIN Msgs(pending_to_strategy_) : Msgs(pending_to_strategy_)[k] \in Counted
  <2>1. \A k \in DOMAIN pending_to_strategy_ : pending_to_strategy_[k].msg.qty \in Nat
      BY <1>0 DEF SizeInv, Sized
  <2> QED BY <2>1, <1>1, MsgsFacts DEF Counted
<1>4. Msgs(pending_to_strategy_) \in Seq(Messages)
    BY <1>1, MsgsFacts
<1>5. wire_in \in Seq(Counted) /\ Msgs(pending_to_strategy_) \in Seq(Counted)
    BY <1>1, <1>2, <1>3, <1>4, SeqInto
<1> QED BY <1>1, <1>5 DEF Parked, Msgs

LEMMA InitLedger == ASSUME Init PROVE Ledger
<1>1. /\ wire_in = <<>> /\ wire_out = <<>> /\ ex = <<>> /\ pending_to_strategy_ = <<>> /\ our_orders_ = <<>>
      /\ order_pool_ = [s \in Slots |-> NoOrder]
    BY DEF Init
<1>2. DOMAIN wire_in = {} /\ DOMAIN wire_out = {} /\ DOMAIN ex = {} /\ DOMAIN pending_to_strategy_ = {} /\ DOMAIN our_orders_ = {}
    BY <1>1
<1>3. QtyMod \in Nat \ {0}
    BY Consts
<1>4. \A s \in Slots : /\ order_pool_[s].quantity = 0 /\ order_pool_[s].filled_quantity = 0
                       /\ order_pool_[s].order_id = 0
    BY <1>1 DEF NoOrder
<1>5. SizeInv
    BY <1>2, <1>3, <1>4 DEF SizeInv
<1>6. NameInv /\ FirstInv /\ RegInv /\ CancelInv
    BY <1>2, <1>4 DEF NameInv, FirstInv, RegInv, CancelInv, Id
<1>7. AheadInv /\ ParkInv /\ BalanceInv
    BY <1>2 DEF AheadInv, ParkInv, BalanceInv
<1> QED BY <1>5, <1>6, <1>7 DEF Ledger

-----------------------------------------------------------------------------
(* The second invariant: our side *)

\* A step of strategy, risk or builder: a token changes only while the
\* exchange does not know it, and what is sent names its order.
LEMMA LocalLedger ==
  ASSUME IInv, Ledger, UNCHANGED <<flow, wire_in, ex, our_orders_, pending_to_strategy_, missed>>,
         \A s \in Slots :
            /\ order_pool_'[s].quantity \in 0..QtyMod - 1
            /\ order_pool_'[s].filled_quantity = order_pool_[s].filled_quantity
            /\ order_pool_'[s].remaining_quantity = order_pool_[s].remaining_quantity
            /\ order_pool_'[s].order_id = order_pool_[s].order_id
            /\ \/ order_pool_'[s].client_order_id = Token(s)
               \/ order_pool_'[s].client_order_id \notin Taken /\ Token(s) \notin Taken,
         \/ wire_out' = wire_out /\ user_ref_num' = user_ref_num
         \/ \E e \in Requests :
               /\ wire_out' = Append(wire_out, e) /\ e.qty \in 0..QtyMod - 1
               /\ flow = "NASDAQ" /\ e.type = "Enter" => e.ref = user_ref_num /\ user_ref_num' = user_ref_num + 1
               /\ flow = "NASDAQ" /\ e.type = "Cancel" => user_ref_num' = user_ref_num
               /\ flow = "FIX" /\ e.type = "Cancel" => \E i \in DOMAIN our_orders_ : ex[i].token = e.ref
  PROVE  Ledger'
<1>0. TypeInv /\ MessageInv /\ SlotInv /\ MapInv /\ SizeInv /\ NameInv /\ FirstInv /\ RegInv /\ CancelInv /\ AheadInv
      /\ ParkInv /\ BalanceInv
    BY DEF IInv, Ledger
<1>1. /\ flow' = flow /\ wire_in' = wire_in /\ ex' = ex /\ our_orders_' = our_orders_
      /\ pending_to_strategy_' = pending_to_strategy_ /\ missed' = missed
    OBVIOUS
<1>2. Taken' = Taken /\ \A i \in DOMAIN ex : ex[i].token \in Taken
    BY <1>1 DEF Taken
<1>3. \A s \in Slots : Token(s)' = Token(s) \/ (Token(s)' \notin Taken /\ Token(s) \notin Taken)
    BY DEF Token
<1>4. \A k \in DOMAIN wire_in : wire_in[k].id # 0 => wire_in[k].token \in Taken
    BY <1>0, <1>2 DEF MessageInv, Fits
<1>5. /\ DOMAIN wire_out = 1..Len(wire_out) /\ Len(wire_out) \in Nat /\ wire_out \in Seq(Requests) /\ user_ref_num \in Nat
      /\ \A k \in DOMAIN wire_out : wire_out[k].ref \in Nat
  <2>1. wire_out \in Seq(Requests) /\ user_ref_num \in Nat
      BY <1>0 DEF TypeInv
  <2>2. DOMAIN wire_out = 1..Len(wire_out) /\ Len(wire_out) \in Nat /\ \A k \in DOMAIN wire_out : wire_out[k] \in Requests
      BY <2>1
  <2> QED BY <2>1, <2>2 DEF Requests
<1>6. \/ wire_out' = wire_out /\ user_ref_num' = user_ref_num
      \/ \E e \in Requests :
            /\ DOMAIN wire_out' = 1..Len(wire_out) + 1 /\ wire_out'[Len(wire_out) + 1] = e
            /\ \A k \in 1..Len(wire_out) : wire_out'[k] = wire_out[k]
            /\ e.qty \in 0..QtyMod - 1
            /\ flow = "NASDAQ" /\ e.type = "Enter" => e.ref = user_ref_num /\ user_ref_num' = user_ref_num + 1
            /\ flow = "NASDAQ" /\ e.type = "Cancel" => user_ref_num' = user_ref_num
            /\ flow = "FIX" /\ e.type = "Cancel" => \E i \in DOMAIN our_orders_ : ex[i].token = e.ref
    BY <1>5, AppendFacts
<1>7. \A k \in 1..Len(wire_out) + 1 : k = Len(wire_out) + 1 \/ k \in 1..Len(wire_out)
    BY <1>5
<1>8. SizeInv'
  <2>1. \A s \in Slots : order_pool_'[s].quantity \in 0..QtyMod - 1
      OBVIOUS
  <2>2. \A k \in DOMAIN wire_out' : wire_out'[k].qty \in 0..QtyMod - 1
      BY <1>0, <1>5, <1>6, <1>7 DEF SizeInv
  <2> QED BY <2>1, <2>2, <1>0, <1>1 DEF SizeInv, Sized
<1>9. NameInv'
  <2>1. CASE flow # "NASDAQ"
      BY <2>1, <1>0, <1>1 DEF NameInv
  <2>2. CASE wire_out' = wire_out /\ user_ref_num' = user_ref_num
      BY <2>2, <1>0, <1>1 DEF NameInv
  <2>3. CASE flow = "NASDAQ" /\ ~(wire_out' = wire_out /\ user_ref_num' = user_ref_num)
    <3>1. PICK e \in Requests :
            /\ DOMAIN wire_out' = 1..Len(wire_out) + 1 /\ wire_out'[Len(wire_out) + 1] = e
            /\ \A k \in 1..Len(wire_out) : wire_out'[k] = wire_out[k]
            /\ e.type = "Enter" => e.ref = user_ref_num /\ user_ref_num' = user_ref_num + 1
            /\ e.type = "Cancel" => user_ref_num' = user_ref_num
        BY <2>3, <1>6
    <3> DEFINE n == Len(wire_out) + 1
    <3>2. \A k \in DOMAIN wire_out' : k = n \/ (k \in DOMAIN wire_out /\ wire_out'[k] = wire_out[k])
        BY <3>1, <1>5, <1>7
    <3>3. wire_out'[n] = e
        BY <3>1
    <3> HIDE DEF n
    <3>4. /\ \A i, j \in DOMAIN ex : ex[i].token = ex[j].token => i = j
          /\ \A k \in DOMAIN wire_out : wire_out[k].type = "Enter" => wire_out[k].ref < user_ref_num
          /\ \A i \in DOMAIN ex : ex[i].urn < user_ref_num
          /\ \A k, l \in DOMAIN wire_out :
                wire_out[k].type = "Enter" /\ wire_out[l].type = "Enter" /\ wire_out[k].ref = wire_out[l].ref => k = l
          /\ \A i, j \in DOMAIN ex : ex[i].urn = ex[j].urn => i = j
          /\ \A k \in DOMAIN wire_out, i \in DOMAIN ex : wire_out[k].type = "Enter" => wire_out[k].ref # ex[i].urn
        BY <2>3, <1>0 DEF NameInv
    <3>5. \A i \in DOMAIN ex : ex[i].urn \in Nat
      <4>1. ex \in Seq(Book)
          BY <1>0 DEF TypeInv, Book
      <4>2. \A i \in DOMAIN ex : ex[i] \in Book
          BY <4>1
      <4> QED BY <4>2 DEF Book
    <3>6. e.type \in {"Enter", "Cancel"}
        BY DEF Requests
    <3>7. \A k \in DOMAIN wire_out' : wire_out'[k].type = "Enter" => wire_out'[k].ref < user_ref_num'
        BY <3>1, <3>2, <3>3, <3>4, <3>6, <1>5
    <3>8. \A i \in DOMAIN ex : ex[i].urn < user_ref_num'
        BY <3>1, <3>4, <3>5, <3>6, <1>5
    <3>9. ASSUME NEW k \in DOMAIN wire_out', NEW l \in DOMAIN wire_out',
                 wire_out'[k].type = "Enter", wire_out'[l].type = "Enter", wire_out'[k].ref = wire_out'[l].ref
          PROVE  k = l
      <4>1. CASE k = n /\ l # n
          BY <4>1, <3>1, <3>2, <3>3, <3>4, <3>9, <1>5
      <4>2. CASE k # n /\ l = n
          BY <4>2, <3>1, <3>2, <3>3, <3>4, <3>9, <1>5
      <4>3. CASE k # n /\ l # n
          BY <4>3, <3>2, <3>4, <3>9
      <4> QED BY <4>1, <4>2, <4>3
    <3>10. \A k \in DOMAIN wire_out', i \in DOMAIN ex : wire_out'[k].type = "Enter" => wire_out'[k].ref # ex[i].urn
        BY <3>1, <3>2, <3>3, <3>4, <3>5, <1>5
    <3> QED BY <3>4, <3>7, <3>8, <3>9, <3>10, <1>1 DEF NameInv
  <2> QED BY <2>1, <2>2, <2>3
<1>10. FirstInv'
  <2>1. \A s \in Slots : Token(s)' \notin Taken' => order_pool_'[s].filled_quantity = 0
      BY <1>0, <1>2, <1>3 DEF FirstInv
  <2>2. ASSUME NEW k \in DOMAIN wire_in, wire_in[k].type = "Accepted", NEW s \in Slots, Token(s)' = wire_in[k].token
        PROVE  order_pool_'[s].filled_quantity = 0
    <3>1. wire_in[k].token \in Taken
        BY <2>2, <1>0, <1>4 DEF MessageInv, Fits
    <3>2. Token(s) = wire_in[k].token
        BY <3>1, <2>2, <1>3
    <3> QED BY <3>2, <2>2, <1>0 DEF FirstInv
  <2> QED BY <2>1, <2>2, <1>0, <1>1 DEF FirstInv
<1>11. RegInv'
    BY <1>0, <1>1 DEF RegInv
<1>12. CancelInv'
  <2> SUFFICES ASSUME flow = "FIX" PROVE CancelInv'
      BY <1>1 DEF CancelInv
  <2>1. \A k \in DOMAIN wire_out' : wire_out'[k].type = "Cancel" => \E i \in DOMAIN our_orders_ : ex[i].token = wire_out'[k].ref
      BY <1>0, <1>5, <1>6, <1>7 DEF CancelInv
  <2>2. \A s \in Slots : Id(s)' # 0 => \E i \in DOMAIN our_orders_ : ex[i].token = Token(s)'
    <3> SUFFICES ASSUME NEW s \in Slots, Id(s)' # 0 PROVE \E i \in DOMAIN our_orders_ : ex[i].token = Token(s)'
        OBVIOUS
    <3>1. Id(s) # 0 /\ Token(s) \in Taken
        BY <1>0 DEF Id, SlotInv
    <3>2. Token(s)' = Token(s)
        BY <3>1, <1>3
    <3> QED BY <3>1, <3>2, <1>0 DEF CancelInv
  <2> QED BY <2>1, <2>2, <1>0, <1>1 DEF CancelInv
<1>13. AheadInv'
    BY <1>0, <1>1 DEF AheadInv
<1>14. ParkInv'
  <2>0. Parked' = Parked
      BY <1>1 DEF Parked
  <2> SUFFICES ASSUME NEW k \in DOMAIN pending_to_strategy_
               PROVE  Token(pending_to_strategy_[k].order)' = Token(pending_to_strategy_[k].order)
    <3>1. \A k \in DOMAIN pending_to_strategy_ : Token(pending_to_strategy_[k].order)' = Token(pending_to_strategy_[k].order)
        OBVIOUS
    <3> QED BY <3>1, <2>0, <1>0, <1>1 DEF ParkInv
  <2>1. pending_to_strategy_[k].order \in Slots
    <3>1. pending_to_strategy_ \in Seq(Pending)
        BY <1>0 DEF TypeInv, Pending
    <3>2. pending_to_strategy_[k] \in Pending
        BY <3>1
    <3> QED BY <3>2 DEF Pending
  <2>2. Token(pending_to_strategy_[k].order) = pending_to_strategy_[k].msg.token
      BY <1>0 DEF ParkInv
  <2>3. pending_to_strategy_[k].msg.token \in Taken
      BY <1>0, <1>2 DEF MessageInv, Fits
  <2>4. PICK r \in Slots : r = pending_to_strategy_[k].order
      BY <2>1
  <2>5. Token(r)' = Token(r)
      BY <2>2, <2>3, <2>4, <1>3
  <2> QED BY <2>4, <2>5, <1>1 DEF Token
<1>15. BalanceInv'
  <2>0. Parked' = Parked
      BY <1>1 DEF Parked
  <2>1. \A i, T : Transit(i, T)' = Transit(i, T)
      BY <2>0, <1>1 DEF Transit
  <2>2. \A i \in DOMAIN our_orders_ : our_orders_[i] \in Slots
      BY <1>0 DEF MapInv
  <2> QED BY <2>0, <2>2, <1>0, <1>1 DEF BalanceInv, Transit
<1> QED BY <1>8, <1>9, <1>10, <1>11, <1>12, <1>13, <1>14, <1>15 DEF Ledger

\* What LocalLedger asks of the orders holds when one order is written.
LEMMA OrderWritten ==
  ASSUME IInv, Ledger, NEW s \in Slots, NEW o2,
         order_pool_' = order_pool_ \/ order_pool_' = [order_pool_ EXCEPT ![s] = o2],
         o2.quantity \in 0..QtyMod - 1,
         o2.filled_quantity = order_pool_[s].filled_quantity, o2.remaining_quantity = order_pool_[s].remaining_quantity,
         o2.order_id = order_pool_[s].order_id,
         \/ o2.client_order_id = Token(s)
         \/ o2.client_order_id \notin Taken /\ Token(s) \notin Taken
  PROVE  \A r \in Slots :
            /\ order_pool_'[r].quantity \in 0..QtyMod - 1
            /\ order_pool_'[r].filled_quantity = order_pool_[r].filled_quantity
            /\ order_pool_'[r].remaining_quantity = order_pool_[r].remaining_quantity
            /\ order_pool_'[r].order_id = order_pool_[r].order_id
            /\ \/ order_pool_'[r].client_order_id = Token(r)
               \/ order_pool_'[r].client_order_id \notin Taken /\ Token(r) \notin Taken
<1>1. order_pool_ \in [Slots -> Orders] /\ \A r \in Slots : order_pool_[r].quantity \in 0..QtyMod - 1
    BY DEF IInv, TypeInv, Ledger, SizeInv
<1>2. \A r \in Slots : order_pool_'[r] = order_pool_[r] \/ (r = s /\ order_pool_'[r] = o2)
    BY <1>1
<1>3. \A r \in Slots : order_pool_[r].client_order_id = Token(r)
    BY DEF Token
<1> QED BY <1>1, <1>2, <1>3

LEMMA EnterOrderLedger == ASSUME IInv, Ledger, NEW q \in Quantities, EnterOrder(q) PROVE Ledger'
<1>0. TypeInv /\ WireInv /\ MessageInv /\ SlotInv /\ TokenInv
    BY DEF IInv
<1>1. PICK s \in Slots :
          /\ \/ free # <<>> /\ s = Head(free) /\ free' = Tail(free) /\ UNCHANGED held
             \/ s \in held /\ held' = held \ {s} /\ UNCHANGED free
          /\ Submit(s, [order_pool_[s] EXCEPT !.message_type = "Enter", !.quantity = q,
                                              !.client_order_id = entered + 1])
    BY DEF EnterOrder
<1>2. s \in Range(free) \cup held
  <2>1. free \in Seq(Slots)
      BY <1>0 DEF TypeInv
  <2> QED BY <1>1, <2>1, QueueTail
<1>3. Token(s) \notin Sent
    BY <1>2, UsableSlot
<1> DEFINE o2 == [order_pool_[s] EXCEPT !.message_type = "Enter", !.quantity = q, !.client_order_id = entered + 1]
<1>4. /\ o2.client_order_id = entered + 1 /\ o2.order_id = order_pool_[s].order_id /\ o2.quantity = q
      /\ o2.filled_quantity = order_pool_[s].filled_quantity /\ o2.remaining_quantity = order_pool_[s].remaining_quantity
  <2>1. order_pool_[s] \in Orders
      BY <1>0 DEF TypeInv
  <2> QED BY <2>1 DEF Orders
<1>5. order_pool_' = [order_pool_ EXCEPT ![s] = o2]
    BY <1>1 DEF Submit
<1> HIDE DEF o2
<1>6. q \in 0..QtyMod - 1
    BY BoundAssumption
<1>7. entered + 1 \notin Taken /\ Token(s) \notin Taken
  <2>1. entered \in Nat /\ Sent \subseteq 1..entered
      BY <1>0 DEF TypeInv, WireInv
  <2> QED BY <2>1, <1>3 DEF Sent
<1>8. /\ UNCHANGED <<flow, wire_in, ex, our_orders_, pending_to_strategy_, missed>>
      /\ wire_out' = wire_out /\ user_ref_num' = user_ref_num
    BY <1>1 DEF Submit, builder, exchange, maps
<1>9. \A r \in Slots :
            /\ order_pool_'[r].quantity \in 0..QtyMod - 1
            /\ order_pool_'[r].filled_quantity = order_pool_[r].filled_quantity
            /\ order_pool_'[r].remaining_quantity = order_pool_[r].remaining_quantity
            /\ order_pool_'[r].order_id = order_pool_[r].order_id
            /\ \/ order_pool_'[r].client_order_id = Token(r)
               \/ order_pool_'[r].client_order_id \notin Taken /\ Token(r) \notin Taken
    BY <1>4, <1>5, <1>6, <1>7, OrderWritten
<1> QED BY <1>8, <1>9, LocalLedger

\* The same with every token kept and nothing sent.
LEMMA QuietLedger ==
  ASSUME IInv, Ledger, UNCHANGED <<flow, wire_in, wire_out, user_ref_num, ex, our_orders_, pending_to_strategy_, missed>>,
         \/ order_pool_' = order_pool_
         \/ \E s \in Slots, o2 \in Orders : /\ order_pool_' = [order_pool_ EXCEPT ![s] = o2]
                                            /\ o2.quantity = order_pool_[s].quantity
                                            /\ o2.filled_quantity = order_pool_[s].filled_quantity
                                            /\ o2.remaining_quantity = order_pool_[s].remaining_quantity
                                            /\ o2.order_id = order_pool_[s].order_id
                                            /\ o2.client_order_id = order_pool_[s].client_order_id
  PROVE  Ledger'
<1>1. \A s \in Slots : order_pool_[s].quantity \in 0..QtyMod - 1
    BY DEF Ledger, SizeInv
<1>2. \A r \in Slots :
            /\ order_pool_'[r].quantity \in 0..QtyMod - 1
            /\ order_pool_'[r].filled_quantity = order_pool_[r].filled_quantity
            /\ order_pool_'[r].remaining_quantity = order_pool_[r].remaining_quantity
            /\ order_pool_'[r].order_id = order_pool_[r].order_id
            /\ \/ order_pool_'[r].client_order_id = Token(r)
               \/ order_pool_'[r].client_order_id \notin Taken /\ Token(r) \notin Taken
  <2>1. CASE order_pool_' = order_pool_
      BY <2>1, <1>1 DEF Token
  <2>2. CASE \E s \in Slots, o2 \in Orders : /\ order_pool_' = [order_pool_ EXCEPT ![s] = o2]
                                             /\ o2.quantity = order_pool_[s].quantity
                                             /\ o2.filled_quantity = order_pool_[s].filled_quantity
                                             /\ o2.remaining_quantity = order_pool_[s].remaining_quantity
                                             /\ o2.order_id = order_pool_[s].order_id
                                             /\ o2.client_order_id = order_pool_[s].client_order_id
    <3>1. PICK s \in Slots, o2 \in Orders : /\ order_pool_' = [order_pool_ EXCEPT ![s] = o2]
                                            /\ o2.quantity = order_pool_[s].quantity
                                            /\ o2.filled_quantity = order_pool_[s].filled_quantity
                                            /\ o2.remaining_quantity = order_pool_[s].remaining_quantity
                                            /\ o2.order_id = order_pool_[s].order_id
                                            /\ o2.client_order_id = order_pool_[s].client_order_id
        BY <2>2
    <3>2. o2.client_order_id = Token(s) /\ o2.quantity \in 0..QtyMod - 1
        BY <3>1, <1>1 DEF Token
    <3> QED BY <3>1, <3>2, OrderWritten
  <2> QED BY <2>1, <2>2
<1> QED BY <1>2, LocalLedger

LEMMA RequestCancelLedger == ASSUME IInv, Ledger, NEW s \in Slots, RequestCancel(s) PROVE Ledger'
<1> DEFINE o2 == [order_pool_[s] EXCEPT !.message_type = "Cancel", !.status = "CancelRequest",
                                        !.canModify = @ \cup {"STRATEGY"}]
<1>1. /\ order_pool_' = [order_pool_ EXCEPT ![s] = o2]
      /\ UNCHANGED <<flow, wire_in, wire_out, user_ref_num, ex, our_orders_, pending_to_strategy_, missed>>
    BY DEF RequestCancel, Submit, builder, exchange, maps
<1>2. /\ o2 \in Orders /\ o2.client_order_id = order_pool_[s].client_order_id /\ o2.order_id = order_pool_[s].order_id
      /\ o2.quantity = order_pool_[s].quantity
      /\ o2.filled_quantity = order_pool_[s].filled_quantity /\ o2.remaining_quantity = order_pool_[s].remaining_quantity
  <2>1. order_pool_[s] \in Orders
      BY DEF IInv, TypeInv
  <2> QED BY <2>1 DEF Orders, Statuses, DONE
<1> HIDE DEF o2
<1> QED BY <1>1, <1>2, QuietLedger

LEMMA CheckRiskLedger == ASSUME IInv, Ledger, check_risk PROVE Ledger'
<1> DEFINE s == Head(strategy_to_risk_)
           o2 == [order_pool_[s] EXCEPT !.canModify = @ \cup {"RISK"}]
<1>1. s \in Slots
    BY QueueTail DEF check_risk, IInv, TypeInv
<1>2. /\ order_pool_' = order_pool_ \/ order_pool_' = [order_pool_ EXCEPT ![s] = o2]
      /\ UNCHANGED <<flow, wire_in, wire_out, user_ref_num, ex, our_orders_, pending_to_strategy_, missed>>
    BY DEF check_risk, builder, exchange, maps
<1>3. /\ o2 \in Orders /\ o2.client_order_id = order_pool_[s].client_order_id /\ o2.order_id = order_pool_[s].order_id
      /\ o2.quantity = order_pool_[s].quantity
      /\ o2.filled_quantity = order_pool_[s].filled_quantity /\ o2.remaining_quantity = order_pool_[s].remaining_quantity
  <2>1. order_pool_[s] \in Orders
      BY <1>1 DEF IInv, TypeInv
  <2> QED BY <2>1 DEF Orders, Statuses, DONE
<1> HIDE DEF o2, s
<1> QED BY <1>1, <1>2, <1>3, QuietLedger

LEMMA UpdateRiskLedger == ASSUME IInv, Ledger, update_risk PROVE Ledger'
<1> DEFINE s == Head(store_to_risk_)
           o2 == [order_pool_[s] EXCEPT !.canModify = @ \cup {"RISK"}, !.status = IF flow = "FIX" THEN "Unknown" ELSE @]
<1>1. s \in Slots
    BY QueueTail DEF update_risk, IInv, TypeInv
<1>2. order_pool_[s] \in Orders /\ order_pool_ \in [Slots -> Orders]
    BY <1>1 DEF IInv, TypeInv
<1>3. /\ order_pool_' = order_pool_ \/ order_pool_' = [order_pool_ EXCEPT ![s] = o2]
      /\ UNCHANGED <<flow, wire_in, wire_out, user_ref_num, ex, our_orders_, pending_to_strategy_, missed>>
  <2>1. \/ order_pool_' = order_pool_
        \/ order_pool_' = [order_pool_ EXCEPT ![s].canModify = @ \cup {"RISK"},
                                              ![s].status = IF flow = "FIX" THEN "Unknown" ELSE @]
      BY DEF update_risk
  <2>2. UNCHANGED <<flow, wire_in, wire_out, user_ref_num, ex, our_orders_, pending_to_strategy_, missed>>
      BY DEF update_risk, builder, exchange, maps
  <2> QED BY <2>1, <2>2, <1>1, <1>2
<1>4. /\ o2 \in Orders /\ o2.client_order_id = order_pool_[s].client_order_id /\ o2.order_id = order_pool_[s].order_id
      /\ o2.quantity = order_pool_[s].quantity
      /\ o2.filled_quantity = order_pool_[s].filled_quantity /\ o2.remaining_quantity = order_pool_[s].remaining_quantity
    BY <1>2 DEF Orders, Statuses, DONE
<1> HIDE DEF o2, s
<1> QED BY <1>1, <1>3, <1>4, QuietLedger

LEMMA AddAwaitingLedger == ASSUME IInv, Ledger, add_awaitingAck_order PROVE Ledger'
<1>1. UNCHANGED <<flow, order_pool_, wire_in, wire_out, user_ref_num, ex, our_orders_, pending_to_strategy_, missed>>
    BY DEF add_awaitingAck_order, exchange, maps
<1> QED BY <1>1, QuietLedger

LEMMA StutterLedger == ASSUME IInv, Ledger, UNCHANGED vars PROVE Ledger'
<1>1. UNCHANGED <<flow, order_pool_, wire_in, wire_out, user_ref_num, ex, our_orders_, pending_to_strategy_, missed>>
    BY DEF vars, strategy, builder, exchange, maps
<1> QED BY <1>1, QuietLedger

LEMMA BuildLedger == ASSUME IInv, Ledger, Build PROVE Ledger'
<1>0. TypeInv /\ SlotInv /\ SizeInv /\ CancelInv
    BY DEF IInv, Ledger
<1> DEFINE s == Head(risk_to_builder_)
           o == order_pool_[s]
           numbers == flow = "NASDAQ" /\ o.message_type = "Enter"
           o2 == [o EXCEPT !.canModify = @ \cup {"BUILDER"}, !.user_ref_num = IF numbers THEN user_ref_num ELSE @]
           e == [type |-> o.message_type, ref |-> RefOf(o), qty |-> o.quantity, token |-> o.client_order_id]
<1>1. s \in Slots
    BY <1>0, QueueTail DEF Build, TypeInv
<1>2. o \in Orders /\ user_ref_num \in Nat /\ order_pool_ \in [Slots -> Orders]
    BY <1>0, <1>1 DEF TypeInv
<1>3. /\ wire_out' = Append(wire_out, e)
      /\ user_ref_num' = IF numbers THEN user_ref_num + 1 ELSE user_ref_num
      /\ UNCHANGED <<flow, wire_in, ex, our_orders_, pending_to_strategy_, missed>>
    BY DEF Build, maps
<1>4. order_pool_' = [order_pool_ EXCEPT ![s] = o2]
  <2>1. order_pool_' = [order_pool_ EXCEPT ![s].canModify = @ \cup {"BUILDER"},
                                           ![s].user_ref_num = IF numbers THEN user_ref_num ELSE @]
      BY DEF Build
  <2> QED BY <2>1, <1>1, <1>2
<1>5. /\ o2.client_order_id = o.client_order_id /\ o2.order_id = o.order_id /\ o2.quantity = o.quantity
      /\ o2.filled_quantity = o.filled_quantity /\ o2.remaining_quantity = o.remaining_quantity
    BY <1>2 DEF Orders
<1>6. /\ e \in Requests /\ e.type = o.message_type /\ e.qty = o.quantity
      /\ e.ref = IF flow = "NASDAQ" THEN user_ref_num ELSE o.client_order_id
    BY <1>2 DEF Requests, Orders, RefOf
<1>7. /\ o.quantity \in 0..QtyMod - 1
      /\ flow = "FIX" /\ o.message_type = "Cancel" => \E i \in DOMAIN our_orders_ : ex[i].token = o.client_order_id
      /\ o.client_order_id = Token(s)
    BY <1>0, <1>1 DEF SizeInv, SlotInv, CancelInv, Token
<1>8. /\ flow = "NASDAQ" /\ e.type = "Enter" => e.ref = user_ref_num /\ user_ref_num' = user_ref_num + 1
      /\ flow = "NASDAQ" /\ e.type = "Cancel" => user_ref_num' = user_ref_num
      /\ flow = "FIX" /\ e.type = "Cancel" => \E i \in DOMAIN our_orders_ : ex[i].token = e.ref
    BY <1>3, <1>6, <1>7
<1> HIDE DEF o2, e, numbers
<1>9. \A r \in Slots :
            /\ order_pool_'[r].quantity \in 0..QtyMod - 1
            /\ order_pool_'[r].filled_quantity = order_pool_[r].filled_quantity
            /\ order_pool_'[r].remaining_quantity = order_pool_[r].remaining_quantity
            /\ order_pool_'[r].order_id = order_pool_[r].order_id
            /\ \/ order_pool_'[r].client_order_id = Token(r)
               \/ order_pool_'[r].client_order_id \notin Taken /\ Token(r) \notin Taken
    BY <1>1, <1>4, <1>5, <1>7, OrderWritten
<1>10. \E x \in Requests :
               /\ wire_out' = Append(wire_out, x) /\ x.qty \in 0..QtyMod - 1
               /\ flow = "NASDAQ" /\ x.type = "Enter" => x.ref = user_ref_num /\ user_ref_num' = user_ref_num + 1
               /\ flow = "NASDAQ" /\ x.type = "Cancel" => user_ref_num' = user_ref_num
               /\ flow = "FIX" /\ x.type = "Cancel" => \E i \in DOMAIN our_orders_ : ex[i].token = x.ref
    BY <1>3, <1>6, <1>7, <1>8
<1> QED BY <1>3, <1>9, <1>10, LocalLedger

-----------------------------------------------------------------------------
(* The second invariant: the exchange *)

\* The exchange says m: its book changes by what m tells, and a new order is
\* the one that was in front of the requests.
Spoken(m) == wire_in' = Append(wire_in, m)
Booked(m) == \A j \in DOMAIN ex :
    /\ j \in DOMAIN ex' /\ ex'[j].token = ex[j].token /\ ex'[j].urn = ex[j].urn
    /\ ex'[j].filled = ex[j].filled + Weight(m, j, {"Executed"})
    /\ ex'[j].leaves = ex[j].leaves - Weight(m, j, {"Executed", "Cancelled"}) /\ ex'[j].leaves >= 0
Opened(m) == \A j \in DOMAIN ex' : j \notin DOMAIN ex =>
    /\ m.type = "Accepted" /\ m.id = j /\ ex'[j].token \notin Taken
    /\ ex'[j].filled \in Nat /\ ex'[j].leaves \in 0..QtyMod - 1
    /\ wire_out # <<>> /\ wire_out' = Tail(wire_out)
    /\ wire_out[1].type = "Enter" /\ ex'[j].urn = wire_out[1].ref
Told(m) == m.id # 0 => /\ m.filled = ex'[m.id].filled
                       /\ m.leaves - (IF m.type = "Cancelled" THEN m.qty ELSE 0) = ex'[m.id].leaves
Taking == wire_out' = wire_out \/ (wire_out # <<>> /\ wire_out' = Tail(wire_out))

\* The exchange takes a request, or none.
LEMMA RequestTaken ==
  ASSUME IInv, Ledger, Taking
  PROVE  /\ \A k \in DOMAIN wire_out' : \E l \in DOMAIN wire_out : wire_out'[k] = wire_out[l]
         /\ flow = "NASDAQ" => \A k, l \in DOMAIN wire_out' :
               wire_out'[k].type = "Enter" /\ wire_out'[l].type = "Enter" /\ wire_out'[k].ref = wire_out'[l].ref => k = l
         /\ flow = "NASDAQ" /\ wire_out # <<>> /\ wire_out' = Tail(wire_out) /\ wire_out[1].type = "Enter" =>
               /\ 1 \in DOMAIN wire_out
               /\ \A k \in DOMAIN wire_out' : wire_out'[k].type = "Enter" => wire_out'[k].ref # wire_out[1].ref
<1>0. wire_out \in Seq(Requests) /\ NameInv
    BY DEF IInv, TypeInv, Ledger
<1>1. CASE wire_out' = wire_out /\ ~(wire_out # <<>> /\ wire_out' = Tail(wire_out))
    BY <1>0, <1>1 DEF NameInv
<1>2. CASE wire_out # <<>> /\ wire_out' = Tail(wire_out)
  <2>1. /\ DOMAIN wire_out' = 1..Len(wire_out) - 1 /\ Len(wire_out) \in Nat /\ Len(wire_out) > 0
        /\ DOMAIN wire_out = 1..Len(wire_out)
        /\ \A i \in DOMAIN wire_out' : i + 1 \in DOMAIN wire_out /\ wire_out'[i] = wire_out[i + 1]
      BY <1>0, <1>2, TailFacts
  <2>2. /\ 1 \in DOMAIN wire_out /\ \A i, j \in DOMAIN wire_out' : i + 1 = j + 1 => i = j
        /\ \A i \in DOMAIN wire_out' : i + 1 # 1
      BY <2>1
  <2> QED BY <2>1, <2>2, <1>0 DEF NameInv
<1> QED BY <1>1, <1>2 DEF Taking

\* A report and what is behind it, after one report more.
LEMMA Shifted ==
  ASSUME NEW f \in Int, NEW b \in Int, NEW w \in Int, NEW t \in Int, NEW e \in Int
  PROVE  /\ \A b2, t2 : f + b = t /\ b2 = b + w /\ t2 = t + w => f + b2 = t2
         /\ \A b2, e2 : f = e + b /\ b2 = b + w /\ e2 = e - w => f = e2 + b2
OBVIOUS

LEMMA ExchangeLedger ==
  ASSUME IInv, IInv', Ledger, UNCHANGED <<flow, order_pool_, user_ref_num, our_orders_, pending_to_strategy_, missed>>,
         Taking, NEW m \in Messages, Spoken(m), Sized(m), Booked(m), Opened(m), Told(m),
         m.type = "Accepted" => m.id \notin DOMAIN ex,
         m.type = "CancelReject" => m.id \in DOMAIN our_orders_
  PROVE  Ledger'
<1>0. TypeInv /\ MessageInv /\ SlotInv /\ MapInv /\ SizeInv /\ NameInv /\ FirstInv /\ RegInv /\ CancelInv /\ AheadInv
      /\ ParkInv /\ BalanceInv /\ TypeInv' /\ MessageInv'
    BY DEF IInv, Ledger
<1>1. /\ flow' = flow /\ order_pool_' = order_pool_ /\ user_ref_num' = user_ref_num /\ our_orders_' = our_orders_
      /\ pending_to_strategy_' = pending_to_strategy_ /\ missed' = missed
    OBVIOUS
<1>2. \A s : Token(s)' = Token(s) /\ Id(s)' = Id(s)
    BY <1>1 DEF Token, Id
<1> DEFINE n == Len(wire_in) + 1
<1>3. /\ n \in DOMAIN wire_in' /\ wire_in'[n] = m /\ n \notin DOMAIN wire_in
      /\ \A k \in DOMAIN wire_in : k \in DOMAIN wire_in' /\ wire_in'[k] = wire_in[k] /\ k <= n /\ k \in 0..Len(wire_in)
      /\ \A k \in DOMAIN wire_in' : k = n \/ k \in DOMAIN wire_in
  <2>1. wire_in \in Seq(Messages)
      BY <1>0 DEF TypeInv
  <2>2. /\ Len(wire_in) \in Nat /\ DOMAIN wire_in = 1..Len(wire_in)
        /\ DOMAIN wire_in' = 1..Len(wire_in) + 1
        /\ wire_in'[Len(wire_in) + 1] = m /\ \A i \in DOMAIN wire_in : wire_in'[i] = wire_in[i]
      BY <2>1, AppendFacts DEF Spoken
  <2> QED BY <2>2
<1>4. /\ \A k \in DOMAIN wire_out' : \E l \in DOMAIN wire_out : wire_out'[k] = wire_out[l]
      /\ flow = "NASDAQ" => \A k, l \in DOMAIN wire_out' :
            wire_out'[k].type = "Enter" /\ wire_out'[l].type = "Enter" /\ wire_out'[k].ref = wire_out'[l].ref => k = l
      /\ flow = "NASDAQ" /\ wire_out # <<>> /\ wire_out' = Tail(wire_out) /\ wire_out[1].type = "Enter" =>
            /\ 1 \in DOMAIN wire_out
            /\ \A k \in DOMAIN wire_out' : wire_out'[k].type = "Enter" => wire_out'[k].ref # wire_out[1].ref
    BY RequestTaken
<1>5. wire_in \in Seq(Counted) /\ Parked \in Seq(Counted) /\ Parked' = Parked /\ DOMAIN wire_in = 1..Len(wire_in)
      /\ Len(wire_in) \in Nat
    BY <1>0, <1>1, CountedWires DEF Parked
<1>6. m \in Counted /\ m.qty \in Nat
  <2>1. QtyMod \in Nat \ {0} /\ m.qty \in 0..QtyMod - 1
      BY Consts DEF Sized
  <2>2. m.qty \in Nat
      BY <2>1
  <2> QED BY <2>2 DEF Counted
<1>7. \A i, T : Weight(m, i, T) \in Nat
    BY <1>6 DEF Weight
<1>8. ASSUME NEW i, NEW T
      PROVE  /\ \A k \in 0..Len(wire_in) : Behind(wire_in', k, i, T) = Behind(wire_in, k, i, T) + Weight(m, i, T)
             /\ Behind(wire_in', n, i, T) = 0 /\ Behind(wire_in, 0, i, T) \in Nat /\ Behind(Parked, 0, i, T) \in Nat
             /\ \A k \in Nat : Behind(wire_in, k, i, T) \in Nat /\ Behind(Parked, k, i, T) \in Nat
  <2>1. /\ \A k \in 0..Len(wire_in) : Behind(Append(wire_in, m), k, i, T) = Behind(wire_in, k, i, T) + Weight(m, i, T)
        /\ Behind(Append(wire_in, m), Len(wire_in) + 1, i, T) = 0
      BY <1>5, <1>6, BehindAppend
  <2>2. \A k \in Nat : Behind(wire_in, k, i, T) \in Nat /\ Behind(Parked, k, i, T) \in Nat
      BY <1>5, BehindNat
  <2> QED BY <2>1, <2>2 DEF Spoken, n
<1>9. /\ ex \in Seq(Book) /\ \A i \in DOMAIN ex : i # 0 /\ ex[i].token \in Taken /\ ex[i].filled \in Nat /\ ex[i].leaves \in 0..QtyMod - 1
      /\ 0 \notin DOMAIN ex' /\ \A i \in DOMAIN ex : ex[i].urn \in Nat
  <2>1. ex \in Seq(Book) /\ ex' \in Seq(Book)
      BY <1>0 DEF TypeInv, Book
  <2>2. \A i \in DOMAIN ex : ex[i] \in Book /\ i # 0
      BY <2>1
  <2>3. 0 \notin DOMAIN ex'
      BY <2>1
  <2>4. \A i \in DOMAIN ex : ex[i].urn \in Nat
      BY <2>2 DEF Book
  <2> QED BY <2>1, <2>2, <2>3, <2>4, <1>0 DEF SizeInv, Taken
<1> HIDE DEF n
<1>10. Fits(m)'
    BY <1>0, <1>3 DEF MessageInv, Fits
<1>11. \A k \in DOMAIN wire_in : wire_in[k].id # 0 => wire_in[k].id \in DOMAIN ex /\ wire_in[k].token = ex[wire_in[k].id].token
    BY <1>0 DEF MessageInv, Fits
<1>12. \A k \in DOMAIN pending_to_strategy_ : pending_to_strategy_[k].msg.id \in DOMAIN ex
    BY <1>0 DEF MessageInv, Fits
<1>13. SizeInv'
  <2>1. \A k \in DOMAIN wire_out' : wire_out'[k].qty \in 0..QtyMod - 1
      BY <1>0, <1>4 DEF SizeInv
  <2>2. \A i \in DOMAIN ex' : ex'[i].filled \in Nat /\ ex'[i].leaves \in 0..QtyMod - 1
    <3> SUFFICES ASSUME NEW i \in DOMAIN ex' PROVE ex'[i].filled \in Nat /\ ex'[i].leaves \in 0..QtyMod - 1
        OBVIOUS
    <3>1. CASE i \in DOMAIN ex
      <4>1. /\ ex'[i].filled = ex[i].filled + Weight(m, i, {"Executed"}) /\ ex'[i].leaves >= 0
            /\ ex'[i].leaves = ex[i].leaves - Weight(m, i, {"Executed", "Cancelled"})
            /\ ex[i].filled \in Nat /\ ex[i].leaves \in 0..QtyMod - 1
          BY <3>1, <1>9 DEF Booked
      <4> QED BY <4>1, <1>7, Consts
    <3> QED BY <3>1 DEF Opened
  <2>3. \A k \in DOMAIN wire_in' : Sized(wire_in[k])'
    <3>1. Sized(m)' /\ \A k \in DOMAIN wire_in : Sized(wire_in[k])'
        BY <1>0, <1>1, <1>3 DEF SizeInv, Sized
    <3> QED BY <3>1, <1>3 DEF Sized
  <2> QED BY <2>1, <2>2, <2>3, <1>0, <1>1 DEF SizeInv, Sized
<1>14. NameInv'
  <2>1. \A i, j \in DOMAIN ex' : ex'[i].token = ex'[j].token => i = j
      BY <1>0, <1>9 DEF NameInv, Booked, Opened
  <2>2. ASSUME flow = "NASDAQ"
        PROVE  /\ \A k \in DOMAIN wire_out' : wire_out'[k].type = "Enter" => wire_out'[k].ref < user_ref_num
               /\ \A i \in DOMAIN ex' : ex'[i].urn < user_ref_num
               /\ \A i, j \in DOMAIN ex' : ex'[i].urn = ex'[j].urn => i = j
               /\ \A k \in DOMAIN wire_out', i \in DOMAIN ex' : wire_out'[k].type = "Enter" => wire_out'[k].ref # ex'[i].urn
    <3>1. /\ \A k \in DOMAIN wire_out : wire_out[k].type = "Enter" => wire_out[k].ref < user_ref_num
          /\ \A i \in DOMAIN ex : ex[i].urn < user_ref_num
          /\ \A i, j \in DOMAIN ex : ex[i].urn = ex[j].urn => i = j
          /\ \A k \in DOMAIN wire_out, i \in DOMAIN ex : wire_out[k].type = "Enter" => wire_out[k].ref # ex[i].urn
        BY <2>2, <1>0 DEF NameInv
    <3>2. \A k \in DOMAIN wire_out' : wire_out'[k].type = "Enter" => wire_out'[k].ref < user_ref_num
        BY <3>1, <1>4
    <3>3. \A i \in DOMAIN ex' : i \notin DOMAIN ex =>
            /\ i = m.id /\ ex'[i].urn < user_ref_num
            /\ \A j \in DOMAIN ex : ex[j].urn # ex'[i].urn
            /\ \A k \in DOMAIN wire_out' : wire_out'[k].type = "Enter" => wire_out'[k].ref # ex'[i].urn
        BY <3>1, <2>2, <1>4 DEF Opened
    <3>4. \A i \in DOMAIN ex' : ex'[i].urn < user_ref_num
        BY <3>1, <3>3 DEF Booked
    <3>5. \A i, j \in DOMAIN ex' : ex'[i].urn = ex'[j].urn => i = j
        BY <3>1, <3>3 DEF Booked
    <3>6. \A k \in DOMAIN wire_out', i \in DOMAIN ex' : wire_out'[k].type = "Enter" => wire_out'[k].ref # ex'[i].urn
      <4>1. \A k \in DOMAIN wire_out', i \in DOMAIN ex : wire_out'[k].type = "Enter" => wire_out'[k].ref # ex[i].urn
          BY <3>1, <1>4
      <4> QED BY <4>1, <3>3 DEF Booked
    <3> QED BY <3>2, <3>4, <3>5, <3>6
  <2> QED BY <2>1, <2>2, <1>1, <1>4 DEF NameInv
<1>15. FirstInv'
  <2>1. \A s \in Slots : Token(s)' \notin Taken' => order_pool_'[s].filled_quantity = 0
    <3>1. Taken \subseteq Taken'
        BY DEF Taken, Booked
    <3> QED BY <3>1, <1>0, <1>1, <1>2 DEF FirstInv
  <2>2. ASSUME NEW k \in DOMAIN wire_in', wire_in'[k].type = "Accepted"
        PROVE  /\ wire_in'[k].id \notin DOMAIN our_orders_
               /\ \A j \in DOMAIN wire_in' : wire_in'[j].id = wire_in'[k].id => j >= k
               /\ \A j \in DOMAIN pending_to_strategy_ : pending_to_strategy_[j].msg.id # wire_in'[k].id
               /\ \A s \in Slots : Token(s) = wire_in'[k].token => order_pool_[s].filled_quantity = 0
    <3>1. CASE k \in DOMAIN wire_in
      <4>1. /\ wire_in[k].id \notin DOMAIN our_orders_
            /\ \A j \in DOMAIN wire_in : wire_in[j].id = wire_in[k].id => j >= k
            /\ \A j \in DOMAIN pending_to_strategy_ : pending_to_strategy_[j].msg.id # wire_in[k].id
            /\ \A s \in Slots : Token(s) = wire_in[k].token => order_pool_[s].filled_quantity = 0
          BY <3>1, <2>2, <1>0, <1>3 DEF FirstInv
      <4>2. wire_in'[k] = wire_in[k] /\ k <= n /\ k \in Nat /\ n \in Nat
          BY <3>1, <1>3, <1>5 DEF n
      <4>3. \A j \in DOMAIN wire_in' : wire_in'[j].id = wire_in'[k].id => j >= k
          BY <4>1, <4>2, <1>3
      <4> QED BY <4>1, <4>2, <4>3
    <3>2. CASE k = n
      <4>1. wire_in'[k] = m /\ m.type = "Accepted" /\ m.id \notin DOMAIN ex
          BY <3>2, <2>2, <1>3
      <4>2. m.id # 0 /\ m.id \in DOMAIN ex' /\ m.token = ex'[m.id].token
          BY <4>1, <1>10 DEF Fits
      <4>3. m.id \notin DOMAIN our_orders_
          BY <4>1, <1>0 DEF MapInv
      <4>4. \A j \in DOMAIN wire_in : wire_in[j].id # m.id
          BY <4>1, <4>2, <1>11
      <4>5. m.token \notin Taken
          BY <4>1, <4>2 DEF Opened
      <4>6. \A j \in DOMAIN wire_in' : wire_in'[j].id = m.id => j = n
          BY <4>4, <1>3
      <4>7. n >= n
          BY <1>5 DEF n
      <4> QED BY <4>1, <4>3, <4>5, <4>6, <4>7, <3>2, <1>0, <1>12 DEF FirstInv
    <3> QED BY <3>1, <3>2, <1>3
  <2> QED BY <2>1, <2>2, <1>1, <1>2 DEF FirstInv
<1>16. RegInv'
  <2> SUFFICES ASSUME flow # "FIX", NEW i \in DOMAIN ex'
               PROVE  \/ i \in DOMAIN our_orders_ \/ ex'[i].token \in missed
                      \/ \E k \in DOMAIN wire_in' : wire_in'[k].type = "Accepted" /\ wire_in'[k].id = i
      BY <1>1 DEF RegInv
  <2>1. CASE i \in DOMAIN ex
      BY <2>1, <1>0, <1>3 DEF RegInv, Booked
  <2>2. CASE i \notin DOMAIN ex
      BY <2>2, <1>3 DEF Opened
  <2> QED BY <2>1, <2>2
<1>17. CancelInv'
  <2> SUFFICES ASSUME flow = "FIX" PROVE CancelInv'
      BY <1>1 DEF CancelInv
  <2>1. \A i \in DOMAIN our_orders_ : ex'[i].token = ex[i].token
      BY <1>0 DEF MapInv, Booked
  <2>2. \A k \in DOMAIN wire_in' : wire_in'[k].type = "CancelReject" => wire_in'[k].id \in DOMAIN our_orders_
      BY <1>0, <1>3 DEF CancelInv
  <2>3. \A k \in DOMAIN wire_out' : wire_out'[k].type = "Cancel" => \E i \in DOMAIN our_orders_ : ex'[i].token = wire_out'[k].ref
      BY <2>1, <1>0, <1>4 DEF CancelInv
  <2>4. \A s \in Slots : Id(s)' # 0 => \E i \in DOMAIN our_orders_ : ex'[i].token = Token(s)'
      BY <2>1, <1>0, <1>2 DEF CancelInv
  <2> QED BY <2>2, <2>3, <2>4, <1>1 DEF CancelInv
<1>18. AheadInv'
  <2> SUFFICES ASSUME NEW k \in DOMAIN wire_in', wire_in'[k].id # 0
               PROVE  /\ wire_in'[k].filled + Behind(wire_in', k, wire_in'[k].id, {"Executed"}) = ex'[wire_in'[k].id].filled
                      /\ wire_in'[k].leaves - (IF wire_in'[k].type = "Cancelled" THEN wire_in'[k].qty ELSE 0)
                           = ex'[wire_in'[k].id].leaves + Behind(wire_in', k, wire_in'[k].id, {"Executed", "Cancelled"})
      BY DEF AheadInv
  <2>1. CASE k \in DOMAIN wire_in
    <3>1. wire_in'[k] = wire_in[k] /\ wire_in[k].id # 0 /\ k \in 0..Len(wire_in) /\ k \in Nat
        BY <2>1, <1>3, <1>5
    <3>2. PICK x \in DOMAIN ex : x = wire_in[k].id
        BY <3>1, <2>1, <1>11
    <3> DEFINE E == {"Executed"}
               C == {"Executed", "Cancelled"}
               c == IF wire_in[k].type = "Cancelled" THEN wire_in[k].qty ELSE 0
               l == wire_in[k].leaves - c
    <3>3. wire_in[k].filled + Behind(wire_in, k, x, E) = ex[x].filled /\ l = ex[x].leaves + Behind(wire_in, k, x, C)
        BY <3>1, <3>2, <2>1, <1>0 DEF AheadInv
    <3>4. ex'[x].filled = ex[x].filled + Weight(m, x, E) /\ ex'[x].leaves = ex[x].leaves - Weight(m, x, C)
        BY <3>2 DEF Booked
    <3>5. wire_in[k].filled \in Nat /\ wire_in[k].leaves \in Int /\ c \in Int
      <4>1. Sized(wire_in[k]) /\ QtyMod \in Nat
          BY <2>1, <1>0, Consts DEF SizeInv
      <4> QED BY <4>1 DEF Sized
    <3>6. l \in Int
        BY <3>5
    <3>7. l = wire_in'[k].leaves - (IF wire_in'[k].type = "Cancelled" THEN wire_in'[k].qty ELSE 0)
        BY <3>1
    <3> HIDE DEF l, c, E, C
    <3>8. /\ Behind(wire_in', k, x, E) = Behind(wire_in, k, x, E) + Weight(m, x, E)
          /\ Behind(wire_in', k, x, C) = Behind(wire_in, k, x, C) + Weight(m, x, C)
          /\ Behind(wire_in, k, x, E) \in Nat /\ Behind(wire_in, k, x, C) \in Nat
      <4>1. \A T : /\ Behind(wire_in', k, x, T) = Behind(wire_in, k, x, T) + Weight(m, x, T)
                   /\ Behind(wire_in, k, x, T) \in Nat
          BY <3>1, <1>8
      <4> QED BY <4>1
    <3>9. Weight(m, x, E) \in Nat /\ Weight(m, x, C) \in Nat /\ ex[x].filled \in Nat /\ ex[x].leaves \in Int
        BY <3>2, <1>7, <1>9, Consts
    <3>10. wire_in[k].filled + Behind(wire_in', k, x, E) = ex'[x].filled /\ l = ex'[x].leaves + Behind(wire_in', k, x, C)
      <4>1. /\ wire_in[k].filled \in Int /\ Behind(wire_in, k, x, E) \in Int /\ Behind(wire_in, k, x, C) \in Int
            /\ Weight(m, x, E) \in Int /\ Weight(m, x, C) \in Int /\ ex[x].filled \in Int
          BY <3>5, <3>8, <3>9
      <4> QED BY <4>1, <3>3, <3>4, <3>6, <3>8, <3>9, Shifted
    <3> QED BY <3>1, <3>2, <3>7, <3>10 DEF E, C
  <2>2. CASE k = n
    <3>1. wire_in'[k] = m /\ m.id # 0
        BY <2>2, <1>3
    <3>2. Behind(wire_in', k, m.id, {"Executed"}) = 0 /\ Behind(wire_in', k, m.id, {"Executed", "Cancelled"}) = 0
        BY <2>2, <1>8
    <3>3. m.id \in DOMAIN ex'
        BY <3>1, <1>10 DEF Fits
    <3>4. ex'[m.id].filled \in Nat /\ ex'[m.id].leaves \in 0..QtyMod - 1 /\ QtyMod \in Nat
        BY <3>3, <1>13, Consts DEF SizeInv
    <3>5. ex'[m.id].filled + 0 = ex'[m.id].filled /\ ex'[m.id].leaves + 0 = ex'[m.id].leaves
        BY <3>4
    <3> QED BY <3>1, <3>2, <3>5 DEF Told
  <2> QED BY <2>1, <2>2, <1>3
<1>19. ASSUME NEW x \in DOMAIN ex, NEW T, NEW p \in Nat
       PROVE  /\ ex'[x].leaves = ex[x].leaves - Weight(m, x, {"Executed", "Cancelled"})
              /\ Behind(wire_in', 0, x, T) = Behind(wire_in, 0, x, T) + Weight(m, x, T)
              /\ Behind(wire_in, 0, x, T) \in Nat /\ Behind(Parked, p, x, T) \in Nat /\ Weight(m, x, T) \in Nat
              /\ ex[x].leaves \in Nat /\ ex[x].filled \in Nat
  <2>1. 0 \in 0..Len(wire_in)
      BY <1>5
  <2>2. ex[x].leaves \in Nat
      BY <1>9, Consts
  <2>3. /\ Behind(wire_in', 0, x, T) = Behind(wire_in, 0, x, T) + Weight(m, x, T)
        /\ Behind(wire_in, 0, x, T) \in Nat /\ Behind(Parked, p, x, T) \in Nat
      BY <2>1, <1>8
  <2>4. ex'[x].leaves = ex[x].leaves - Weight(m, x, {"Executed", "Cancelled"}) /\ Weight(m, x, T) \in Nat /\ ex[x].filled \in Nat
      BY <1>7, <1>9 DEF Booked
  <2> QED BY <2>2, <2>3, <2>4
<1>20. ParkInv'
  <2> DEFINE C == {"Executed", "Cancelled"}
  <2> SUFFICES ASSUME NEW k \in DOMAIN pending_to_strategy_, pending_to_strategy_[k].msg.type = "Cancelled"
               PROVE  LET x == pending_to_strategy_[k].msg.id
                      IN ex'[x].leaves + Behind(Parked, k, x, C) + Behind(wire_in', 0, x, C) = 0
    <3>1. \A k \in DOMAIN pending_to_strategy_ : pending_to_strategy_[k].msg.type = "Cancelled" =>
            LET x == pending_to_strategy_[k].msg.id
            IN ex'[x].leaves + Behind(Parked, k, x, C) + Behind(wire_in', 0, x, C) = 0
        OBVIOUS
    <3> QED BY <3>1, <1>0, <1>1, <1>2, <1>5 DEF ParkInv, Token
  <2>1. PICK x \in DOMAIN ex : x = pending_to_strategy_[k].msg.id
      BY <1>12
  <2>2. ex[x].leaves + Behind(Parked, k, x, C) + Behind(wire_in, 0, x, C) = 0
      BY <2>1, <1>0 DEF ParkInv
  <2>3. k \in Nat
    <3>1. pending_to_strategy_ \in Seq(Pending)
        BY <1>0 DEF TypeInv, Pending
    <3> QED BY <3>1
  <2>4. /\ ex'[x].leaves = ex[x].leaves - Weight(m, x, C)
        /\ Behind(wire_in', 0, x, C) = Behind(wire_in, 0, x, C) + Weight(m, x, C)
        /\ Behind(wire_in, 0, x, C) \in Nat /\ Behind(Parked, k, x, C) \in Nat /\ Weight(m, x, C) \in Nat
        /\ ex[x].leaves \in Nat
      BY <2>3, <1>19
  <2> HIDE DEF C
  <2>5. ex'[x].leaves + Behind(Parked, k, x, C) + Behind(wire_in', 0, x, C) = 0
      BY <2>2, <2>4
  <2> QED BY <2>1, <2>5
<1>21. BalanceInv'
  <2> DEFINE E == {"Executed"}
             C == {"Executed", "Cancelled"}
  <2> SUFFICES ASSUME NEW x \in DOMAIN our_orders_, flow = "FIX" \/ ex'[x].token \notin missed
               PROVE  /\ order_pool_[our_orders_[x]].filled_quantity + Transit(x, E)' = ex'[x].filled
                      /\ order_pool_[our_orders_[x]].remaining_quantity = ex'[x].leaves + Transit(x, C)'
                      /\ order_pool_[our_orders_[x]].remaining_quantity < QtyMod
      BY <1>1 DEF BalanceInv
  <2>1. x \in DOMAIN ex /\ our_orders_[x] \in Slots
      BY <1>0 DEF MapInv
  <2>2. PICK o \in Orders : o = order_pool_[our_orders_[x]]
      BY <2>1, <1>0 DEF TypeInv
  <2>3. o.filled_quantity \in Int /\ o.remaining_quantity \in Int
      BY DEF Orders
  <2>4. /\ o.filled_quantity + Transit(x, E) = ex[x].filled
        /\ o.remaining_quantity = ex[x].leaves + Transit(x, C) /\ o.remaining_quantity < QtyMod
    <3>1. flow = "FIX" \/ ex[x].token \notin missed
        BY <2>1 DEF Booked
    <3> QED BY <3>1, <2>2, <1>0 DEF BalanceInv
  <2>5. /\ ex'[x].filled = ex[x].filled + Weight(m, x, E) /\ ex'[x].leaves = ex[x].leaves - Weight(m, x, C)
      BY <2>1 DEF Booked
  <2>6. PICK z \in Nat : z = 0
      OBVIOUS
  <2>7. \A T : /\ Behind(wire_in', z, x, T) = Behind(wire_in, z, x, T) + Weight(m, x, T)
               /\ Behind(wire_in, z, x, T) \in Nat /\ Behind(Parked, z, x, T) \in Nat /\ Weight(m, x, T) \in Nat
      BY <2>1, <2>6, <1>19
  <2>8. ex[x].leaves \in Nat /\ ex[x].filled \in Nat
      BY <2>1, <2>6, <1>19
  <2> HIDE DEF E, C
  <2>9. o.filled_quantity + Transit(x, E)' = ex'[x].filled /\ o.remaining_quantity = ex'[x].leaves + Transit(x, C)'
    <3>1. \A T : Transit(x, T) = Behind(wire_in, z, x, T) + Behind(Parked, z, x, T)
        BY <2>6 DEF Transit
    <3>2. \A T : Transit(x, T)' = Behind(wire_in', z, x, T) + Behind(Parked, z, x, T)
        BY <2>6, <1>5 DEF Transit
    <3>3. ASSUME NEW T PROVE Transit(x, T) \in Int /\ Weight(m, x, T) \in Int /\ Transit(x, T)' = Transit(x, T) + Weight(m, x, T)
      <4>1. PICK u \in Nat, v \in Nat, w \in Nat :
               u = Behind(wire_in, z, x, T) /\ v = Behind(Parked, z, x, T) /\ w = Weight(m, x, T)
          BY <2>7
      <4>2. Transit(x, T) = u + v /\ Transit(x, T)' = (u + w) + v
          BY <4>1, <3>1, <3>2, <2>7
      <4> QED BY <4>1, <4>2
    <3>4. ex[x].leaves \in Int /\ ex[x].filled \in Int
        BY <2>8
    <3> QED BY <3>3, <3>4, <2>3, <2>4, <2>5, Shifted
  <2> QED BY <2>2, <2>4, <2>9
<1> QED BY <1>13, <1>14, <1>15, <1>16, <1>17, <1>18, <1>20, <1>21 DEF Ledger

LEMMA RequestDropped ==
  ASSUME IInv, Ledger, Taking,
         UNCHANGED <<flow, order_pool_, user_ref_num, our_orders_, pending_to_strategy_, missed, wire_in, ex>>
  PROVE  Ledger'
<1>0. SizeInv /\ NameInv /\ FirstInv /\ RegInv /\ CancelInv /\ AheadInv /\ ParkInv /\ BalanceInv
    BY DEF Ledger
<1>1. /\ flow' = flow /\ order_pool_' = order_pool_ /\ user_ref_num' = user_ref_num /\ our_orders_' = our_orders_
      /\ pending_to_strategy_' = pending_to_strategy_ /\ missed' = missed /\ wire_in' = wire_in /\ ex' = ex
    OBVIOUS
<1>2. /\ \A k \in DOMAIN wire_out' : \E l \in DOMAIN wire_out : wire_out'[k] = wire_out[l]
      /\ flow = "NASDAQ" => \A k, l \in DOMAIN wire_out' :
            wire_out'[k].type = "Enter" /\ wire_out'[l].type = "Enter" /\ wire_out'[k].ref = wire_out'[l].ref => k = l
    BY RequestTaken
<1>3. SizeInv' /\ CancelInv'
    BY <1>0, <1>1, <1>2 DEF SizeInv, Sized, CancelInv, Id, Token
<1>4. NameInv'
    BY <1>0, <1>1, <1>2 DEF NameInv
<1>5. FirstInv' /\ RegInv'
    BY <1>0, <1>1 DEF FirstInv, RegInv, Token, Taken
<1>6. Parked' = Parked
    BY <1>1 DEF Parked
<1>7. AheadInv' /\ ParkInv'
    BY <1>0, <1>1, <1>6 DEF AheadInv, ParkInv, Token
<1>8. BalanceInv'
    BY <1>0, <1>1, <1>6 DEF BalanceInv, Transit
<1> QED BY <1>3, <1>4, <1>5, <1>7, <1>8 DEF Ledger

\* A report that leaves the orders of the exchange alone, but for one.
LEMMA ReportLedger ==
  ASSUME IInv, IInv', Ledger, UNCHANGED <<flow, order_pool_, user_ref_num, our_orders_, pending_to_strategy_, missed>>,
         Taking, NEW i \in DOMAIN ex, NEW b \in Book, ex' = [ex EXCEPT ![i] = b], b.token = ex[i].token, b.urn = ex[i].urn,
         NEW m \in Messages, Spoken(m), Sized(m), m.id = i, m.type # "Accepted", m.filled = b.filled,
         m.leaves - (IF m.type = "Cancelled" THEN m.qty ELSE 0) = b.leaves, b.leaves >= 0,
         b.filled = ex[i].filled + Weight(m, i, {"Executed"}),
         b.leaves = ex[i].leaves - Weight(m, i, {"Executed", "Cancelled"}),
         m.type = "CancelReject" => m.id \in DOMAIN our_orders_
  PROVE  Ledger'
<1>1. /\ ex \in Seq(Book) /\ DOMAIN ex = 1..Len(ex)
      /\ \A j \in DOMAIN ex : ex[j].filled \in Int /\ ex[j].leaves \in Int /\ ex[j].leaves >= 0
  <2>1. ex \in Seq(Book) /\ TypeInv
      BY DEF IInv, TypeInv, Book
  <2>2. DOMAIN ex = 1..Len(ex)
      BY <2>1
  <2>3. \A j \in DOMAIN ex : ex[j].leaves \in 0..QtyMod - 1
      BY DEF Ledger, SizeInv
  <2> QED BY <2>1, <2>2, <2>3, BookEntry, Consts
<1>2. DOMAIN ex' = DOMAIN ex /\ \A j \in DOMAIN ex : ex'[j] = IF j = i THEN b ELSE ex[j]
    BY <1>1
<1>3. \A j, T : j # i => Weight(m, j, T) = 0
    BY DEF Weight
<1>4. Booked(m)
  <2> SUFFICES ASSUME NEW j \in DOMAIN ex
               PROVE  /\ j \in DOMAIN ex' /\ ex'[j].token = ex[j].token /\ ex'[j].urn = ex[j].urn
                      /\ ex'[j].filled = ex[j].filled + Weight(m, j, {"Executed"})
                      /\ ex'[j].leaves = ex[j].leaves - Weight(m, j, {"Executed", "Cancelled"}) /\ ex'[j].leaves >= 0
      BY DEF Booked
  <2>1. CASE j = i
      BY <2>1, <1>2
  <2>2. CASE j # i
    <3>1. ex'[j] = ex[j] /\ Weight(m, j, {"Executed"}) = 0 /\ Weight(m, j, {"Executed", "Cancelled"}) = 0
        BY <2>2, <1>2, <1>3
    <3> QED BY <3>1, <1>1, <1>2
  <2> QED BY <2>1, <2>2
<1>5. Opened(m)
    BY <1>2 DEF Opened
<1>6. Told(m)
    BY <1>2 DEF Told
<1> QED BY <1>4, <1>5, <1>6, ExchangeLedger

LEMMA TakeBackLedger ==
  ASSUME IInv, IInv', Ledger, NEW i \in 1..Len(ex), NEW q \in 1..ex[i].leaves, flow # "NASDAQ" => q = ex[i].leaves,
         TakeBack(i, q), Taking
  PROVE  Ledger'
<1> DEFINE l == ex[i].leaves - q
           b == [ex[i] EXCEPT !.leaves = l]
           m == Answer("Cancelled", i, q)
<1>1. TypeInv
    BY DEF IInv
<1>2. ex[i] \in Book /\ ex \in Seq(Book) /\ i \in Nat /\ i # 0 /\ i \in DOMAIN ex
    BY <1>1, BookEntry
<1>3. ex[i].leaves \in 0..QtyMod - 1 /\ ex[i].filled \in Nat /\ QtyMod \in Nat
    BY <1>2, Consts DEF Ledger, SizeInv
<1>4. l \in Int /\ q \in Int /\ l >= 0 /\ q \in 0..QtyMod - 1 /\ q <= ex[i].leaves
    BY <1>3
<1>5. b \in Book /\ b.token = ex[i].token /\ b.urn = ex[i].urn /\ b.filled = ex[i].filled /\ b.leaves = l
  <2> HIDE DEF l
  <2> QED BY <1>4, <1>2 DEF Book
<1>6. ex' = [ex EXCEPT ![i] = b] /\ wire_in' = Append(wire_in, m)
    BY DEF TakeBack, Says
<1>7. UNCHANGED <<flow, order_pool_, user_ref_num, our_orders_, pending_to_strategy_, missed>>
    BY DEF TakeBack, Says, builder, maps
<1>8. m \in Messages /\ m.id = i /\ m.type = "Cancelled"
    BY <1>1, <1>4, AnswerFits
<1>9. m.qty = q /\ m.filled = ex[i].filled /\ m.leaves = ex[i].leaves
    BY DEF Answer, Said
<1> HIDE DEF b, m
<1>10. PICK x \in Messages : x = m
    BY <1>8
<1>11. Sized(x)
    BY <1>3, <1>4, <1>8, <1>9, <1>10 DEF Sized
<1>12. Weight(x, i, {"Executed"}) = 0 /\ Weight(x, i, {"Executed", "Cancelled"}) = q
    BY <1>8, <1>9, <1>10 DEF Weight
<1>13. b.filled = ex[i].filled + Weight(x, i, {"Executed"}) /\ b.leaves = ex[i].leaves - Weight(x, i, {"Executed", "Cancelled"})
      /\ x.leaves - (IF x.type = "Cancelled" THEN x.qty ELSE 0) = b.leaves /\ x.filled = b.filled /\ b.leaves >= 0
    BY <1>3, <1>4, <1>5, <1>8, <1>9, <1>10, <1>12
<1>14. Spoken(x) /\ x.id = i /\ x.type # "Accepted" /\ x.type # "CancelReject"
    BY <1>6, <1>8, <1>10 DEF Spoken
<1> QED BY <1>2, <1>5, <1>6, <1>7, <1>11, <1>13, <1>14, ReportLedger

LEMMA TradesLedger == ASSUME IInv, IInv', Ledger, NEW i \in 1..Len(ex), ExchangeTrades(i) PROVE Ledger'
<1>1. TypeInv
    BY DEF IInv
<1>2. ex[i] \in Book /\ ex \in Seq(Book) /\ i \in Nat /\ i # 0 /\ i \in DOMAIN ex
    BY <1>1, BookEntry
<1>3. ex[i].leaves \in 0..QtyMod - 1 /\ ex[i].filled \in Nat /\ QtyMod \in Nat
    BY <1>2, Consts DEF Ledger, SizeInv
<1>4. PICK q \in 1..ex[i].leaves :
          /\ ex' = [ex EXCEPT ![i].filled = ex[i].filled + q, ![i].leaves = ex[i].leaves - q]
          /\ Says(Said("Executed", ex[i].token, ex[i].urn, i, q, ex[i].filled + q, ex[i].leaves - q))
          /\ UNCHANGED wire_out
    BY DEF ExchangeTrades
<1> DEFINE f == ex[i].filled + q
           l == ex[i].leaves - q
           b == [ex[i] EXCEPT !.filled = f, !.leaves = l]
           m == Said("Executed", ex[i].token, ex[i].urn, i, q, f, l)
<1>5. q \in Int /\ f \in Nat /\ l \in 0..QtyMod - 1 /\ l >= 0 /\ q \in 0..QtyMod - 1 /\ l \in Int
      /\ f = ex[i].filled + q /\ l = ex[i].leaves - q
    BY <1>3
<1>6. ex' = [ex EXCEPT ![i] = b]
    BY <1>2, <1>4
<1>7. wire_in' = Append(wire_in, m)
    BY <1>4 DEF Says
<1>8. UNCHANGED <<flow, order_pool_, user_ref_num, our_orders_, pending_to_strategy_, missed>>
    BY <1>4 DEF Says, builder, maps
<1> HIDE DEF f, l
<1>9. b \in Book /\ b.token = ex[i].token /\ b.urn = ex[i].urn /\ b.filled = f /\ b.leaves = l
  <2>1. f \in Int /\ l \in Int
      BY <1>5
  <2> QED BY <2>1, <1>2 DEF Book
<1>10. m \in Messages /\ m.id = i /\ m.type = "Executed" /\ m.qty = q /\ m.filled = f /\ m.leaves = l
    BY <1>2, <1>5 DEF Said, Messages, Book
<1> HIDE DEF b, m
<1>11. PICK x \in Messages : x = m
    BY <1>10
<1>12. Sized(x)
    BY <1>5, <1>10, <1>11 DEF Sized
<1>13. Weight(x, i, {"Executed"}) = q /\ Weight(x, i, {"Executed", "Cancelled"}) = q
    BY <1>10, <1>11 DEF Weight
<1>14. b.filled = ex[i].filled + Weight(x, i, {"Executed"}) /\ b.leaves = ex[i].leaves - Weight(x, i, {"Executed", "Cancelled"})
       /\ x.leaves - (IF x.type = "Cancelled" THEN x.qty ELSE 0) = b.leaves /\ x.filled = b.filled /\ b.leaves >= 0
    BY <1>5, <1>9, <1>10, <1>11, <1>13
<1>15. Spoken(x) /\ x.id = i /\ x.type # "Accepted" /\ x.type # "CancelReject" /\ Taking
    BY <1>4, <1>7, <1>10, <1>11 DEF Spoken, Taking
<1> QED BY <1>2, <1>6, <1>8, <1>9, <1>12, <1>14, <1>15, ReportLedger

LEMMA TakesBackLedger == ASSUME IInv, IInv', Ledger, NEW i \in 1..Len(ex), ExchangeTakesBack(i) PROVE Ledger'
<1>1. PICK q \in (IF flow = "NASDAQ" THEN 1..ex[i].leaves ELSE {ex[i].leaves}) : TakeBack(i, q)
    BY DEF ExchangeTakesBack
<1>2. ex[i].leaves > 0 /\ Taking
    BY DEF ExchangeTakesBack, Taking
<1>3. ex[i].leaves \in Int
    BY BookEntry DEF IInv
<1>4. q \in 1..ex[i].leaves /\ (flow # "NASDAQ" => q = ex[i].leaves)
    BY <1>1, <1>2, <1>3
<1> QED BY <1>1, <1>2, <1>4, TakeBackLedger

LEMMA ExchangeCancelsLedger == ASSUME IInv, IInv', Ledger, ExchangeCancels PROVE Ledger'
<1>0. TypeInv /\ MessageInv /\ CancelInv /\ NameInv /\ MapInv
    BY DEF IInv, Ledger
<1>1. ex \in Seq(Book) /\ wire_out \in Seq(Requests)
    BY <1>0 DEF TypeInv, Book
<1> DEFINE c == Head(wire_out)
           about == {i \in 1..Len(ex) : ExRef(i) = c.ref}
           refusal == IF flow = "FIX" THEN "CancelReject" ELSE "Rejected"
<1>2. wire_out # <<>> /\ c.type = "Cancel" /\ wire_out' = Tail(wire_out) /\ Taking
    BY DEF ExchangeCancels, Taking
<1>3. \/ \E i \in about : ex[i].leaves > 0 /\ TakeBack(i, ex[i].leaves)
      \/ /\ flow # "NASDAQ" /\ \E i \in about : Says(Answer(refusal, i, 0))
         /\ UNCHANGED ex
      \/ UNCHANGED <<flow, order_pool_, strategy, strategy_to_risk_, risk_to_builder_, store_to_risk_,
                     builder, ex, wire_in, awaitingAck_orders_, maps, pending_to_strategy_, crashed, missed>>
    BY DEF ExchangeCancels
<1>4. CASE \E i \in about : ex[i].leaves > 0 /\ TakeBack(i, ex[i].leaves)
  <2>1. PICK i \in 1..Len(ex) : ex[i].leaves > 0 /\ TakeBack(i, ex[i].leaves)
      BY <1>4
  <2>2. PICK q \in Int : q = ex[i].leaves
      BY <1>0, BookEntry
  <2>3. q \in 1..ex[i].leaves /\ (flow # "NASDAQ" => q = ex[i].leaves)
      BY <2>1, <2>2
  <2> QED BY <2>1, <2>2, <2>3, <1>2, TakeBackLedger
<1>5. CASE /\ flow # "NASDAQ" /\ \E i \in about : Says(Answer(refusal, i, 0))
           /\ UNCHANGED ex
  <2>1. PICK i \in 1..Len(ex) : ExRef(i) = c.ref /\ Says(Answer(refusal, i, 0))
      BY <1>5
  <2>2. refusal \in {"Cancelled", "Rejected", "CancelReject"} /\ (refusal = "CancelReject" <=> flow = "FIX")
        /\ (refusal = "Rejected" <=> flow # "FIX")
      OBVIOUS
  <2>3. /\ wire_in' = Append(wire_in, Answer(refusal, i, 0))
        /\ UNCHANGED <<flow, order_pool_, user_ref_num, our_orders_, pending_to_strategy_, missed>>
      BY <2>1 DEF Says, builder, maps
  <2>4. ex[i].token = c.ref
      BY <2>1, <1>5 DEF ExRef
  <2> HIDE DEF refusal
  <2> DEFINE m == Answer(refusal, i, 0)
  <2>5. m \in Messages /\ m.id = i /\ i # 0 /\ m.type = refusal
      BY <2>2, <1>0, AnswerFits
  <2>6. wire_in' = Append(wire_in, m) /\ m.qty = 0 /\ m.filled = ex[i].filled /\ m.leaves = ex[i].leaves
      BY <2>3 DEF Answer, Said
  <2> HIDE DEF m
  <2>7. flow = "FIX" => i \in DOMAIN our_orders_
    <3> SUFFICES ASSUME flow = "FIX" PROVE i \in DOMAIN our_orders_
        OBVIOUS
    <3>1. 1 \in DOMAIN wire_out /\ c = wire_out[1] /\ i \in DOMAIN ex
        BY <1>1, <1>2
    <3>2. PICK j \in DOMAIN our_orders_ : ex[j].token = c.ref
        BY <3>1, <1>0, <1>2 DEF CancelInv
    <3>3. j \in DOMAIN ex
        BY <1>0 DEF MapInv
    <3> QED BY <3>1, <3>2, <3>3, <2>4, <1>0 DEF NameInv
  <2>8. PICK x \in Messages : x = m
      BY <2>5
  <2>9. i \in DOMAIN ex /\ ex[i] \in Book /\ ex[i].filled \in Nat /\ ex[i].leaves \in 0..QtyMod - 1 /\ QtyMod \in Nat \ {0}
      BY <1>0, BookEntry, Consts DEF Ledger, SizeInv
  <2>10. Sized(x)
    <3>1. 0 \in 0..QtyMod - 1
        BY <2>9
    <3> QED BY <3>1, <2>2, <2>5, <2>6, <2>8, <2>9 DEF Sized
  <2>11. Weight(x, i, {"Executed"}) = 0 /\ Weight(x, i, {"Executed", "Cancelled"}) = 0
      BY <2>2, <2>5, <2>6, <2>8 DEF Weight
  <2>12. PICK b \in Book : b = ex[i] /\ ex' = [ex EXCEPT ![i] = b] /\ b.token = ex[i].token /\ b.urn = ex[i].urn
    <3>1. ex' = [ex EXCEPT ![i] = ex[i]]
        BY <1>1, <1>5
    <3> QED BY <3>1, <2>9
  <2>13. /\ b.filled = ex[i].filled + Weight(x, i, {"Executed"})
         /\ b.leaves = ex[i].leaves - Weight(x, i, {"Executed", "Cancelled"})
         /\ x.leaves - (IF x.type = "Cancelled" THEN x.qty ELSE 0) = b.leaves /\ x.filled = b.filled /\ b.leaves >= 0
      BY <2>2, <2>5, <2>6, <2>8, <2>9, <2>11, <2>12
  <2>14. Spoken(x) /\ x.id = i /\ x.type # "Accepted" /\ (x.type = "CancelReject" => x.id \in DOMAIN our_orders_)
      BY <2>2, <2>5, <2>6, <2>7, <2>8 DEF Spoken
  <2> QED BY <2>3, <2>9, <2>10, <2>12, <2>13, <2>14, <1>2, ReportLedger
<1>6. CASE UNCHANGED <<flow, order_pool_, strategy, strategy_to_risk_, risk_to_builder_, store_to_risk_,
                       builder, ex, wire_in, awaitingAck_orders_, maps, pending_to_strategy_, crashed, missed>>
    BY <1>2, <1>6, RequestDropped DEF builder, maps
<1> QED BY <1>3, <1>4, <1>5, <1>6

LEMMA ExchangeAcceptsLedger == ASSUME IInv, IInv', Ledger, ExchangeAccepts PROVE Ledger'
<1>0. TypeInv /\ WireInv /\ SizeInv
    BY DEF IInv, Ledger
<1> DEFINE e == Head(wire_out)
           n == Len(ex) + 1
<1>1. wire_out \in Seq(Requests) /\ ex \in Seq(Book)
    BY <1>0, BookEntry DEF TypeInv
<1>2. wire_out # <<>> /\ e.type = "Enter" /\ wire_out' = Tail(wire_out) /\ Taking
    BY DEF ExchangeAccepts, Taking
<1>3. \/ /\ ex' = Append(ex, [token |-> e.token, urn |-> e.ref, filled |-> 0, leaves |-> e.qty])
         /\ Says(Said("Accepted", e.token, e.ref, n, e.qty, 0, e.qty))
      \/ /\ Says(Said("Rejected", e.token, e.ref, 0, 0, 0, 0))
         /\ UNCHANGED ex
    BY DEF ExchangeAccepts
<1>4. e \in Requests /\ e.token \in Ordered /\ e = wire_out[1] /\ 1 \in DOMAIN wire_out
  <2>1. e \in Requests /\ e.token \in Ordered
      BY <1>0, <1>1, <1>2, OutTail
  <2> QED BY <2>1, <1>1, <1>2
<1>5. e.token \in Nat /\ e.ref \in Nat /\ e.qty \in 0..QtyMod - 1 /\ QtyMod \in Nat \ {0} /\ e.qty \in Int
    BY <1>0, <1>4, Consts DEF Requests, SizeInv
<1>6. UNCHANGED <<flow, order_pool_, user_ref_num, our_orders_, pending_to_strategy_, missed>>
    BY <1>3 DEF Says, builder, maps
<1>7. n \in Nat /\ n # 0 /\ n \notin DOMAIN ex
    BY <1>1
<1>8. e.token \notin Taken
    BY <1>0, <1>4 DEF WireInv
<1>9. \A j \in DOMAIN ex : ex[j].filled \in Int /\ ex[j].leaves \in Int /\ ex[j].leaves >= 0
  <2>1. \A j \in DOMAIN ex : ex[j].filled \in Nat /\ ex[j].leaves \in 0..QtyMod - 1
      BY <1>0 DEF SizeInv
  <2> QED BY <2>1, <1>5
<1> HIDE DEF e, n
<1>10. ASSUME NEW m \in Messages, m.type = "Accepted" \/ m.type = "Rejected",
              \A j \in DOMAIN ex : j \in DOMAIN ex' /\ ex'[j] = ex[j]
       PROVE  Booked(m)
  <2>1. \A j, T : T \subseteq {"Executed", "Cancelled"} => Weight(m, j, T) = 0
      BY <1>10 DEF Weight
  <2>2. \A j : Weight(m, j, {"Executed"}) = 0 /\ Weight(m, j, {"Executed", "Cancelled"}) = 0
      BY <2>1
  <2> QED BY <2>2, <1>9, <1>10 DEF Booked
<1>11. CASE /\ ex' = Append(ex, [token |-> e.token, urn |-> e.ref, filled |-> 0, leaves |-> e.qty])
            /\ Says(Said("Accepted", e.token, e.ref, n, e.qty, 0, e.qty))
  <2> DEFINE b == [token |-> e.token, urn |-> e.ref, filled |-> 0, leaves |-> e.qty]
             x == Said("Accepted", e.token, e.ref, n, e.qty, 0, e.qty)
  <2>1. b \in Book /\ b.token = e.token /\ b.urn = e.ref /\ b.filled = 0 /\ b.leaves = e.qty
      BY <1>5 DEF Book
  <2>2. /\ x \in Messages /\ x.type = "Accepted" /\ x.token = e.token /\ x.urn = e.ref /\ x.id = n
        /\ x.filled = 0 /\ x.leaves = e.qty /\ x.qty = e.qty
      BY <1>5, <1>7 DEF Said, Messages
  <2>3. ex' = Append(ex, b) /\ wire_in' = Append(wire_in, x)
      BY <1>11 DEF Says
  <2> HIDE DEF b, x
  <2>4. /\ DOMAIN ex' = DOMAIN ex \cup {n} /\ ex'[n] = b
        /\ \A i \in DOMAIN ex : i \in DOMAIN ex' /\ ex'[i] = ex[i]
    <3>1. /\ Len(ex) \in Nat /\ DOMAIN ex = 1..Len(ex) /\ DOMAIN ex' = 1..Len(ex) + 1
          /\ ex'[Len(ex) + 1] = b /\ \A i \in DOMAIN ex : ex'[i] = ex[i]
        BY <2>1, <2>3, <1>1, AppendFacts
    <3> QED BY <3>1 DEF n
  <2>5. PICK m \in Messages : m = x
      BY <2>2
  <2>6. Booked(m)
      BY <2>2, <2>4, <2>5, <1>10
  <2>7. Opened(m)
    <3>1. \A j \in DOMAIN ex' : j \notin DOMAIN ex => j = n
        BY <2>4
    <3>2. 0 \in Nat
        OBVIOUS
    <3> QED BY <3>1, <3>2, <2>1, <2>2, <2>4, <2>5, <1>2, <1>4, <1>5, <1>8 DEF Opened
  <2>8. Told(m)
      BY <2>1, <2>2, <2>4, <2>5, <1>5 DEF Told
  <2>9. Sized(m)
    <3>1. 0 \in Nat
        OBVIOUS
    <3> QED BY <3>1, <2>2, <2>5, <1>5 DEF Sized
  <2>10. Spoken(m) /\ m.id \notin DOMAIN ex /\ m.type # "CancelReject"
      BY <2>2, <2>3, <2>5, <1>7 DEF Spoken
  <2> QED BY <2>6, <2>7, <2>8, <2>9, <2>10, <1>2, <1>6, ExchangeLedger
<1>12. CASE /\ Says(Said("Rejected", e.token, e.ref, 0, 0, 0, 0))
            /\ UNCHANGED ex
  <2> DEFINE x == Said("Rejected", e.token, e.ref, 0, 0, 0, 0)
  <2>1. x \in Messages /\ x.type = "Rejected" /\ x.id = 0 /\ x.qty = 0 /\ x.filled = 0 /\ x.leaves = 0
      BY <1>5 DEF Said, Messages
  <2>2. wire_in' = Append(wire_in, x) /\ ex' = ex
      BY <1>12 DEF Says
  <2> HIDE DEF x
  <2>3. PICK m \in Messages : m = x
      BY <2>1
  <2>4. Booked(m)
      BY <2>1, <2>2, <2>3, <1>10
  <2>5. Opened(m) /\ Told(m)
      BY <2>1, <2>2, <2>3 DEF Opened, Told
  <2>6. Sized(m)
    <3>1. 0 \in Nat /\ 0 \in 0..QtyMod - 1
        BY <1>5
    <3> QED BY <3>1, <2>1, <2>3 DEF Sized
  <2>7. Spoken(m) /\ m.type # "CancelReject" /\ m.type # "Accepted"
      BY <2>1, <2>2, <2>3 DEF Spoken
  <2> QED BY <2>4, <2>5, <2>6, <2>7, <1>2, <1>6, ExchangeLedger
<1> QED BY <1>3, <1>11, <1>12

-----------------------------------------------------------------------------
(* The second invariant: the store takes a message *)

\* Message m comes off the wire, or it was the parked one in front; rest is
\* what stays parked.
OffWire(m, rest) == /\ wire_in # <<>> /\ m = wire_in[1] /\ wire_in' = Tail(wire_in)
                    /\ rest = pending_to_strategy_
OffPending(m, rest) == /\ pending_to_strategy_ # <<>> /\ m = pending_to_strategy_[1].msg /\ wire_in' = wire_in
                       /\ rest = Tail(pending_to_strategy_)

LEMMA OffWireFacts ==
  ASSUME TypeInv, SizeInv, NEW m, NEW rest, OffWire(m, rest)
  PROVE  /\ m \in Counted /\ m = wire_in[1] /\ 1 \in DOMAIN wire_in /\ wire_in' \in Seq(Counted)
         /\ rest = pending_to_strategy_ /\ rest \in Seq(Pending) /\ Msgs(rest) \in Seq(Counted) /\ Parked = Msgs(rest)
         /\ \A k \in DOMAIN wire_in' : /\ k \in Nat /\ k + 1 \in DOMAIN wire_in /\ wire_in'[k] = wire_in[k + 1] /\ k >= 1
         /\ \A k \in DOMAIN wire_in : wire_in[k] = m \/ \E j \in DOMAIN wire_in' : wire_in'[j] = wire_in[k]
         /\ \A i, T : /\ \A k \in Nat : Behind(wire_in', k, i, T) = Behind(wire_in, k + 1, i, T)
                      /\ Behind(wire_in, 0, i, T) = Weight(m, i, T) + Behind(wire_in', 0, i, T)
                      /\ Behind(wire_in, 1, i, T) = Behind(wire_in', 0, i, T)
<1>1. /\ wire_in \in Seq(Counted) /\ pending_to_strategy_ \in Seq(Pending) /\ Msgs(pending_to_strategy_) \in Seq(Counted)
      /\ Parked = Msgs(pending_to_strategy_)
    BY CountedWires
<1>2. wire_in # <<>> /\ m = wire_in[1] /\ wire_in' = Tail(wire_in) /\ rest = pending_to_strategy_
    BY DEF OffWire
<1>3. /\ Tail(wire_in) \in Seq(Counted) /\ Len(wire_in) \in Nat /\ Len(wire_in) > 0
      /\ DOMAIN wire_in = 1..Len(wire_in) /\ DOMAIN Tail(wire_in) = 1..Len(wire_in) - 1
      /\ \A i \in DOMAIN Tail(wire_in) : i + 1 \in DOMAIN wire_in /\ Tail(wire_in)[i] = wire_in[i + 1]
    BY <1>1, <1>2, TailFacts
<1>4. 1 \in DOMAIN wire_in /\ wire_in[1] \in Counted
    BY <1>1, <1>3
<1>5. \A k \in DOMAIN wire_in' : k \in Nat /\ k + 1 \in DOMAIN wire_in /\ wire_in'[k] = wire_in[k + 1] /\ k >= 1
    BY <1>2, <1>3
<1>6. ASSUME NEW k \in DOMAIN wire_in, k # 1
      PROVE  \E j \in DOMAIN wire_in' : wire_in'[j] = wire_in[k]
  <2>1. PICK j \in Int : j = k - 1
      BY <1>3
  <2>2. j \in 1..Len(wire_in) - 1 /\ j + 1 = k
      BY <2>1, <1>3, <1>6
  <2> QED BY <2>2, <1>2, <1>3
<1>7. PICK t \in Seq(Counted) : t = Tail(wire_in) /\ Dropped(t, wire_in)
    BY <1>1, <1>2, BehindTail
<1>8. wire_in' = t
    BY <1>2, <1>7
<1>9. \A i, T : /\ \A k \in Nat : Behind(wire_in', k, i, T) = Behind(wire_in, k + 1, i, T)
                /\ Behind(wire_in, 0, i, T) = Weight(m, i, T) + Behind(wire_in', 0, i, T)
                /\ Behind(wire_in, 1, i, T) = Behind(wire_in', 0, i, T)
    BY <1>2, <1>7, <1>8 DEF Dropped
<1>10. \A k \in DOMAIN wire_in : wire_in[k] = m \/ \E j \in DOMAIN wire_in' : wire_in'[j] = wire_in[k]
    BY <1>2, <1>6
<1> QED BY <1>1, <1>2, <1>3, <1>4, <1>5, <1>9, <1>10

LEMMA OffPendingFacts ==
  ASSUME TypeInv, SizeInv, NEW m, NEW rest, OffPending(m, rest)
  PROVE  /\ m \in Counted /\ m = pending_to_strategy_[1].msg /\ 1 \in DOMAIN pending_to_strategy_
         /\ wire_in' = wire_in /\ wire_in \in Seq(Counted)
         /\ rest \in Seq(Pending) /\ Msgs(rest) \in Seq(Counted) /\ Parked \in Seq(Counted)
         /\ \A k \in DOMAIN rest : k \in Nat /\ k + 1 \in DOMAIN pending_to_strategy_ /\ rest[k] = pending_to_strategy_[k + 1]
         /\ \A i, T : /\ \A k \in Nat : Behind(Msgs(rest), k, i, T) = Behind(Parked, k + 1, i, T)
                      /\ Behind(Parked, 0, i, T) = Weight(m, i, T) + Behind(Msgs(rest), 0, i, T)
                      /\ Behind(Parked, 1, i, T) = Behind(Msgs(rest), 0, i, T)
<1>1. /\ wire_in \in Seq(Counted) /\ pending_to_strategy_ \in Seq(Pending) /\ Msgs(pending_to_strategy_) \in Seq(Counted)
      /\ Parked = Msgs(pending_to_strategy_)
    BY CountedWires
<1>2. pending_to_strategy_ # <<>> /\ m = pending_to_strategy_[1].msg /\ wire_in' = wire_in /\ rest = Tail(pending_to_strategy_)
    BY DEF OffPending
<1>3. /\ Tail(pending_to_strategy_) \in Seq(Pending) /\ Len(pending_to_strategy_) \in Nat /\ Len(pending_to_strategy_) > 0
      /\ DOMAIN pending_to_strategy_ = 1..Len(pending_to_strategy_)
      /\ DOMAIN Tail(pending_to_strategy_) = 1..Len(pending_to_strategy_) - 1
      /\ \A i \in DOMAIN Tail(pending_to_strategy_) :
            i + 1 \in DOMAIN pending_to_strategy_ /\ Tail(pending_to_strategy_)[i] = pending_to_strategy_[i + 1]
    BY <1>1, <1>2, TailFacts
<1>4. Msgs(rest) = Tail(Parked) /\ Parked # <<>>
    BY <1>1, <1>2, MsgsTail
<1>5. 1 \in DOMAIN pending_to_strategy_ /\ m = Parked[1] /\ m \in Counted
  <2>1. 1 \in DOMAIN pending_to_strategy_
      BY <1>3
  <2>2. m = Parked[1] /\ 1 \in DOMAIN Parked
      BY <2>1, <1>1, <1>2, MsgsFacts
  <2> QED BY <2>1, <2>2, <1>1
<1>6. \A k \in DOMAIN rest : k \in Nat /\ k + 1 \in DOMAIN pending_to_strategy_ /\ rest[k] = pending_to_strategy_[k + 1]
    BY <1>2, <1>3
<1>7. PICK p \in Seq(Counted) : p = Parked /\ p # <<>>
    BY <1>1, <1>4
<1>8. PICK t \in Seq(Counted) : t = Tail(p) /\ Dropped(t, p)
    BY <1>7, BehindTail
<1>9. Msgs(rest) = t /\ m = p[1]
    BY <1>4, <1>5, <1>7, <1>8
<1>10. \A i, T : /\ \A k \in Nat : Behind(Msgs(rest), k, i, T) = Behind(Parked, k + 1, i, T)
                 /\ Behind(Parked, 0, i, T) = Weight(m, i, T) + Behind(Msgs(rest), 0, i, T)
                 /\ Behind(Parked, 1, i, T) = Behind(Msgs(rest), 0, i, T)
    BY <1>7, <1>8, <1>9 DEF Dropped
<1>11. Msgs(rest) \in Seq(Counted)
    BY <1>9
<1> QED BY <1>1, <1>2, <1>3, <1>5, <1>6, <1>10, <1>11

Off(m, rest) == OffWire(m, rest) \/ OffPending(m, rest)

\* What was under way is m and what still is.
Accounts(m, rest) == \A i, T :
    /\ Weight(m, i, T) \in Nat /\ Behind(wire_in', 0, i, T) \in Nat /\ Behind(Msgs(rest), 0, i, T) \in Nat
    /\ Transit(i, T) = Weight(m, i, T) + (Behind(wire_in', 0, i, T) + Behind(Msgs(rest), 0, i, T))
Fewer(m, rest) ==
    /\ \A k \in DOMAIN wire_in' : \E j \in DOMAIN wire_in : wire_in'[k] = wire_in[j]
    /\ \A k \in DOMAIN wire_in : wire_in[k] = m \/ \E j \in DOMAIN wire_in' : wire_in'[j] = wire_in[k]
    /\ \A k \in DOMAIN rest : \E j \in DOMAIN pending_to_strategy_ : rest[k] = pending_to_strategy_[j]

LEMMA OffAccounts ==
  ASSUME TypeInv, SizeInv, NEW m, NEW rest, Off(m, rest)
  PROVE  Accounts(m, rest) /\ Fewer(m, rest)
<1>1. /\ wire_in \in Seq(Counted) /\ Msgs(pending_to_strategy_) \in Seq(Counted)
      /\ Parked = Msgs(pending_to_strategy_)
    BY CountedWires
<1>2. PICK z \in Nat : z = 0
    OBVIOUS
<1>3. CASE OffWire(m, rest)
  <2>1. /\ m \in Counted /\ wire_in' \in Seq(Counted)
        /\ rest = pending_to_strategy_ /\ Msgs(rest) \in Seq(Counted) /\ Parked = Msgs(rest)
        /\ \A k \in DOMAIN wire_in' : k + 1 \in DOMAIN wire_in /\ wire_in'[k] = wire_in[k + 1]
        /\ \A k \in DOMAIN wire_in : wire_in[k] = m \/ \E j \in DOMAIN wire_in' : wire_in'[j] = wire_in[k]
        /\ \A i, T : Behind(wire_in, 0, i, T) = Weight(m, i, T) + Behind(wire_in', 0, i, T)
      BY <1>3, OffWireFacts
  <2>2. Fewer(m, rest)
      BY <2>1 DEF Fewer
  <2>3. ASSUME NEW i, NEW T
        PROVE  /\ Weight(m, i, T) \in Nat /\ Behind(wire_in', 0, i, T) \in Nat /\ Behind(Msgs(rest), 0, i, T) \in Nat
               /\ Transit(i, T) = Weight(m, i, T) + (Behind(wire_in', 0, i, T) + Behind(Msgs(rest), 0, i, T))
    <3>1. Weight(m, i, T) \in Nat
        BY <2>1 DEF Weight, Counted
    <3>2. PICK a \in Nat : a = Behind(wire_in', z, i, T)
        BY <2>1, BehindNat
    <3>3. PICK b \in Nat : b = Behind(Msgs(rest), z, i, T)
        BY <2>1, BehindNat
    <3>4. PICK w \in Nat : w = Weight(m, i, T)
        BY <3>1
    <3>5. Transit(i, T) = (w + a) + b
        BY <3>2, <3>3, <3>4, <2>1, <1>2 DEF Transit
    <3>6. Transit(i, T) = w + (a + b)
        BY <3>5
    <3> QED BY <3>2, <3>3, <3>4, <3>6, <1>2
  <2> QED BY <2>2, <2>3 DEF Accounts
<1>4. CASE OffPending(m, rest)
  <2>1. /\ m \in Counted /\ wire_in' = wire_in /\ Msgs(rest) \in Seq(Counted)
        /\ \A k \in DOMAIN rest : k + 1 \in DOMAIN pending_to_strategy_ /\ rest[k] = pending_to_strategy_[k + 1]
        /\ \A i, T : Behind(Parked, 0, i, T) = Weight(m, i, T) + Behind(Msgs(rest), 0, i, T)
      BY <1>4, OffPendingFacts
  <2>2. Fewer(m, rest)
      BY <2>1 DEF Fewer
  <2>3. ASSUME NEW i, NEW T
        PROVE  /\ Weight(m, i, T) \in Nat /\ Behind(wire_in', 0, i, T) \in Nat /\ Behind(Msgs(rest), 0, i, T) \in Nat
               /\ Transit(i, T) = Weight(m, i, T) + (Behind(wire_in', 0, i, T) + Behind(Msgs(rest), 0, i, T))
    <3>1. Weight(m, i, T) \in Nat
        BY <2>1 DEF Weight, Counted
    <3>2. PICK a \in Nat : a = Behind(wire_in, z, i, T)
        BY <1>1, BehindNat
    <3>3. PICK b \in Nat : b = Behind(Msgs(rest), z, i, T)
        BY <2>1, BehindNat
    <3>4. PICK w \in Nat : w = Weight(m, i, T)
        BY <3>1
    <3>5. Transit(i, T) = a + (w + b)
        BY <3>2, <3>3, <3>4, <2>1, <1>2 DEF Transit
    <3>6. Transit(i, T) = w + (a + b)
        BY <3>5
    <3> QED BY <3>2, <3>3, <3>4, <3>6, <2>1, <1>2
  <2> QED BY <2>2, <2>3 DEF Accounts
<1> QED BY <1>3, <1>4 DEF Off

\* The message fits, and the Accepted message of its order is not behind it.
LEMMA OffMessage ==
  ASSUME IInv, Ledger, NEW m, NEW rest, Off(m, rest)
  PROVE  /\ m \in Messages /\ Fits(m) /\ Sized(m) /\ m.qty \in Nat /\ rest \in Seq(Pending)
         /\ \A k \in DOMAIN wire_in' : wire_in'[k].type = "Accepted" => wire_in'[k].id # m.id
         /\ \A k \in DOMAIN wire_in : wire_in[k].type = "Accepted" /\ wire_in[k].id = m.id => m.type = "Accepted"
         /\ m.type = "Accepted" => OffWire(m, rest)
<1>0. TypeInv /\ MessageInv /\ SizeInv /\ FirstInv /\ ParkInv
    BY DEF IInv, Ledger
<1>1. CASE OffWire(m, rest)
  <2>1. /\ m \in Counted /\ m = wire_in[1] /\ 1 \in DOMAIN wire_in /\ rest \in Seq(Pending)
        /\ \A k \in DOMAIN wire_in' : /\ k \in Nat /\ k + 1 \in DOMAIN wire_in /\ wire_in'[k] = wire_in[k + 1] /\ k >= 1
      BY <1>0, <1>1, OffWireFacts
  <2>2. Fits(m) /\ Sized(m)
      BY <2>1, <1>0 DEF MessageInv, SizeInv
  <2>3. \A k \in DOMAIN wire_in : k \in Nat /\ k >= 1 /\ (1 >= k => k = 1)
    <3>1. wire_in \in Seq(Messages)
        BY <1>0 DEF TypeInv
    <3> QED BY <3>1
  <2>4. \A k \in DOMAIN wire_in : wire_in[k].type = "Accepted" /\ wire_in[k].id = m.id => k = 1
      BY <2>1, <2>3, <1>0 DEF FirstInv
  <2>5. \A k \in DOMAIN wire_in' : k + 1 # 1
      BY <2>1
  <2>6. m \in Messages /\ m.qty \in Nat
      BY <2>1 DEF Counted
  <2> QED BY <2>1, <2>2, <2>4, <2>5, <2>6, <1>1
<1>2. CASE OffPending(m, rest)
  <2>1. /\ m \in Counted /\ m = pending_to_strategy_[1].msg /\ 1 \in DOMAIN pending_to_strategy_
        /\ wire_in' = wire_in /\ rest \in Seq(Pending)
      BY <1>0, <1>2, OffPendingFacts
  <2>2. Fits(m) /\ Sized(m) /\ m.type # "Accepted"
      BY <2>1, <1>0 DEF MessageInv, SizeInv, ParkInv
  <2>3. \A k \in DOMAIN wire_in : wire_in[k].type = "Accepted" => wire_in[k].id # m.id
      BY <2>1, <1>0 DEF FirstInv
  <2>4. m \in Messages /\ m.qty \in Nat
      BY <2>1 DEF Counted
  <2> QED BY <2>1, <2>2, <2>3, <2>4
<1> QED BY <1>1, <1>2 DEF Off

\* What stays parked, with m behind it perhaps.
Later(m, rest) == \/ pending_to_strategy_' = rest
                  \/ \E s \in Slots : pending_to_strategy_' = Append(rest, [msg |-> m, order |-> s])

LEMMA PendingAfter ==
  ASSUME NEW m \in Messages, NEW rest \in Seq(Pending), Fewer(m, rest), Later(m, rest)
  PROVE  \A k \in DOMAIN pending_to_strategy_' :
            pending_to_strategy_'[k].msg = m \/ \E j \in DOMAIN pending_to_strategy_ : pending_to_strategy_'[k] = pending_to_strategy_[j]
<1>1. CASE pending_to_strategy_' = rest
    BY <1>1 DEF Fewer
<1>2. ASSUME NEW s \in Slots, pending_to_strategy_' = Append(rest, [msg |-> m, order |-> s])
      PROVE  \A k \in DOMAIN pending_to_strategy_' :
                pending_to_strategy_'[k].msg = m \/ \E j \in DOMAIN pending_to_strategy_ : pending_to_strategy_'[k] = pending_to_strategy_[j]
  <2>0. [msg |-> m, order |-> s] \in Pending
      BY DEF Pending
  <2>1. PICK w \in Pending : w = [msg |-> m, order |-> s] /\ w.msg = m
      BY <2>0
  <2>2. pending_to_strategy_' = Append(rest, w)
      BY <2>1, <1>2
  <2>3. /\ DOMAIN rest = 1..Len(rest) /\ Len(rest) \in Nat
        /\ DOMAIN Append(rest, w) = 1..Len(rest) + 1 /\ Append(rest, w)[Len(rest) + 1] = w
        /\ \A i \in DOMAIN rest : Append(rest, w)[i] = rest[i]
      BY AppendFacts
  <2>4. DOMAIN pending_to_strategy_' = DOMAIN rest \cup {Len(rest) + 1}
      BY <2>2, <2>3
  <2>5. ASSUME NEW k \in DOMAIN pending_to_strategy_'
        PROVE  pending_to_strategy_'[k].msg = m \/ \E j \in DOMAIN pending_to_strategy_ : pending_to_strategy_'[k] = pending_to_strategy_[j]
    <3>1. CASE k = Len(rest) + 1
      <4>1. pending_to_strategy_'[k] = w
          BY <3>1, <2>2, <2>3
      <4> QED BY <4>1, <2>1
    <3>2. CASE k \in DOMAIN rest
      <4>1. pending_to_strategy_'[k] = rest[k]
          BY <3>2, <2>2, <2>3
      <4> QED BY <4>1, <3>2 DEF Fewer
    <3> QED BY <3>1, <3>2, <2>4
  <2> QED BY <2>5
<1> QED BY <1>1, <1>2 DEF Later

\* The names and the sizes stay, and every message still tells the exchange's
\* order up to those behind it.
LEMMA WiresAfter ==
  ASSUME IInv, Ledger, NEW m, NEW rest, Off(m, rest), Later(m, rest), Elsewhere,
         \A s \in Slots : order_pool_'[s].quantity \in 0..QtyMod - 1
  PROVE  SizeInv' /\ NameInv' /\ AheadInv'
<1>0. TypeInv /\ SizeInv /\ NameInv /\ AheadInv
    BY DEF IInv, Ledger
<1>1. flow' = flow /\ wire_out' = wire_out /\ ex' = ex /\ user_ref_num' = user_ref_num
    BY DEF Elsewhere
<1>2. m \in Messages /\ Sized(m) /\ rest \in Seq(Pending)
    BY OffMessage
<1>3. Fewer(m, rest)
    BY <1>0, OffAccounts
<1>4. NameInv'
    BY <1>0, <1>1 DEF NameInv
<1>5. SizeInv'
  <2>1. \A x : Sized(x)' <=> Sized(x)
      BY <1>1 DEF Sized
  <2>2. \A k \in DOMAIN wire_in' : Sized(wire_in'[k])
      BY <1>0, <1>3 DEF SizeInv, Fewer
  <2>3. \A k \in DOMAIN pending_to_strategy_' : Sized(pending_to_strategy_'[k].msg)
      BY <1>0, <1>2, <1>3, PendingAfter DEF SizeInv
  <2>4. \A k \in DOMAIN wire_out' : wire_out'[k].qty \in 0..QtyMod - 1
      BY <1>0, <1>1 DEF SizeInv
  <2>5. \A i \in DOMAIN ex' : ex'[i].filled \in Nat /\ ex'[i].leaves \in 0..QtyMod - 1
      BY <1>0, <1>1 DEF SizeInv
  <2> QED BY <2>2, <2>3, <2>4, <2>5, <1>1 DEF SizeInv, Sized
<1>6. CASE OffWire(m, rest)
  <2>1. /\ \A k \in DOMAIN wire_in' : k \in Nat /\ k + 1 \in DOMAIN wire_in /\ wire_in'[k] = wire_in[k + 1] /\ k >= 1
        /\ \A i, T : /\ \A k \in Nat : Behind(wire_in', k, i, T) = Behind(wire_in, k + 1, i, T)
                     /\ Behind(wire_in, 0, i, T) = Weight(m, i, T) + Behind(wire_in', 0, i, T)
                     /\ Behind(wire_in, 1, i, T) = Behind(wire_in', 0, i, T)
      BY <1>0, <1>6, OffWireFacts
  <2>2. ASSUME NEW k \in DOMAIN wire_in', wire_in'[k].id # 0
        PROVE  /\ wire_in'[k].filled + Behind(wire_in', k, wire_in'[k].id, {"Executed"}) = ex[wire_in'[k].id].filled
               /\ wire_in'[k].leaves - (IF wire_in'[k].type = "Cancelled" THEN wire_in'[k].qty ELSE 0)
                    = ex[wire_in'[k].id].leaves + Behind(wire_in', k, wire_in'[k].id, {"Executed", "Cancelled"})
    <3>1. PICK l \in DOMAIN wire_in : l = k + 1 /\ wire_in'[k] = wire_in[l]
        BY <2>1
    <3>2. \A i, T : Behind(wire_in', k, i, T) = Behind(wire_in, l, i, T)
        BY <2>1, <3>1
    <3>3. /\ wire_in[l].filled + Behind(wire_in, l, wire_in[l].id, {"Executed"}) = ex[wire_in[l].id].filled
          /\ wire_in[l].leaves - (IF wire_in[l].type = "Cancelled" THEN wire_in[l].qty ELSE 0)
               = ex[wire_in[l].id].leaves + Behind(wire_in, l, wire_in[l].id, {"Executed", "Cancelled"})
        BY <3>1, <2>2, <1>0 DEF AheadInv
    <3> QED BY <3>1, <3>2, <3>3
  <2> QED BY <2>2, <1>1, <1>4, <1>5 DEF AheadInv
<1>7. CASE OffPending(m, rest)
  <2>1. wire_in' = wire_in
      BY <1>7 DEF OffPending
  <2> QED BY <2>1, <1>0, <1>1, <1>4, <1>5 DEF AheadInv
<1> QED BY <1>6, <1>7 DEF Off

\* The Accepted message of an order is still handled first.
LEMMA FirstAfter ==
  ASSUME IInv, Ledger, NEW m, NEW rest, Off(m, rest), Later(m, rest), Elsewhere,
         DOMAIN our_orders_' \subseteq DOMAIN our_orders_ \cup {m.id},
         \A s \in Slots : /\ Token(s)' = Token(s)
                          /\ \/ order_pool_'[s].filled_quantity = order_pool_[s].filled_quantity
                             \/ Token(s) = m.token /\ m.id # 0
  PROVE  FirstInv'
<1>0. TypeInv /\ MessageInv /\ SizeInv /\ NameInv /\ FirstInv
    BY DEF IInv, Ledger
<1>1. Taken' = Taken
    BY DEF Taken, Elsewhere
<1>2. /\ m \in Messages /\ Fits(m) /\ rest \in Seq(Pending)
      /\ \A k \in DOMAIN wire_in' : wire_in'[k].type = "Accepted" => wire_in'[k].id # m.id
    BY OffMessage
<1>3. Fewer(m, rest)
    BY <1>0, OffAccounts
<1>4. m.id # 0 => m.id \in DOMAIN ex /\ m.token = ex[m.id].token /\ m.token \in Taken
    BY <1>2 DEF Fits, Taken
<1>5. \A s \in Slots : Token(s)' \notin Taken' => order_pool_'[s].filled_quantity = 0
    BY <1>0, <1>1, <1>4 DEF FirstInv
<1>6. ASSUME NEW k \in DOMAIN wire_in', wire_in'[k].type = "Accepted"
      PROVE  /\ wire_in'[k].id \notin DOMAIN our_orders_'
             /\ \A j \in DOMAIN wire_in' : wire_in'[j].id = wire_in'[k].id => j >= k
             /\ \A j \in DOMAIN pending_to_strategy_' : pending_to_strategy_'[j].msg.id # wire_in'[k].id
             /\ \A s \in Slots : Token(s)' = wire_in'[k].token => order_pool_'[s].filled_quantity = 0
  <2>1. PICK l \in DOMAIN wire_in : wire_in'[k] = wire_in[l]
      BY <1>3 DEF Fewer
  <2>2. /\ wire_in[l].id \notin DOMAIN our_orders_ /\ wire_in[l].id # m.id
        /\ \A j \in DOMAIN pending_to_strategy_ : pending_to_strategy_[j].msg.id # wire_in[l].id
        /\ \A s \in Slots : Token(s) = wire_in[l].token => order_pool_[s].filled_quantity = 0
      BY <2>1, <1>0, <1>2, <1>6 DEF FirstInv
  <2>3. wire_in[l].id \in DOMAIN ex /\ wire_in[l].token = ex[wire_in[l].id].token
      BY <2>1, <1>0, <1>6 DEF MessageInv, Fits
  <2>4. m.id # 0 => m.token # wire_in[l].token
      BY <2>2, <2>3, <1>0, <1>4 DEF NameInv
  <2>5. \A s \in Slots : Token(s)' = wire_in'[k].token => order_pool_'[s].filled_quantity = 0
      BY <2>1, <2>2, <2>4
  <2>6. \A j \in DOMAIN pending_to_strategy_' : pending_to_strategy_'[j].msg.id # wire_in'[k].id
      BY <2>1, <2>2, <1>2, <1>3, PendingAfter
  <2>7. \A j \in DOMAIN wire_in' : wire_in'[j].id = wire_in'[k].id => j >= k
    <3>1. CASE OffWire(m, rest)
      <4>1. \A i \in DOMAIN wire_in' : i \in Nat /\ i + 1 \in DOMAIN wire_in /\ wire_in'[i] = wire_in[i + 1]
          BY <3>1, <1>0, OffWireFacts
      <4>2. \A j \in DOMAIN wire_in' : wire_in'[j].id = wire_in'[k].id => j + 1 >= k + 1
          BY <4>1, <1>0, <1>6 DEF FirstInv
      <4>3. \A j \in DOMAIN wire_in' : j + 1 >= k + 1 => j >= k
          BY <4>1
      <4> QED BY <4>2, <4>3
    <3>2. CASE OffPending(m, rest)
        BY <3>2, <1>0, <1>6 DEF FirstInv, OffPending
    <3> QED BY <3>1, <3>2 DEF Off
  <2> QED BY <2>1, <2>2, <2>5, <2>6, <2>7
<1> QED BY <1>5, <1>6 DEF FirstInv

\* What the exchange has is registered, or will be, or was missed.
LEMMA RegisteredAfter ==
  ASSUME IInv, Ledger, NEW m, NEW rest, Off(m, rest), Elsewhere,
         DOMAIN our_orders_ \subseteq DOMAIN our_orders_', missed \subseteq missed',
         m.type = "Accepted" => m.token \in missed' \/ m.id \in DOMAIN our_orders_',
         \A s \in Slots : /\ Token(s)' = Token(s)
                          /\ \/ Id(s)' = Id(s)
                             \/ Token(s) = m.token /\ m.id # 0 /\ m.id \in DOMAIN our_orders_'
  PROVE  RegInv' /\ CancelInv'
<1>0. TypeInv /\ MessageInv /\ SizeInv /\ MapInv /\ RegInv /\ CancelInv
    BY DEF IInv, Ledger
<1>1. flow' = flow /\ wire_out' = wire_out /\ ex' = ex
    BY DEF Elsewhere
<1>2. m \in Messages /\ Fits(m)
    BY OffMessage
<1>3. Fewer(m, rest)
    BY <1>0, OffAccounts
<1>4. m.id # 0 => m.id \in DOMAIN ex /\ m.token = ex[m.id].token
    BY <1>2 DEF Fits
<1>5. RegInv'
  <2> SUFFICES ASSUME flow # "FIX", NEW i \in DOMAIN ex
               PROVE  \/ i \in DOMAIN our_orders_' \/ ex[i].token \in missed'
                      \/ \E k \in DOMAIN wire_in' : wire_in'[k].type = "Accepted" /\ wire_in'[k].id = i
      BY <1>1 DEF RegInv
  <2>1. CASE i \in DOMAIN our_orders_ \/ ex[i].token \in missed
      BY <2>1
  <2>2. ASSUME NEW k \in DOMAIN wire_in, wire_in[k].type = "Accepted", wire_in[k].id = i
        PROVE  \/ i \in DOMAIN our_orders_' \/ ex[i].token \in missed'
               \/ \E l \in DOMAIN wire_in' : wire_in'[l].type = "Accepted" /\ wire_in'[l].id = i
    <3>1. CASE wire_in[k] = m
      <4>1. m.id = i /\ m.type = "Accepted" /\ m.id # 0
          BY <3>1, <2>2, <1>2 DEF Fits
      <4> QED BY <4>1, <1>4
    <3>2. CASE \E j \in DOMAIN wire_in' : wire_in'[j] = wire_in[k]
        BY <3>2, <2>2
    <3> QED BY <3>1, <3>2, <1>3 DEF Fewer
  <2> QED BY <2>1, <2>2, <1>0 DEF RegInv
<1>6. CancelInv'
  <2> SUFFICES ASSUME flow = "FIX" PROVE CancelInv'
      BY <1>1 DEF CancelInv
  <2>1. \A k \in DOMAIN wire_in' : wire_in'[k].type = "CancelReject" => wire_in'[k].id \in DOMAIN our_orders_'
      BY <1>0, <1>3 DEF CancelInv, Fewer
  <2>2. \A k \in DOMAIN wire_out : wire_out[k].type = "Cancel" => \E i \in DOMAIN our_orders_' : ex[i].token = wire_out[k].ref
      BY <1>0 DEF CancelInv
  <2>3. \A s \in Slots : Id(s)' # 0 => \E i \in DOMAIN our_orders_' : ex[i].token = Token(s)
      BY <1>0, <1>4 DEF CancelInv
  <2> QED BY <2>1, <2>2, <2>3, <1>1 DEF CancelInv
<1> QED BY <1>5, <1>6

\* Behind a parked Cancelled message there is still nothing of its order.
LEMMA ParkedAfter ==
  ASSUME IInv, Ledger, NEW m, NEW rest, Off(m, rest), pending_to_strategy_' = rest, Elsewhere,
         \A s \in Slots : Token(s)' = Token(s)
  PROVE  ParkInv'
<1>0. TypeInv /\ MessageInv /\ SizeInv /\ ParkInv
    BY DEF IInv, Ledger
<1>1. ex' = ex
    BY DEF Elsewhere
<1>2. rest \in Seq(Pending) /\ pending_to_strategy_ \in Seq(Pending)
    BY OffMessage, <1>0 DEF TypeInv, Pending
<1>3. Parked' = Msgs(rest)
    BY DEF Parked, Msgs
<1> DEFINE C == {"Executed", "Cancelled"}
<1> SUFFICES ASSUME NEW k \in DOMAIN rest
             PROVE  /\ Token(rest[k].order)' = rest[k].msg.token /\ rest[k].msg.type # "Accepted"
                    /\ rest[k].msg.type = "Cancelled" =>
                          ex[rest[k].msg.id].leaves + Behind(Msgs(rest), k, rest[k].msg.id, C)
                             + Behind(wire_in', 0, rest[k].msg.id, C) = 0
  <2>1. \A k \in DOMAIN rest : /\ Token(rest[k].order)' = rest[k].msg.token /\ rest[k].msg.type # "Accepted"
                               /\ rest[k].msg.type = "Cancelled" =>
                                     ex[rest[k].msg.id].leaves + Behind(Msgs(rest), k, rest[k].msg.id, C)
                                        + Behind(wire_in', 0, rest[k].msg.id, C) = 0
      OBVIOUS
  <2>2. \A k \in DOMAIN rest : Token(pending_to_strategy_[k].order)' = Token(rest[k].order)'
      BY DEF Token
  <2> QED BY <2>1, <2>2, <1>1, <1>3 DEF ParkInv
<1>4. PICK l \in DOMAIN pending_to_strategy_ :
         /\ rest[k] = pending_to_strategy_[l]
         /\ Behind(Msgs(rest), k, rest[k].msg.id, C) = Behind(Parked, l, rest[k].msg.id, C)
         /\ \E w \in Nat : Behind(wire_in, 0, rest[k].msg.id, C) = w + Behind(wire_in', 0, rest[k].msg.id, C)
  <2>1. PICK i : i = rest[k].msg.id
      OBVIOUS
  <2>2. CASE OffWire(m, rest)
    <3>1. /\ m \in Counted /\ rest = pending_to_strategy_ /\ Parked = Msgs(rest)
          /\ \A x, T : Behind(wire_in, 0, x, T) = Weight(m, x, T) + Behind(wire_in', 0, x, T)
        BY <2>2, <1>0, OffWireFacts
    <3>2. PICK w \in Nat : w = Weight(m, i, C)
        BY <3>1 DEF Weight, Counted
    <3>3. Behind(wire_in, 0, i, C) = w + Behind(wire_in', 0, i, C)
        BY <3>1, <3>2
    <3> QED BY <3>1, <3>3, <2>1
  <2>3. CASE OffPending(m, rest)
    <3>1. /\ wire_in' = wire_in /\ wire_in \in Seq(Counted)
          /\ \A n \in DOMAIN rest : n \in Nat /\ n + 1 \in DOMAIN pending_to_strategy_ /\ rest[n] = pending_to_strategy_[n + 1]
          /\ \A x, T : /\ \A n \in Nat : Behind(Msgs(rest), n, x, T) = Behind(Parked, n + 1, x, T)
                       /\ Behind(Parked, 0, x, T) = Weight(m, x, T) + Behind(Msgs(rest), 0, x, T)
                       /\ Behind(Parked, 1, x, T) = Behind(Msgs(rest), 0, x, T)
        BY <2>3, <1>0, OffPendingFacts
    <3>2. PICK l \in DOMAIN pending_to_strategy_ : l = k + 1 /\ rest[k] = pending_to_strategy_[l]
        BY <3>1
    <3>3. Behind(Msgs(rest), k, i, C) = Behind(Parked, l, i, C)
        BY <3>1, <3>2
    <3>4. PICK z \in Nat : z = 0
        OBVIOUS
    <3>5. PICK b \in Nat : b = Behind(wire_in, z, i, C)
        BY <3>1, BehindNat
    <3>6. Behind(wire_in, 0, i, C) = z + Behind(wire_in', 0, i, C)
        BY <3>1, <3>4, <3>5
    <3> QED BY <3>2, <3>3, <3>6, <2>1
  <2> QED BY <2>2, <2>3 DEF Off
<1>5. PICK x \in Pending : x = rest[k] /\ x = pending_to_strategy_[l]
    BY <1>2, <1>4
<1>6. x.order \in Slots /\ x.msg \in Messages
    BY DEF Pending
<1>7. Token(x.order) = x.msg.token /\ x.msg.type # "Accepted"
    BY <1>5, <1>0 DEF ParkInv
<1>8. ASSUME x.msg.type = "Cancelled"
      PROVE  ex[x.msg.id].leaves + Behind(Msgs(rest), k, x.msg.id, C) + Behind(wire_in', 0, x.msg.id, C) = 0
  <2>1. PICK i : i = x.msg.id
      OBVIOUS
  <2>2. i \in DOMAIN ex
      BY <2>1, <1>0, <1>5 DEF MessageInv, Fits
  <2>3. ex[i].leaves \in Nat
      BY <2>2, <1>0, Consts DEF SizeInv
  <2>4. wire_in' \in Seq(Counted) /\ Msgs(rest) \in Seq(Counted) /\ k \in Nat
    <3>1. wire_in \in Seq(Counted)
        BY <1>0, CountedWires
    <3>2. wire_in' \in Seq(Counted) /\ Msgs(rest) \in Seq(Counted)
        BY <3>1, <1>0, OffWireFacts, OffPendingFacts DEF Off
    <3>3. k \in Nat
        BY <1>2
    <3> QED BY <3>2, <3>3
  <2>5. PICK z \in Nat : z = 0
      OBVIOUS
  <2>6. PICK a \in Nat : a = Behind(wire_in', z, i, C)
      BY <2>4, BehindNat
  <2>7. PICK b \in Nat : b = Behind(Msgs(rest), k, i, C)
      BY <2>4, BehindNat
  <2>8. PICK w \in Nat : Behind(wire_in, 0, i, C) = w + a
      BY <2>1, <2>5, <2>6, <1>4, <1>5
  <2>9. ex[i].leaves + Behind(Parked, l, i, C) + Behind(wire_in, 0, i, C) = 0
      BY <1>8, <2>1, <1>5, <1>0 DEF ParkInv
  <2>10. Behind(Parked, l, i, C) = b
      BY <2>1, <2>7, <1>4, <1>5
  <2>11. ex[i].leaves + b + (w + a) = 0
      BY <2>8, <2>9, <2>10
  <2>12. ex[i].leaves + b + a = 0
    <3>1. PICK e \in Nat : e = ex[i].leaves
        BY <2>3
    <3>2. e + b + (w + a) = 0
        BY <3>1, <2>11
    <3>3. e + b + a = 0
        BY <3>2
    <3> QED BY <3>1, <3>3
  <2> QED BY <2>12, <2>1, <2>5, <2>6, <2>7
<1> QED BY <1>5, <1>6, <1>7, <1>8

\* The message is parked: as much is under way as before.
LEMMA ParkLedger ==
  ASSUME IInv, Ledger, flow = "BIST", NEW m, NEW rest, OffWire(m, rest), Elsewhere, NEW s \in Slots,
         Token(s) = m.token, m.type # "Accepted", m.id # 0,
         pending_to_strategy_' = Append(rest, [msg |-> m, order |-> s]),
         UNCHANGED <<order_pool_, our_orders_, missed>>
  PROVE  Ledger'
<1>0. TypeInv /\ MessageInv /\ MapInv /\ SizeInv /\ AheadInv /\ ParkInv /\ BalanceInv
    BY DEF IInv, Ledger
<1>1. flow' = flow /\ ex' = ex /\ order_pool_' = order_pool_ /\ our_orders_' = our_orders_ /\ missed' = missed
    BY DEF Elsewhere
<1>2. \A r : Token(r)' = Token(r) /\ Id(r)' = Id(r)
    BY <1>1 DEF Token, Id
<1>3. Off(m, rest)
    BY DEF Off
<1>4. m \in Messages /\ Fits(m) /\ Sized(m) /\ m.qty \in Nat /\ rest \in Seq(Pending)
    BY <1>3, OffMessage
<1>5. Later(m, rest)
    BY DEF Later
<1>6. SizeInv' /\ NameInv' /\ AheadInv'
  <2>1. \A r \in Slots : order_pool_'[r].quantity \in 0..QtyMod - 1
      BY <1>0, <1>1 DEF SizeInv
  <2> QED BY <2>1, <1>3, <1>5, WiresAfter
<1>7. FirstInv'
    BY <1>1, <1>2, <1>3, <1>5, FirstAfter
<1>8. RegInv' /\ CancelInv'
    BY <1>1, <1>2, <1>3, RegisteredAfter
<1>9. /\ m \in Counted /\ m = wire_in[1] /\ 1 \in DOMAIN wire_in /\ wire_in' \in Seq(Counted)
      /\ rest = pending_to_strategy_ /\ Msgs(rest) \in Seq(Counted) /\ Parked = Msgs(rest)
    BY <1>0, OffWireFacts
<1>10. \A i, T : /\ Behind(wire_in, 0, i, T) = Weight(m, i, T) + Behind(wire_in', 0, i, T)
                 /\ Behind(wire_in, 1, i, T) = Behind(wire_in', 0, i, T)
    BY <1>0, OffWireFacts
<1>11. [msg |-> m, order |-> s] \in Pending
    BY <1>4 DEF Pending
<1>12. PICK w \in Pending : w = [msg |-> m, order |-> s] /\ w.msg = m /\ w.order = s
    BY <1>11
<1>13. pending_to_strategy_' = Append(rest, w) /\ Parked' = Append(Msgs(rest), m)
  <2>1. pending_to_strategy_' = Append(rest, w)
      BY <1>12
  <2>2. Parked' = Msgs(Append(rest, w))
      BY <2>1 DEF Parked, Msgs
  <2> QED BY <2>1, <2>2, <1>4, <1>12, MsgsAppend
<1>14. PICK q \in Seq(Counted) : q = Msgs(rest) /\ Len(q) = Len(rest) /\ Len(q) \in Nat
    BY <1>4, <1>9, MsgsFacts
<1>15. ASSUME NEW i, NEW T
       PROVE  /\ \A k \in 0..Len(q) : Behind(Parked', k, i, T) = Behind(q, k, i, T) + Weight(m, i, T)
              /\ Behind(Parked', Len(q) + 1, i, T) = 0
  <2>1. /\ \A k \in 0..Len(q) : Behind(Append(q, m), k, i, T) = Behind(q, k, i, T) + Weight(m, i, T)
        /\ Behind(Append(q, m), Len(q) + 1, i, T) = 0
      BY <1>9, BehindAppend
  <2> QED BY <2>1, <1>13, <1>14
<1>16. \A i, T : Weight(m, i, T) \in Nat
    BY <1>4 DEF Weight
<1>17. PICK z \in Nat : z = 0
    OBVIOUS
<1>18. ASSUME NEW i, NEW T PROVE Behind(wire_in', 0, i, T) \in Nat /\ \A k \in Nat : Behind(q, k, i, T) \in Nat
    BY <1>9, <1>17, BehindNat
<1>19. /\ DOMAIN rest = 1..Len(rest) /\ Len(rest) \in Nat /\ DOMAIN pending_to_strategy_' = 1..Len(rest) + 1
       /\ pending_to_strategy_'[Len(rest) + 1] = w /\ \A k \in DOMAIN rest : pending_to_strategy_'[k] = rest[k]
    BY <1>4, <1>13, AppendFacts
<1> DEFINE C == {"Executed", "Cancelled"}
<1>20. ParkInv'
  <2>1. ASSUME NEW k \in DOMAIN pending_to_strategy_'
        PROVE  LET x == pending_to_strategy_'[k].msg
               IN /\ Token(pending_to_strategy_'[k].order) = x.token /\ x.type # "Accepted"
                  /\ x.type = "Cancelled" => ex[x.id].leaves + Behind(Parked', k, x.id, C) + Behind(wire_in', 0, x.id, C) = 0
    <3>1. CASE k = Len(rest) + 1
      <4>1. pending_to_strategy_'[k] = w
          BY <3>1, <1>19
      <4>2. ASSUME m.type = "Cancelled"
            PROVE  ex[m.id].leaves + Behind(Parked', k, m.id, C) + Behind(wire_in', 0, m.id, C) = 0
        <5>1. m.leaves - m.qty = ex[m.id].leaves + Behind(wire_in, 1, m.id, C)
            BY <4>2, <1>0, <1>9 DEF AheadInv
        <5>2. m.leaves = m.qty
            BY <4>2, <1>4 DEF Sized
        <5>3. m.id \in DOMAIN ex
            BY <1>4 DEF Fits
        <5>4. PICK e \in Nat : e = ex[m.id].leaves
            BY <5>3, <1>0, Consts DEF SizeInv
        <5>5. PICK b \in Nat : b = Behind(wire_in', 0, m.id, C)
            BY <1>18
        <5>6. 0 = e + b
          <6>1. m.qty - m.qty = e + b
              BY <5>1, <5>2, <5>4, <5>5, <1>10
          <6>2. m.qty - m.qty = 0
              BY <1>4
          <6> QED BY <6>1, <6>2
        <5>7. Behind(Parked', k, m.id, C) = 0
            BY <3>1, <1>14, <1>15
        <5>8. e + 0 + b = 0
            BY <5>6
        <5> QED BY <5>4, <5>5, <5>7, <5>8
      <4> QED BY <4>1, <4>2, <1>12
    <3>2. CASE k \in DOMAIN rest
      <4>1. pending_to_strategy_'[k] = pending_to_strategy_[k] /\ k \in DOMAIN pending_to_strategy_
          BY <3>2, <1>9, <1>19
      <4>2. PICK x \in Pending : x = pending_to_strategy_[k]
          BY <4>1, <1>4, <1>9
      <4>3. Token(x.order) = x.msg.token /\ x.msg.type # "Accepted"
          BY <4>1, <4>2, <1>0 DEF ParkInv
      <4>4. ASSUME x.msg.type = "Cancelled"
            PROVE  ex[x.msg.id].leaves + Behind(Parked', k, x.msg.id, C) + Behind(wire_in', 0, x.msg.id, C) = 0
        <5>1. PICK i : i = x.msg.id
            OBVIOUS
        <5>2. ex[i].leaves + Behind(Parked, k, i, C) + Behind(wire_in, 0, i, C) = 0
            BY <4>1, <4>2, <4>4, <5>1, <1>0 DEF ParkInv
        <5>3. i \in DOMAIN ex
            BY <4>1, <4>2, <5>1, <1>0 DEF MessageInv, Fits
        <5>4. PICK e \in Nat : e = ex[i].leaves
            BY <5>3, <1>0, Consts DEF SizeInv
        <5>5. k \in 0..Len(q) /\ k \in Nat
            BY <3>2, <1>14, <1>19
        <5>6. PICK a \in Nat, b \in Nat, v \in Nat : a = Behind(q, k, i, C) /\ b = Behind(wire_in', 0, i, C) /\ v = Weight(m, i, C)
            BY <5>5, <1>16, <1>18
        <5>7. Behind(Parked', k, i, C) = a + v
            BY <5>5, <5>6, <1>15
        <5>8. Behind(Parked, k, i, C) = a /\ Behind(wire_in, 0, i, C) = v + b
            BY <5>6, <1>9, <1>10, <1>14
        <5>9. e + a + (v + b) = 0
            BY <5>2, <5>4, <5>8
        <5>10. e + (a + v) + b = 0
            BY <5>9
        <5> QED BY <5>1, <5>4, <5>6, <5>7, <5>10
      <4> QED BY <4>1, <4>2, <4>3, <4>4
    <3>3. k = Len(rest) + 1 \/ k \in DOMAIN rest
        BY <1>19
    <3> QED BY <3>1, <3>2, <3>3
  <2>2. \A k : Token(pending_to_strategy_[k].order)' = Token(pending_to_strategy_'[k].order)
      BY <1>1 DEF Token
  <2> QED BY <2>1, <2>2, <1>1 DEF ParkInv
<1>21. BalanceInv'
  <2>1. ASSUME NEW i, NEW T PROVE Transit(i, T)' = Transit(i, T)
    <3>1. PICK a \in Nat, b \in Nat, v \in Nat : a = Behind(q, z, i, T) /\ b = Behind(wire_in', 0, i, T) /\ v = Weight(m, i, T)
        BY <1>16, <1>18
    <3>2. z \in 0..Len(q)
        BY <1>14, <1>17
    <3>3. Behind(Parked', z, i, T) = a + v
        BY <3>1, <3>2, <1>15
    <3>4. Behind(Parked, z, i, T) = a /\ Behind(wire_in, 0, i, T) = v + b
        BY <3>1, <1>9, <1>10, <1>14
    <3>5. Transit(i, T)' = b + (a + v)
        BY <3>1, <3>3, <1>17 DEF Transit
    <3>6. Transit(i, T) = (v + b) + a
        BY <3>4, <1>17 DEF Transit
    <3>7. b + (a + v) = (v + b) + a
        OBVIOUS
    <3> QED BY <3>5, <3>6, <3>7
  <2> QED BY <2>1, <1>0, <1>1 DEF BalanceInv
<1> QED BY <1>6, <1>7, <1>8, <1>20, <1>21 DEF Ledger

\* What is under way once m is handled and not parked.
LEMMA TransitAfter ==
  ASSUME TypeInv, SizeInv, NEW m, NEW rest, Off(m, rest), pending_to_strategy_' = rest, NEW i, NEW T
  PROVE  /\ Weight(m, i, T) \in Nat /\ Transit(i, T)' \in Nat /\ Transit(i, T) = Weight(m, i, T) + Transit(i, T)'
         /\ Transit(i, T)' = Behind(wire_in', 0, i, T) + Behind(Msgs(rest), 0, i, T)
         /\ Behind(wire_in', 0, i, T) \in Nat /\ Behind(Msgs(rest), 0, i, T) \in Nat
<1>1. Accounts(m, rest)
    BY OffAccounts
<1>2. Parked' = Msgs(rest)
    BY DEF Parked, Msgs
<1>3. Transit(i, T)' = Behind(wire_in', 0, i, T) + Behind(Msgs(rest), 0, i, T)
    BY <1>2 DEF Transit
<1>4. /\ Weight(m, i, T) \in Nat /\ Behind(wire_in', 0, i, T) \in Nat /\ Behind(Msgs(rest), 0, i, T) \in Nat
      /\ Transit(i, T) = Weight(m, i, T) + (Behind(wire_in', 0, i, T) + Behind(Msgs(rest), 0, i, T))
    BY <1>1 DEF Accounts
<1> QED BY <1>3, <1>4

\* A message that changes no quantity of a registered order, or whose order
\* the store missed.
LEMMA StoreKeeps ==
  ASSUME IInv, Ledger, NEW m, NEW rest, Off(m, rest), pending_to_strategy_' = rest, Elsewhere,
         \A s \in Slots : /\ order_pool_'[s].quantity = order_pool_[s].quantity
                          /\ order_pool_'[s].filled_quantity = order_pool_[s].filled_quantity
                          /\ order_pool_'[s].remaining_quantity = order_pool_[s].remaining_quantity
                          /\ order_pool_'[s].order_id = order_pool_[s].order_id
                          /\ order_pool_'[s].client_order_id = order_pool_[s].client_order_id,
         our_orders_' = our_orders_, missed \subseteq missed',
         \/ m.type \in {"Rejected", "CancelReject"}
         \/ m.token \in missed' /\ (flow = "FIX" => m.id \notin DOMAIN our_orders_)
  PROVE  Ledger'
<1>0. TypeInv /\ MapInv /\ SizeInv /\ BalanceInv
    BY DEF IInv, Ledger
<1>1. flow' = flow /\ ex' = ex
    BY DEF Elsewhere
<1>2. \A s \in Slots : Token(s)' = Token(s) /\ Id(s)' = Id(s)
    BY DEF Token, Id
<1>3. m \in Messages /\ Fits(m)
    BY OffMessage
<1>4. Later(m, rest)
    BY DEF Later
<1>5. SizeInv' /\ NameInv' /\ AheadInv'
  <2>1. \A s \in Slots : order_pool_'[s].quantity \in 0..QtyMod - 1
      BY <1>0 DEF SizeInv
  <2> QED BY <2>1, <1>4, WiresAfter
<1>6. FirstInv'
    BY <1>2, <1>4, FirstAfter
<1>7. RegInv' /\ CancelInv'
    BY <1>2, RegisteredAfter
<1>8. ParkInv'
    BY <1>2, ParkedAfter
<1>9. BalanceInv'
  <2> DEFINE E == {"Executed"}
             C == {"Executed", "Cancelled"}
  <2> SUFFICES ASSUME NEW i \in DOMAIN our_orders_, flow = "FIX" \/ ex[i].token \notin missed'
               PROVE  /\ order_pool_'[our_orders_[i]].filled_quantity + Transit(i, E)' = ex[i].filled
                      /\ order_pool_'[our_orders_[i]].remaining_quantity = ex[i].leaves + Transit(i, C)'
                      /\ order_pool_'[our_orders_[i]].remaining_quantity < QtyMod
      BY <1>1 DEF BalanceInv
  <2>1. our_orders_[i] \in Slots
      BY <1>0 DEF MapInv
  <2>2. Weight(m, i, E) = 0 /\ Weight(m, i, C) = 0
    <3>1. CASE i = m.id
      <4>1. i \in DOMAIN ex /\ i # 0
        <5>1. ex \in Seq(Book)
            BY <1>0 DEF TypeInv, Book
        <5>2. 0 \notin DOMAIN ex
            BY <5>1
        <5> QED BY <5>2, <1>0 DEF MapInv
      <4>2. ex[i].token = m.token
          BY <3>1, <4>1, <1>3 DEF Fits
      <4>3. m.type \in {"Rejected", "CancelReject"}
          BY <3>1, <4>2
      <4> QED BY <4>3 DEF Weight
    <3>2. CASE i # m.id
        BY <3>2 DEF Weight
    <3> QED BY <3>1, <3>2
  <2>3. ASSUME NEW T, Weight(m, i, T) = 0 PROVE Transit(i, T)' = Transit(i, T)
    <3>1. Transit(i, T)' \in Nat /\ Transit(i, T) = Weight(m, i, T) + Transit(i, T)'
        BY <1>0, TransitAfter
    <3> QED BY <3>1, <2>3
  <2>4. Transit(i, E)' = Transit(i, E) /\ Transit(i, C)' = Transit(i, C)
      BY <2>2, <2>3
  <2>5. /\ order_pool_[our_orders_[i]].filled_quantity + Transit(i, E) = ex[i].filled
        /\ order_pool_[our_orders_[i]].remaining_quantity = ex[i].leaves + Transit(i, C)
        /\ order_pool_[our_orders_[i]].remaining_quantity < QtyMod
      BY <1>0 DEF BalanceInv
  <2> HIDE DEF E, C
  <2> QED BY <2>1, <2>4, <2>5
<1> QED BY <1>5, <1>6, <1>7, <1>8, <1>9 DEF Ledger

\* The quantities a filler writes.
Amounts(f, o, m) ==
    /\ m.type = "Accepted" => /\ f.quantity = m.qty /\ f.remaining_quantity = m.qty
                              /\ f.filled_quantity = IF flow = "NASDAQ" THEN 0 ELSE o.filled_quantity
    /\ m.type # "Accepted" => f.quantity = o.quantity
    /\ m.type = "Executed" =>
          IF flow = "FIX" THEN f.filled_quantity = m.filled /\ f.remaining_quantity = m.leaves
          ELSE f.filled_quantity = o.filled_quantity + m.qty /\ f.remaining_quantity = Sub(o.remaining_quantity, m.qty)
    /\ m.type = "Cancelled" =>
          /\ f.filled_quantity = IF flow = "FIX" THEN m.filled ELSE o.filled_quantity
          /\ f.remaining_quantity = IF flow = "NASDAQ" THEN Sub(o.remaining_quantity, m.qty) ELSE 0

LEMMA FilledAmounts ==
  ASSUME NEW o \in Orders, NEW m \in Messages, m.type \in {"Accepted", "Executed", "Cancelled"},
         flow \in {"FIX", "BIST", "NASDAQ"}
  PROVE  Amounts(Filled(o, m), o, m)
<1>1. CASE m.type = "Accepted"
  <2> DEFINE fq == IF flow = "NASDAQ" THEN 0 ELSE o.filled_quantity
             sy == IF flow = "FIX" THEN "NewSeen" ELSE o.syncState
             f == [o EXCEPT !.quantity = m.qty, !.remaining_quantity = m.qty, !.status = "New", !.order_id = m.id,
                            !.filled_quantity = fq, !.syncState = sy]
  <2>1. Filled(o, m) = f
      BY <1>1 DEF Filled, fill_accepted
  <2> HIDE DEF fq, sy
  <2>2. f.quantity = m.qty /\ f.remaining_quantity = m.qty /\ f.filled_quantity = fq
      BY DEF Orders
  <2> QED BY <2>1, <2>2, <1>1 DEF Amounts, fq
<1>2. CASE m.type = "Executed"
  <2>1. CASE flow = "FIX"
    <3> DEFINE st == IF m.leaves > 0 THEN "Partial" ELSE "Filled"
               f == [o EXCEPT !.filled_quantity = m.filled, !.remaining_quantity = m.leaves, !.status = st]
    <3>1. Filled(o, m) = f
        BY <1>2, <2>1 DEF Filled, fill_executed
    <3> HIDE DEF st
    <3>2. f.quantity = o.quantity /\ f.remaining_quantity = m.leaves /\ f.filled_quantity = m.filled
        BY DEF Orders
    <3> QED BY <3>1, <3>2, <2>1, <1>2 DEF Amounts
  <2>2. CASE flow # "FIX"
    <3> DEFINE st == IF o.filled_quantity + m.qty < o.quantity THEN "Partial" ELSE "Filled"
               fq == o.filled_quantity + m.qty
               rq == Sub(o.remaining_quantity, m.qty)
               f == [o EXCEPT !.filled_quantity = fq, !.remaining_quantity = rq, !.status = st]
    <3>1. Filled(o, m) = f
        BY <1>2, <2>2 DEF Filled, fill_executed
    <3> HIDE DEF st, fq, rq
    <3>2. f.quantity = o.quantity /\ f.remaining_quantity = rq /\ f.filled_quantity = fq
        BY DEF Orders
    <3> QED BY <3>1, <3>2, <2>2, <1>2 DEF Amounts, fq, rq
  <2> QED BY <2>1, <2>2
<1>3. CASE m.type = "Cancelled"
  <2> DEFINE st == IF flow = "NASDAQ" THEN "Cancelled" ELSE "Deleted"
             fq == IF flow = "FIX" THEN m.filled ELSE o.filled_quantity
             rq == IF flow = "NASDAQ" THEN Sub(o.remaining_quantity, m.qty) ELSE 0
             f == [o EXCEPT !.filled_quantity = fq, !.remaining_quantity = rq, !.status = st]
  <2>1. Filled(o, m) = fill_cancelled(o, m)
      BY <1>3 DEF Filled
  <2>2. fill_cancelled(o, m) = f
    <3>1. CASE flow = "NASDAQ"
        BY <3>1 DEF fill_cancelled, Orders
    <3>2. CASE flow = "BIST"
        BY <3>2 DEF fill_cancelled, Orders
    <3>3. CASE flow = "FIX"
        BY <3>3 DEF fill_cancelled, Orders
    <3> QED BY <3>1, <3>2, <3>3
  <2> HIDE DEF st, fq, rq
  <2>3. f.quantity = o.quantity /\ f.remaining_quantity = rq /\ f.filled_quantity = fq
      BY DEF Orders
  <2> QED BY <2>1, <2>2, <2>3, <1>3 DEF Amounts, fq, rq
<1> QED BY <1>1, <1>2, <1>3

\* No quantity wraps that is not below what is taken off.
LEMMA SubExact ==
  ASSUME NEW r \in Int, NEW q \in Nat, q <= r, r < QtyMod
  PROVE  Sub(r, q) = r - q
<1>1. PICK d \in Int : d = r - q
    OBVIOUS
<1>2. d >= 0 /\ d < QtyMod
    BY <1>1, Consts
<1>3. d % QtyMod = d
    BY <1>2, Consts
<1> QED BY <1>1, <1>3 DEF Sub

\* The rest of an order: what m took off is no longer under way.
LEMMA FillTakesOff ==
  ASSUME NEW r \in Int, NEW q \in Nat, NEW l \in Nat, NEW b \in Nat, r < QtyMod, r = l + (q + b)
  PROVE  Sub(r, q) = l + b /\ Sub(r, q) < QtyMod
<1>1. q <= r /\ r - q = l + b /\ r - q <= r
    OBVIOUS
<1>2. Sub(r, q) = r - q
    BY <1>1, SubExact
<1>3. r - q < QtyMod
    BY <1>1, Consts
<1> QED BY <1>1, <1>2, <1>3

\* The order m is about, once the filler has written: its balance is kept.
LEMMA FilledBalance ==
  ASSUME IInv, Ledger, NEW m, NEW rest, Off(m, rest), pending_to_strategy_' = rest,
         m.type \in {"Accepted", "Executed", "Cancelled"}, NEW s \in Slots, Token(s) = m.token,
         NEW f, Amounts(f, order_pool_[s], m), Fill(s, f, rest), flow = "FIX" \/ m.token \notin missed'
  PROVE  /\ f.filled_quantity + Transit(m.id, {"Executed"})' = ex[m.id].filled
         /\ f.remaining_quantity = ex[m.id].leaves + Transit(m.id, {"Executed", "Cancelled"})'
         /\ f.remaining_quantity < QtyMod
<1>0. /\ TypeInv /\ WireInv /\ MessageInv /\ TokenInv /\ MapInv
      /\ SizeInv /\ FirstInv /\ RegInv /\ AheadInv /\ ParkInv /\ BalanceInv
    BY DEF IInv, Ledger
<1> DEFINE E == {"Executed"}
           C == {"Executed", "Cancelled"}
<1>1. /\ m \in Messages /\ Fits(m) /\ Sized(m) /\ m.qty \in Nat /\ rest \in Seq(Pending)
      /\ \A k \in DOMAIN wire_in : wire_in[k].type = "Accepted" /\ wire_in[k].id = m.id => m.type = "Accepted"
      /\ m.type = "Accepted" => OffWire(m, rest)
    BY OffMessage
<1>2. PICK i \in DOMAIN ex : i = m.id /\ i # 0 /\ ex[i].token = m.token
    BY <1>1 DEF Fits
<1>3. PICK o \in Orders : o = order_pool_[s]
    BY <1>0 DEF TypeInv
<1>4. o.filled_quantity \in Int /\ o.remaining_quantity \in Int /\ o.quantity \in Int
    BY DEF Orders
<1>5. PICK e \in Nat, l \in Nat : e = ex[i].filled /\ l = ex[i].leaves
  <2>1. ex[i].filled \in Nat /\ ex[i].leaves \in Nat
      BY <1>0, Consts DEF SizeInv
  <2> QED BY <2>1
<1>6. PICK we \in Nat, wc \in Nat : we = Weight(m, i, E) /\ wc = Weight(m, i, C)
    BY <1>0, TransitAfter
<1>7. PICK a \in Nat, p \in Nat : a = Behind(wire_in', 0, i, E) /\ p = Behind(Msgs(rest), 0, i, E)
    BY <1>0, TransitAfter
<1>8. PICK b \in Nat, r \in Nat : b = Behind(wire_in', 0, i, C) /\ r = Behind(Msgs(rest), 0, i, C)
    BY <1>0, TransitAfter
<1>9. Transit(i, E)' = a + p /\ Transit(i, C)' = b + r
    BY <1>0, <1>7, <1>8, TransitAfter
<1>10. Transit(i, E) = we + (a + p) /\ Transit(i, C) = wc + (b + r)
  <2>1. Transit(i, E) = Weight(m, i, E) + Transit(i, E)' /\ Transit(i, C) = Weight(m, i, C) + Transit(i, C)'
      BY <1>0, TransitAfter
  <2> QED BY <2>1, <1>6, <1>9
<1>11. /\ we = IF m.type = "Executed" THEN m.qty ELSE 0
       /\ wc = IF m.type \in {"Executed", "Cancelled"} THEN m.qty ELSE 0
    BY <1>2, <1>6 DEF Weight
<1>12. OffWire(m, rest) =>
          /\ m.filled + a = e
          /\ m.leaves - (IF m.type = "Cancelled" THEN m.qty ELSE 0) = l + b
  <2> SUFFICES ASSUME OffWire(m, rest)
               PROVE  /\ m.filled + a = e
                      /\ m.leaves - (IF m.type = "Cancelled" THEN m.qty ELSE 0) = l + b
      OBVIOUS
  <2>1. /\ m = wire_in[1] /\ 1 \in DOMAIN wire_in
        /\ \A j, T : Behind(wire_in, 1, j, T) = Behind(wire_in', 0, j, T)
      BY <1>0, OffWireFacts
  <2>2. /\ m.filled + Behind(wire_in, 1, i, E) = ex[i].filled
        /\ m.leaves - (IF m.type = "Cancelled" THEN m.qty ELSE 0) = ex[i].leaves + Behind(wire_in, 1, i, C)
      BY <2>1, <1>0, <1>2 DEF AheadInv
  <2>3. Behind(wire_in, 1, i, E) = a /\ Behind(wire_in, 1, i, C) = b
      BY <2>1, <1>7, <1>8
  <2> QED BY <2>2, <2>3, <1>5
<1>13. m.filled \in Nat /\ m.leaves \in Nat /\ m.leaves < QtyMod /\ m.qty < QtyMod /\ QtyMod > 0
    BY <1>1, Consts DEF Sized
\* Nothing of the order is parked.
<1>14. (\A k \in DOMAIN rest : rest[k].msg.id # i) => p = 0 /\ r = 0
  <2> SUFFICES ASSUME \A k \in DOMAIN rest : rest[k].msg.id # i PROVE p = 0 /\ r = 0
      OBVIOUS
  <2>1. PICK q \in Seq(Counted) : q = Msgs(rest)
      BY <1>0, OffWireFacts, OffPendingFacts DEF Off
  <2>2. DOMAIN q = DOMAIN rest /\ \A k \in DOMAIN rest : q[k] = rest[k].msg
      BY <2>1, <1>1, MsgsFacts
  <2>3. ASSUME NEW T PROVE Behind(q, 0, i, T) = 0
    <3>1. PICK z \in Nat : z = 0
        OBVIOUS
    <3>2. \A k \in DOMAIN q : k > z => Weight(q[k], i, T) = 0
        BY <2>2 DEF Weight
    <3>3. Behind(q, z, i, T) = 0
        BY <3>2, BehindNone
    <3> QED BY <3>1, <3>3
  <2> QED BY <2>1, <2>3, <1>7, <1>8
<1> HIDE DEF E, C
<1>15. /\ m.type = "Accepted" => /\ f.quantity = m.qty /\ f.remaining_quantity = m.qty
                                 /\ f.filled_quantity = IF flow = "NASDAQ" THEN 0 ELSE o.filled_quantity
       /\ m.type = "Executed" =>
             IF flow = "FIX" THEN f.filled_quantity = m.filled /\ f.remaining_quantity = m.leaves
             ELSE f.filled_quantity = o.filled_quantity + m.qty /\ f.remaining_quantity = Sub(o.remaining_quantity, m.qty)
       /\ m.type = "Cancelled" =>
             /\ f.filled_quantity = IF flow = "FIX" THEN m.filled ELSE o.filled_quantity
             /\ f.remaining_quantity = IF flow = "NASDAQ" THEN Sub(o.remaining_quantity, m.qty) ELSE 0
    BY <1>3 DEF Amounts
<1>16. SUFFICES f.filled_quantity + (a + p) = e /\ f.remaining_quantity = l + (b + r) /\ f.remaining_quantity < QtyMod
    BY <1>2, <1>5, <1>9 DEF E, C
<1>17. CASE m.type = "Accepted"
  <2>1. OffWire(m, rest) /\ m = wire_in[1] /\ 1 \in DOMAIN wire_in /\ rest = pending_to_strategy_
      BY <1>17, <1>0, <1>1, OffWireFacts
  <2>2. \A k \in DOMAIN rest : rest[k].msg.id # i
      BY <2>1, <1>0, <1>2, <1>17 DEF FirstInv
  <2>3. o.filled_quantity = 0
      BY <2>1, <1>0, <1>3, <1>17 DEF FirstInv
  <2>4. m.filled = 0 /\ m.qty = m.leaves
      BY <1>1, <1>17 DEF Sized
  <2>5. f.filled_quantity = 0 /\ f.remaining_quantity = m.qty
      BY <2>3, <1>15, <1>17
  <2>6. 0 + a = e /\ m.leaves = l + b
    <3>1. m.filled + a = e /\ m.leaves - 0 = l + b
        BY <2>1, <1>12, <1>17
    <3> QED BY <3>1, <2>4, <1>13
  <2>7. p = 0 /\ r = 0
      BY <2>2, <1>14
  <2> QED BY <2>4, <2>5, <2>6, <2>7, <1>13
<1>18. CASE flow = "FIX" /\ m.type # "Accepted"
  <2>1. \A k \in DOMAIN pending_to_strategy_ : FALSE
      BY <1>0, <1>18 DEF MessageInv
  <2>2. OffWire(m, rest)
      BY <2>1, <1>0, OffPendingFacts DEF Off
  <2>3. rest = pending_to_strategy_
      BY <2>2 DEF OffWire
  <2>4. p = 0 /\ r = 0
      BY <2>1, <2>3, <1>14
  <2>5. CASE m.type = "Executed"
    <3>1. m.filled + a = e /\ m.leaves - 0 = l + b
        BY <2>2, <2>5, <1>12
    <3>2. f.filled_quantity = m.filled /\ f.remaining_quantity = m.leaves
        BY <2>5, <1>15, <1>18
    <3> QED BY <3>1, <3>2, <2>4, <1>13
  <2>6. CASE m.type = "Cancelled"
    <3>1. m.filled + a = e /\ m.leaves - m.qty = l + b
        BY <2>2, <2>6, <1>12
    <3>2. f.filled_quantity = m.filled /\ f.remaining_quantity = 0
        BY <2>6, <1>15, <1>18
    <3>3. m.leaves = m.qty
        BY <2>6, <1>1, <1>18 DEF Sized
    <3> QED BY <3>1, <3>2, <3>3, <2>4, <1>13
  <2> QED BY <2>5, <2>6, <1>18
<1>19. CASE flow # "FIX" /\ m.type # "Accepted"
  <2>1. missed \subseteq missed' /\ m.token \notin missed'
      BY <1>19 DEF Fill
  \* The order was registered before: its Accepted message was handled.
  <2>2. i \in DOMAIN our_orders_
      BY <2>1, <1>0, <1>1, <1>2, <1>19 DEF RegInv
  <2>3. our_orders_[i] = s
    <3>1. our_orders_[i] \in Slots /\ Token(our_orders_[i]) = Token(s)
        BY <2>2, <1>0, <1>2 DEF MapInv
    <3>2. Token(s) # 0
      <4>1. m.token \in Taken
          BY <1>2 DEF Taken
      <4> QED BY <4>1, <1>0 DEF WireInv, Sent
    <3> QED BY <3>1, <3>2, <1>0 DEF TokenInv
  <2>4. /\ o.filled_quantity + (we + (a + p)) = e
        /\ o.remaining_quantity = l + (wc + (b + r)) /\ o.remaining_quantity < QtyMod
    <3>1. ex[i].token \notin missed
        BY <2>1, <1>2
    <3>2. /\ order_pool_[our_orders_[i]].filled_quantity + Transit(i, E) = ex[i].filled
          /\ order_pool_[our_orders_[i]].remaining_quantity = ex[i].leaves + Transit(i, C)
          /\ order_pool_[our_orders_[i]].remaining_quantity < QtyMod
        BY <2>2, <3>1, <1>0 DEF BalanceInv, E, C
    <3> QED BY <3>2, <2>3, <1>3, <1>5, <1>10
  <2>5. PICK x \in Nat, y \in Nat : x = a + p /\ y = b + r
      OBVIOUS
  <2>6. CASE m.type = "Executed"
    <3>1. we = m.qty /\ wc = m.qty
        BY <2>6, <1>11
    <3>2. f.filled_quantity = o.filled_quantity + m.qty /\ f.remaining_quantity = Sub(o.remaining_quantity, m.qty)
        BY <2>6, <1>15, <1>19
    <3>3. /\ o.remaining_quantity = l + (m.qty + y) /\ o.filled_quantity + (m.qty + x) = e
        BY <3>1, <2>4, <2>5
    <3>4. Sub(o.remaining_quantity, m.qty) = l + y /\ Sub(o.remaining_quantity, m.qty) < QtyMod
      <4>1. PICK t \in Int, n \in Nat : t = o.remaining_quantity /\ n = m.qty
          BY <1>1, <1>4
      <4>2. t < QtyMod /\ t = l + (n + y)
          BY <4>1, <3>3, <2>4
      <4>3. Sub(t, n) = l + y /\ Sub(t, n) < QtyMod
          BY <4>2, FillTakesOff
      <4> QED BY <4>1, <4>3
    <3>5. (o.filled_quantity + m.qty) + x = e
        BY <3>3, <1>1, <1>4
    <3> QED BY <3>2, <3>4, <3>5, <2>5
  <2>7. CASE m.type = "Cancelled" /\ flow = "NASDAQ"
    <3>1. we = 0 /\ wc = m.qty
        BY <2>7, <1>11
    <3>2. f.filled_quantity = o.filled_quantity /\ f.remaining_quantity = Sub(o.remaining_quantity, m.qty)
        BY <2>7, <1>15
    <3>3. o.remaining_quantity = l + (m.qty + y) /\ o.filled_quantity + (0 + x) = e
        BY <3>1, <2>4, <2>5
    <3>4. Sub(o.remaining_quantity, m.qty) = l + y /\ Sub(o.remaining_quantity, m.qty) < QtyMod
      <4>1. PICK t \in Int, n \in Nat : t = o.remaining_quantity /\ n = m.qty
          BY <1>1, <1>4
      <4>2. t < QtyMod /\ t = l + (n + y)
          BY <4>1, <3>3, <2>4
      <4>3. Sub(t, n) = l + y /\ Sub(t, n) < QtyMod
          BY <4>2, FillTakesOff
      <4> QED BY <4>1, <4>3
    <3>5. o.filled_quantity + x = e
        BY <3>3
    <3> QED BY <3>2, <3>4, <3>5, <2>5
  <2>8. CASE m.type = "Cancelled" /\ flow # "NASDAQ"
    <3>1. we = 0
        BY <2>8, <1>11
    <3>2. f.filled_quantity = o.filled_quantity /\ f.remaining_quantity = 0
        BY <2>8, <1>15, <1>19
    <3>3. o.filled_quantity + (0 + x) = e
        BY <3>1, <2>4, <2>5
    <3>4. o.filled_quantity + x = e
        BY <3>3
    <3>5. l + (b + r) = 0
      <4>1. CASE OffWire(m, rest)
        <5>1. m.leaves - m.qty = l + b
            BY <4>1, <2>8, <1>12
        <5>2. m.leaves = m.qty
            BY <2>8, <1>1 DEF Sized
        <5>3. \A k \in DOMAIN rest : rest[k].msg.id # i
          <6> SUFFICES ASSUME NEW k \in DOMAIN rest, rest[k].msg.id = i PROVE FALSE
              OBVIOUS
          <6>1. rest = pending_to_strategy_
              BY <4>1 DEF OffWire
          <6>2. rest[k].msg.token = m.token
              BY <6>1, <1>0, <1>2 DEF MessageInv, Fits
          <6>3. Token(rest[k].order) = m.token
              BY <6>1, <6>2, <1>0 DEF ParkInv
          <6>4. rest[k].order \in Slots /\ k \in 1..Len(rest)
            <7>1. rest[k] \in Pending /\ k \in 1..Len(rest)
                BY <1>1
            <7> QED BY <7>1 DEF Pending
          <6>5. Token(s) # 0
            <7>1. m.token \in Taken
                BY <1>2 DEF Taken
            <7> QED BY <7>1, <1>0 DEF WireInv, Sent
          <6>6. rest[k].order = s
              BY <6>3, <6>4, <6>5, <1>0 DEF TokenInv
          <6>7. missed' = missed \cup {rest[j].msg.token : j \in {n \in 1..Len(rest) : rest[n].order = s}}
              BY <6>1 DEF Fill
          <6>8. rest[k].msg.token \in missed'
              BY <6>4, <6>6, <6>7
          <6> QED BY <6>2, <6>8, <2>1
        <5>4. r = 0
            BY <5>3, <1>14
        <5> QED BY <5>1, <5>2, <5>4, <1>13
      <4>2. CASE OffPending(m, rest)
        <5>1. /\ m = pending_to_strategy_[1].msg /\ 1 \in DOMAIN pending_to_strategy_ /\ wire_in' = wire_in
              /\ \A j, T : Behind(Parked, 1, j, T) = Behind(Msgs(rest), 0, j, T)
            BY <4>2, <1>0, OffPendingFacts
        <5>2. ex[i].leaves + Behind(Parked, 1, i, C) + Behind(wire_in, 0, i, C) = 0
            BY <5>1, <2>8, <1>0, <1>2 DEF ParkInv, C
        <5>3. Behind(Parked, 1, i, C) = r /\ Behind(wire_in, 0, i, C) = b
            BY <5>1, <1>8
        <5>4. l + r + b = 0
            BY <5>2, <5>3, <1>5
        <5> QED BY <5>4
      <4> QED BY <4>1, <4>2 DEF Off
    <3> QED BY <3>2, <3>4, <3>5, <2>5, <1>13
  <2> QED BY <2>6, <2>7, <2>8, <1>19
<1> QED BY <1>17, <1>18, <1>19

\* A filler writes the order m is about, which is or becomes registered.
LEMMA FillLedger ==
  ASSUME IInv, Ledger, NEW m, NEW rest, Off(m, rest), pending_to_strategy_' = rest, Elsewhere,
         m.type \in {"Accepted", "Executed", "Cancelled"}, NEW s \in Slots, Token(s) = m.token,
         Fill(s, Filled(order_pool_[s], m), rest),
         our_orders_' = our_orders_ \/ our_orders_' = With(our_orders_, m.id, s),
         m.type = "Accepted" => m.id \in DOMAIN our_orders_'
  PROVE  Ledger'
<1>0. TypeInv /\ WireInv /\ TokenInv /\ MapInv /\ SizeInv /\ NameInv /\ BalanceInv
    BY DEF IInv, Ledger
<1>1. flow' = flow /\ ex' = ex
    BY DEF Elsewhere
<1>2. m \in Messages /\ Fits(m) /\ Sized(m)
    BY OffMessage
<1>3. m.id # 0 /\ m.id \in DOMAIN ex /\ ex[m.id].token = m.token
    BY <1>2 DEF Fits
<1>4. Token(s) # 0
  <2>1. m.token \in Taken
      BY <1>3 DEF Taken
  <2> QED BY <2>1, <1>0 DEF WireInv, Sent
<1>5. order_pool_ \in [Slots -> Orders] /\ order_pool_[s] \in Orders /\ flow \in {"FIX", "BIST", "NASDAQ"}
    BY <1>0 DEF TypeInv
<1>6. PICK f \in Orders : /\ f = Filled(order_pool_[s], m) /\ f.client_order_id = order_pool_[s].client_order_id
                          /\ f.order_id = IF m.type = "Accepted" THEN m.id ELSE order_pool_[s].order_id
    BY <1>2, <1>5, FilledFacts
<1>7. Amounts(f, order_pool_[s], m)
    BY <1>2, <1>5, <1>6, FilledAmounts
<1>8. Fill(s, f, rest)
    BY <1>6
<1>9. missed \subseteq missed'
    BY <1>8 DEF Fill
<1>10. order_pool_'[s] = f /\ \A r \in Slots : r # s => order_pool_'[r] = order_pool_[r]
  <2>1. order_pool_' = [order_pool_ EXCEPT ![s] = f]
      BY <1>8 DEF Fill
  <2> QED BY <2>1, <1>5
<1>11. \A r \in Slots : Token(r)' = Token(r) /\ (r # s => Id(r)' = Id(r)) /\ (m.type # "Accepted" => Id(r)' = Id(r))
    BY <1>6, <1>10 DEF Token, Id
<1>12. /\ DOMAIN our_orders_ \subseteq DOMAIN our_orders_' /\ DOMAIN our_orders_' \subseteq DOMAIN our_orders_ \cup {m.id}
       /\ \A i \in DOMAIN our_orders_' : i # m.id => i \in DOMAIN our_orders_ /\ our_orders_'[i] = our_orders_[i]
       /\ m.id \in DOMAIN our_orders_' => our_orders_'[m.id] = s \/ (m.id \in DOMAIN our_orders_ /\ our_orders_'[m.id] = our_orders_[m.id])
    BY DEF With
<1>13. m.id \in DOMAIN our_orders_' => our_orders_'[m.id] = s
  <2> SUFFICES ASSUME m.id \in DOMAIN our_orders_ PROVE our_orders_[m.id] = s
      BY <1>12
  <2>1. our_orders_[m.id] \in Slots /\ Token(our_orders_[m.id]) = Token(s)
      BY <1>0, <1>3 DEF MapInv
  <2> QED BY <2>1, <1>0, <1>4 DEF TokenInv
<1>14. Later(m, rest)
    BY DEF Later
<1>15. SizeInv' /\ NameInv' /\ AheadInv'
  <2>1. \A r \in Slots : order_pool_[r].quantity \in 0..QtyMod - 1
      BY <1>0 DEF SizeInv
  <2>2. f.quantity \in 0..QtyMod - 1
      BY <2>1, <1>2, <1>7 DEF Amounts, Sized
  <2>3. \A r \in Slots : order_pool_'[r].quantity \in 0..QtyMod - 1
      BY <2>1, <2>2, <1>10
  <2> QED BY <2>3, <1>14, WiresAfter
<1>16. FirstInv'
    BY <1>3, <1>10, <1>11, <1>12, <1>14, FirstAfter
<1>17. RegInv' /\ CancelInv'
  <2>1. \A r \in Slots : /\ Token(r)' = Token(r)
                         /\ Id(r)' = Id(r) \/ (Token(r) = m.token /\ m.id # 0 /\ m.id \in DOMAIN our_orders_')
      BY <1>3, <1>11
  <2> QED BY <2>1, <1>9, <1>12, RegisteredAfter
<1>18. ParkInv'
    BY <1>11, ParkedAfter
<1>19. BalanceInv'
  <2> DEFINE E == {"Executed"}
             C == {"Executed", "Cancelled"}
  <2> SUFFICES ASSUME NEW i \in DOMAIN our_orders_', flow = "FIX" \/ ex[i].token \notin missed'
               PROVE  /\ order_pool_'[our_orders_'[i]].filled_quantity + Transit(i, E)' = ex[i].filled
                      /\ order_pool_'[our_orders_'[i]].remaining_quantity = ex[i].leaves + Transit(i, C)'
                      /\ order_pool_'[our_orders_'[i]].remaining_quantity < QtyMod
      BY <1>1 DEF BalanceInv
  <2>1. CASE i = m.id
    <3>1. flow = "FIX" \/ m.token \notin missed'
        BY <2>1, <1>3
    <3>2. /\ f.filled_quantity + Transit(m.id, E)' = ex[m.id].filled
          /\ f.remaining_quantity = ex[m.id].leaves + Transit(m.id, C)'
          /\ f.remaining_quantity < QtyMod
        BY <3>1, <1>7, <1>8, FilledBalance
    <3>3. order_pool_'[our_orders_'[i]] = f
        BY <2>1, <1>10, <1>13
    <3> HIDE DEF E, C
    <3> QED BY <3>2, <3>3, <2>1
  <2>2. CASE i # m.id
    <3>1. i \in DOMAIN our_orders_ /\ our_orders_'[i] = our_orders_[i]
        BY <2>2, <1>12
    <3>2. i \in DOMAIN ex /\ our_orders_[i] \in Slots /\ Token(our_orders_[i]) = ex[i].token
        BY <3>1, <1>0 DEF MapInv
    <3>3. our_orders_[i] # s
        BY <3>2, <2>2, <1>0, <1>3 DEF NameInv
    <3>4. PICK o : o = order_pool_[our_orders_[i]] /\ o = order_pool_'[our_orders_'[i]]
        BY <3>1, <3>2, <3>3, <1>10
    <3>5. flow = "FIX" \/ ex[i].token \notin missed
        BY <1>9
    <3>6. /\ o.filled_quantity + Transit(i, E) = ex[i].filled
          /\ o.remaining_quantity = ex[i].leaves + Transit(i, C) /\ o.remaining_quantity < QtyMod
        BY <3>1, <3>4, <3>5, <1>0 DEF BalanceInv
    <3>7. ASSUME NEW T PROVE Transit(i, T)' = Transit(i, T)
      <4>1. Transit(i, T)' \in Nat /\ Transit(i, T) = Weight(m, i, T) + Transit(i, T)'
          BY <1>0, TransitAfter
      <4>2. Weight(m, i, T) = 0
          BY <2>2 DEF Weight
      <4> QED BY <4>1, <4>2
    <3>8. Transit(i, E)' = Transit(i, E) /\ Transit(i, C)' = Transit(i, C)
        BY <3>7
    <3> HIDE DEF E, C
    <3> QED BY <3>4, <3>6, <3>8
  <2> QED BY <2>1, <2>2
<1> QED BY <1>15, <1>16, <1>17, <1>18, <1>19 DEF Ledger


-----------------------------------------------------------------------------
(* The store: one lemma per protocol *)

\* The token of a message is one of those under way.
LEMMA OffSent ==
  ASSUME IInv, Ledger, NEW m, NEW rest, Off(m, rest)
  PROVE  m.token \in Sent /\ m.token # 0
<1>0. TypeInv /\ WireInv /\ MessageInv
    BY DEF IInv
<1>1. m \in Messages /\ Fits(m)
    BY OffMessage
<1>2. m.id # 0 => m.token \in Sent
    BY <1>1 DEF Fits, Sent, Taken
<1>3. ASSUME m.id = 0 PROVE m.token \in Sent
  <2>1. OffWire(m, rest)
    <3>1. OffPending(m, rest) => m.id # 0
      <4> SUFFICES ASSUME OffPending(m, rest) PROVE m.id # 0
          OBVIOUS
      <4>1. m = pending_to_strategy_[1].msg /\ 1 \in DOMAIN pending_to_strategy_
        <5>1. SizeInv
            BY DEF Ledger
        <5> QED BY <1>0, <5>1, OffPendingFacts
      <4> QED BY <4>1, <1>0 DEF MessageInv
    <3> QED BY <3>1, <1>3 DEF Off
  <2>2. m = wire_in[1] /\ 1 \in DOMAIN wire_in
    <3>1. SizeInv
        BY DEF Ledger
    <3> QED BY <1>0, <2>1, <3>1, OffWireFacts
  <2> QED BY <2>2, <1>3 DEF Sent, Refused
<1>4. m.token \in Sent
    BY <1>2, <1>3
<1>5. entered \in Nat /\ Sent \subseteq 1..entered
    BY <1>0 DEF TypeInv, WireInv
<1>6. \A t \in 1..entered : t # 0
    BY <1>5
<1> QED BY <1>4, <1>5, <1>6

\* fill_rejected touches no quantity.
LEMMA RejectKeeps ==
  ASSUME TypeInv, NEW s \in Slots, fill_rejected(s)
  PROVE  \A r \in Slots : /\ order_pool_'[r].quantity = order_pool_[r].quantity
                          /\ order_pool_'[r].filled_quantity = order_pool_[r].filled_quantity
                          /\ order_pool_'[r].remaining_quantity = order_pool_[r].remaining_quantity
                          /\ order_pool_'[r].order_id = order_pool_[r].order_id
                          /\ order_pool_'[r].client_order_id = order_pool_[r].client_order_id
<1>1. CASE order_pool_' = order_pool_
    BY <1>1
<1>2. CASE order_pool_' = [order_pool_ EXCEPT ![s].canModify = {}]
  <2>1. order_pool_ \in [Slots -> Orders]
      BY DEF TypeInv
  <2>2. PICK o \in Orders : o = order_pool_[s]
      BY <2>1
  <2>3. PICK p : p = [o EXCEPT !.canModify = {}]
      OBVIOUS
  <2>4. /\ p.quantity = o.quantity /\ p.filled_quantity = o.filled_quantity
        /\ p.remaining_quantity = o.remaining_quantity /\ p.order_id = o.order_id
        /\ p.client_order_id = o.client_order_id
      BY <2>3 DEF Orders
  <2>5. order_pool_'[s] = p /\ \A r \in Slots : r # s => order_pool_'[r] = order_pool_[r]
      BY <1>2, <2>1, <2>2, <2>3
  <2> QED BY <2>2, <2>4, <2>5
<1> QED BY <1>1, <1>2 DEF fill_rejected

LEMMA FixLedger ==
  ASSUME IInv, Ledger, flow = "FIX", NEW m, NEW rest, OffWire(m, rest), Elsewhere, update_FIX(m)
  PROVE  Ledger'
<1>0. TypeInv /\ WireInv /\ MapInv /\ CancelInv /\ SizeInv
    BY DEF IInv, Ledger
<1> DEFINE known == Find(our_orders_, m.id)
           s == IF known # nullptr THEN known ELSE Find(awaitingAck_orders_, m.token)
<1>1. \/ s = nullptr /\ Drop(m) /\ UNCHANGED pending_to_strategy_
      \/ /\ s # nullptr /\ known = nullptr /\ m.type = "Rejected" /\ UNCHANGED pending_to_strategy_
         /\ UNCHANGED <<order_pool_, maps, missed>>
      \/ /\ s # nullptr /\ ~(known = nullptr /\ m.type = "Rejected")
         /\ \/ known = nullptr /\ our_orders_' = With(our_orders_, m.id, s)
            \/ known # nullptr /\ UNCHANGED our_orders_
         /\ UNCHANGED pending_to_strategy_
         /\ \/ m.type = "CancelReject" /\ UNCHANGED <<order_pool_, missed>>
            \/ m.type # "CancelReject" /\ Fill(s, Filled(order_pool_[s], m), pending_to_strategy_)
    BY DEF update_FIX
<1>2. Off(m, rest) /\ rest = pending_to_strategy_ /\ m = wire_in[1] /\ 1 \in DOMAIN wire_in
    BY <1>0, OffWireFacts DEF Off
<1>3. m \in Messages /\ Fits(m) /\ m.token \in Sent
    BY <1>2, OffMessage, OffSent
<1>4. nullptr \notin Slots /\ 0 \notin DOMAIN our_orders_
  <2>1. 0 \notin DOMAIN ex
      BY <1>0 DEF TypeInv
  <2> QED BY <2>1, <1>0, Consts DEF MapInv
<1>5. known # nullptr <=> m.id \in DOMAIN our_orders_
  <2>1. \A i \in DOMAIN our_orders_ : our_orders_[i] \in Slots
      BY <1>0 DEF MapInv
  <2> QED BY <2>1, <1>4 DEF Find
<1>6. s # nullptr /\ m.type # "Rejected" => s \in Slots /\ Token(s) = m.token
  <2> SUFFICES ASSUME s # nullptr, m.type # "Rejected" PROVE s \in Slots /\ Token(s) = m.token
      OBVIOUS
  <2>1. m.token = ex[m.id].token
      BY <1>3 DEF Fits
  <2>2. CASE m.id \in DOMAIN our_orders_
    <3>1. s = our_orders_[m.id]
        BY <2>2, <1>5 DEF Find
    <3> HIDE DEF s, known
    <3> QED BY <3>1, <2>1, <2>2, FoundById
  <2>3. CASE m.id \notin DOMAIN our_orders_
    <3>1. m.token \in DOMAIN awaitingAck_orders_ /\ s = awaitingAck_orders_[m.token]
        BY <2>3, <1>5 DEF Find
    <3> HIDE DEF s, known
    <3> QED BY <3>1, <1>3, FoundAwaiting
  <2> QED BY <2>2, <2>3
<1>7. s = nullptr => known = nullptr
    OBVIOUS
<1> HIDE DEF known, s
<1>8. CASE s = nullptr /\ Drop(m) /\ UNCHANGED pending_to_strategy_
  <2>1. UNCHANGED <<order_pool_, our_orders_>> /\ missed' = missed \cup {m.token}
      BY <1>8 DEF Drop, maps
  <2>2. missed \subseteq missed' /\ m.token \in missed' /\ m.id \notin DOMAIN our_orders_
      BY <2>1, <1>5, <1>7, <1>8
  <2> QED BY <2>1, <2>2, <1>2, <1>8, StoreKeeps
<1>9. CASE /\ m.type = "Rejected" /\ UNCHANGED pending_to_strategy_
           /\ UNCHANGED <<order_pool_, maps, missed>>
  <2>1. UNCHANGED <<order_pool_, our_orders_>> /\ missed \subseteq missed'
      BY <1>9 DEF maps
  <2> QED BY <2>1, <1>2, <1>9, StoreKeeps
<1>10. CASE /\ s # nullptr /\ ~(known = nullptr /\ m.type = "Rejected")
            /\ \/ known = nullptr /\ our_orders_' = With(our_orders_, m.id, s)
               \/ known # nullptr /\ UNCHANGED our_orders_
            /\ UNCHANGED pending_to_strategy_
            /\ \/ m.type = "CancelReject" /\ UNCHANGED <<order_pool_, missed>>
               \/ m.type # "CancelReject" /\ Fill(s, Filled(order_pool_[s], m), pending_to_strategy_)
  <2>1. m.type # "Rejected"
    <3>1. m.type = "Rejected" => m.id = 0
        BY <1>3 DEF Fits
    <3> QED BY <3>1, <1>4, <1>5, <1>10
  <2>2. CASE m.type = "CancelReject" /\ UNCHANGED <<order_pool_, missed>>
    <3>1. m.id \in DOMAIN our_orders_
        BY <2>2, <1>0, <1>2 DEF CancelInv
    <3>2. our_orders_' = our_orders_ /\ missed \subseteq missed'
        BY <3>1, <2>2, <1>5, <1>10
    <3> QED BY <3>2, <2>2, <1>2, <1>10, StoreKeeps
  <2>3. CASE m.type # "CancelReject" /\ Fill(s, Filled(order_pool_[s], m), pending_to_strategy_)
    <3>1. m.type \in {"Accepted", "Executed", "Cancelled"}
        BY <2>1, <2>3, <1>3 DEF Messages
    <3>2. s \in Slots /\ Token(s) = m.token
        BY <2>1, <1>6, <1>10
    <3>3. /\ our_orders_' = our_orders_ \/ our_orders_' = With(our_orders_, m.id, s)
          /\ m.id \in DOMAIN our_orders_'
        BY <1>5, <1>10 DEF With
    <3> QED BY <3>1, <3>2, <3>3, <2>3, <1>2, <1>10, FillLedger
  <2> QED BY <2>2, <2>3, <1>10
<1> QED BY <1>1, <1>8, <1>9, <1>10

LEMMA NasdaqLedger ==
  ASSUME IInv, Ledger, flow = "NASDAQ", NEW m, NEW rest, OffWire(m, rest), Elsewhere, update_NASDAQ(m)
  PROVE  crashed' \/ Ledger'
<1>0. TypeInv /\ WireInv /\ MapInv /\ NameInv /\ SizeInv
    BY DEF IInv, Ledger
<1> DEFINE new == Find(awaitingAck_orders_, m.token)
<1>1. \/ Drop(m) /\ UNCHANGED pending_to_strategy_
      \/ /\ m.type = "Accepted" /\ new # nullptr /\ UNCHANGED pending_to_strategy_
         /\ Register(new, m) /\ Fill(new, Filled(order_pool_[new], m), pending_to_strategy_)
      \/ /\ m.type = "Rejected" /\ new # nullptr /\ UNCHANGED pending_to_strategy_
         /\ fill_rejected(new) /\ UNCHANGED <<maps, missed>>
      \/ crashed'
      \/ /\ m.type \in {"Executed", "Cancelled"} /\ m.urn \in DOMAIN nq_ouch_refnum_ordkey_
         /\ LET s == our_orders_[nq_ouch_refnum_ordkey_[m.urn]]
            IN Fill(s, Filled(order_pool_[s], m), pending_to_strategy_)
         /\ UNCHANGED <<maps, pending_to_strategy_>>
    BY DEF update_NASDAQ
<1>2. Off(m, rest) /\ rest = pending_to_strategy_
    BY <1>0, OffWireFacts DEF Off
<1>3. m \in Messages /\ Fits(m) /\ m.token \in Sent
    BY <1>2, OffMessage, OffSent
<1>4. new # nullptr => new \in Slots /\ Token(new) = m.token
  <2> SUFFICES ASSUME new # nullptr PROVE new \in Slots /\ Token(new) = m.token
      OBVIOUS
  <2>1. m.token \in DOMAIN awaitingAck_orders_ /\ new = awaitingAck_orders_[m.token]
      BY DEF Find
  <2> HIDE DEF new
  <2> QED BY <2>1, <1>3, FoundAwaiting
<1> HIDE DEF new
<1>5. CASE Drop(m) /\ UNCHANGED pending_to_strategy_
  <2>1. UNCHANGED <<order_pool_, our_orders_>> /\ missed' = missed \cup {m.token}
      BY <1>5 DEF Drop, maps
  <2>2. missed \subseteq missed' /\ m.token \in missed'
      BY <2>1
  <2> QED BY <2>1, <2>2, <1>2, <1>5, StoreKeeps
<1>6. CASE /\ m.type = "Accepted" /\ new # nullptr /\ UNCHANGED pending_to_strategy_
           /\ Register(new, m) /\ Fill(new, Filled(order_pool_[new], m), pending_to_strategy_)
  <2>1. our_orders_' = With(our_orders_, m.id, new) /\ m.id \in DOMAIN our_orders_'
      BY <1>6 DEF Register, With
  <2> QED BY <2>1, <1>2, <1>4, <1>6, FillLedger
<1>7. CASE /\ m.type = "Rejected" /\ new # nullptr /\ UNCHANGED pending_to_strategy_
           /\ fill_rejected(new) /\ UNCHANGED <<maps, missed>>
  <2>1. our_orders_' = our_orders_ /\ missed \subseteq missed'
      BY <1>7 DEF maps
  <2>2. \A r \in Slots : /\ order_pool_'[r].quantity = order_pool_[r].quantity
                         /\ order_pool_'[r].filled_quantity = order_pool_[r].filled_quantity
                         /\ order_pool_'[r].remaining_quantity = order_pool_[r].remaining_quantity
                         /\ order_pool_'[r].order_id = order_pool_[r].order_id
                         /\ order_pool_'[r].client_order_id = order_pool_[r].client_order_id
      BY <1>0, <1>4, <1>7, RejectKeeps
  <2> QED BY <2>1, <2>2, <1>2, <1>7, StoreKeeps
<1>8. CASE /\ m.type \in {"Executed", "Cancelled"} /\ m.urn \in DOMAIN nq_ouch_refnum_ordkey_
           /\ LET s == our_orders_[nq_ouch_refnum_ordkey_[m.urn]]
              IN Fill(s, Filled(order_pool_[s], m), pending_to_strategy_)
           /\ UNCHANGED <<maps, pending_to_strategy_>>
  <2>1. PICK i \in DOMAIN our_orders_ : i = nq_ouch_refnum_ordkey_[m.urn] /\ ex[i].urn = m.urn
      BY <1>0, <1>8 DEF MapInv
  <2>2. m.id \in DOMAIN ex /\ m.token = ex[m.id].token /\ m.urn = ex[m.id].urn
      BY <1>3, <1>8 DEF Fits
  <2>3. PICK s \in Slots : s = our_orders_[i] /\ Token(s) = ex[i].token /\ i \in DOMAIN ex
      BY <2>1, FoundById
  <2>4. i = m.id
      BY <2>1, <2>2, <2>3, <1>0 DEF NameInv
  <2>5. Token(s) = m.token
      BY <2>2, <2>3, <2>4
  <2>6. Fill(s, Filled(order_pool_[s], m), rest) /\ our_orders_' = our_orders_ /\ pending_to_strategy_' = rest
      BY <2>1, <2>3, <1>2, <1>8 DEF maps
  <2>7. m.type \in {"Accepted", "Executed", "Cancelled"} /\ m.type # "Accepted"
      BY <1>8
  <2> QED BY <2>5, <2>6, <2>7, <1>2, FillLedger
<1> QED BY <1>1, <1>5, <1>6, <1>7, <1>8

\* store() takes the parked message in front only when everybody is done with
\* its order, so it is not parked again.
LEMMA BistLedger ==
  ASSUME IInv, Ledger, flow = "BIST", NEW m, NEW rest, Off(m, rest), Elsewhere, update_BIST(m, rest),
         OffPending(m, rest) => order_pool_[pending_to_strategy_[1].order].canModify = DONE
  PROVE  Ledger'
<1>0. TypeInv /\ WireInv /\ TokenInv /\ MapInv /\ ParkInv /\ SizeInv
    BY DEF IInv, Ledger
<1> DEFINE byKey == m.type \in {"Accepted", "Cancelled"}
           known == CASE m.type = "Accepted" -> nullptr
                      [] m.type = "Cancelled" -> Find(our_orders_, m.id)
                      [] OTHER -> Find(our_orders_wtokenkey_, m.token)
           s == IF known # nullptr THEN known ELSE Find(awaitingAck_orders_, m.token)
<1>1. \/ s = nullptr /\ Drop(m) /\ pending_to_strategy_' = rest
      \/ known # nullptr /\ order_pool_[s].canModify = {} /\ Park(m, s, rest)
      \/ /\ s # nullptr
         /\ pending_to_strategy_' = rest
         /\ \/ known = nullptr /\ byKey /\ Register(s, m)
            \/ known = nullptr /\ ~byKey /\ UNCHANGED maps
            \/ known # nullptr /\ UNCHANGED maps
         /\ \/ m.type # "Rejected" /\ Fill(s, Filled(order_pool_[s], m), rest)
            \/ m.type = "Rejected" /\ fill_rejected(s) /\ UNCHANGED missed
    BY DEF update_BIST
<1>2. m \in Messages /\ Fits(m) /\ m.token \in Sent /\ m.token # 0
    BY OffMessage, OffSent
<1>3. /\ m.type \in {"Accepted", "Executed", "Cancelled", "Rejected"}
      /\ m.id # 0 => m.token = ex[m.id].token
      /\ m.type # "Rejected" => m.id # 0
    BY <1>2 DEF Fits, Messages
<1>4. known # nullptr => known \in Slots /\ Token(known) = m.token /\ m.id # 0 /\ m.type # "Accepted" /\ s = known
  <2> SUFFICES ASSUME known # nullptr
               PROVE  known \in Slots /\ Token(known) = m.token /\ m.id # 0 /\ m.type # "Accepted"
      OBVIOUS
  <2>1. m.type # "Accepted"
      OBVIOUS
  <2>2. CASE m.type = "Cancelled"
    <3>1. known = our_orders_[m.id] /\ m.id \in DOMAIN our_orders_
        BY <2>2 DEF Find
    <3> HIDE DEF known
    <3> QED BY <3>1, <2>1, <2>2, <1>3, FoundById
  <2>3. CASE m.type # "Cancelled"
    <3>1. known = our_orders_wtokenkey_[m.token] /\ m.token \in DOMAIN our_orders_wtokenkey_
        BY <2>1, <2>3 DEF Find
    <3> HIDE DEF known
    <3>2. known \in Slots /\ Token(known) = m.token /\ m.token \in Taken
        BY <3>1, FoundByToken
    <3>3. m.id # 0
      <4> SUFFICES ASSUME m.id = 0 PROVE FALSE
          OBVIOUS
      <4>1. OffWire(m, rest) /\ m = wire_in[1] /\ 1 \in DOMAIN wire_in
        <5>1. ~OffPending(m, rest)
          <6> SUFFICES ASSUME OffPending(m, rest) PROVE FALSE
              OBVIOUS
          <6>1. m = pending_to_strategy_[1].msg /\ 1 \in DOMAIN pending_to_strategy_
              BY <1>0, OffPendingFacts
          <6> QED BY <6>1 DEF IInv, MessageInv
        <5>2. OffWire(m, rest)
            BY <5>1 DEF Off
        <5> QED BY <5>2, <1>0, OffWireFacts
      <4>2. m.token \in Refused
          BY <4>1 DEF Refused
      <4> QED BY <4>2, <3>2, <1>0 DEF WireInv
    <3> QED BY <3>2, <3>3, <2>1
  <2> QED BY <2>2, <2>3
<1>5. known = nullptr /\ s # nullptr => s \in Slots /\ Token(s) = m.token
  <2> SUFFICES ASSUME known = nullptr, s # nullptr PROVE s \in Slots /\ Token(s) = m.token
      OBVIOUS
  <2>1. m.token \in DOMAIN awaitingAck_orders_ /\ s = awaitingAck_orders_[m.token]
      BY DEF Find
  <2> HIDE DEF s, known
  <2> QED BY <2>1, <1>2, FoundAwaiting
<1> HIDE DEF known, s
<1>6. CASE s = nullptr /\ Drop(m) /\ pending_to_strategy_' = rest
  <2>1. UNCHANGED <<order_pool_, our_orders_>> /\ missed' = missed \cup {m.token}
      BY <1>6 DEF Drop, maps
  <2>2. missed \subseteq missed' /\ m.token \in missed'
      BY <2>1
  <2> QED BY <2>1, <2>2, <1>6, StoreKeeps
<1>7. CASE known # nullptr /\ order_pool_[s].canModify = {} /\ Park(m, s, rest)
  <2>1. s \in Slots /\ Token(s) = m.token /\ m.id # 0 /\ m.type # "Accepted"
      BY <1>4, <1>7
  <2>2. OffWire(m, rest)
    <3> SUFFICES ASSUME OffPending(m, rest) PROVE FALSE
        BY DEF Off
    <3>1. m = pending_to_strategy_[1].msg /\ 1 \in DOMAIN pending_to_strategy_
        BY <1>0, OffPendingFacts
    <3>2. PICK r \in Slots : r = pending_to_strategy_[1].order
      <4>1. pending_to_strategy_ \in Seq(Pending)
          BY <1>0 DEF TypeInv, Pending
      <4>2. pending_to_strategy_[1] \in Pending
          BY <4>1, <3>1
      <4> QED BY <4>2 DEF Pending
    <3>3. Token(r) = m.token
        BY <3>1, <3>2, <1>0 DEF ParkInv
    <3>4. r = s
        BY <3>3, <2>1, <1>0, <1>2 DEF TokenInv
    <3>5. order_pool_[s].canModify = DONE
        BY <3>2, <3>4
    <3> QED BY <3>5, <1>7 DEF DONE
  <2>3. /\ pending_to_strategy_' = Append(rest, [msg |-> m, order |-> s])
        /\ UNCHANGED <<order_pool_, our_orders_, missed>>
      BY <1>7 DEF Park, maps
  <2> QED BY <2>1, <2>2, <2>3, ParkLedger
<1>8. CASE /\ s # nullptr
           /\ pending_to_strategy_' = rest
           /\ \/ known = nullptr /\ byKey /\ Register(s, m)
              \/ known = nullptr /\ ~byKey /\ UNCHANGED maps
              \/ known # nullptr /\ UNCHANGED maps
           /\ \/ m.type # "Rejected" /\ Fill(s, Filled(order_pool_[s], m), rest)
              \/ m.type = "Rejected" /\ fill_rejected(s) /\ UNCHANGED missed
  <2>1. s \in Slots /\ Token(s) = m.token
      BY <1>4, <1>5, <1>8
  <2>2. CASE m.type # "Rejected" /\ Fill(s, Filled(order_pool_[s], m), rest)
    <3>1. /\ our_orders_' = our_orders_ \/ our_orders_' = With(our_orders_, m.id, s)
          /\ m.type = "Accepted" => our_orders_' = With(our_orders_, m.id, s)
        BY <1>4, <1>8 DEF Register, maps
    <3>2. m.type = "Accepted" => m.id \in DOMAIN our_orders_'
        BY <3>1 DEF With
    <3>3. m.type \in {"Accepted", "Executed", "Cancelled"}
        BY <2>2, <1>3
    <3> QED BY <3>1, <3>2, <3>3, <2>1, <2>2, <1>8, FillLedger
  <2>3. CASE m.type = "Rejected" /\ fill_rejected(s) /\ UNCHANGED missed
    <3>1. our_orders_' = our_orders_ /\ missed \subseteq missed'
        BY <2>3, <1>8 DEF maps
    <3>2. \A r \in Slots : /\ order_pool_'[r].quantity = order_pool_[r].quantity
                           /\ order_pool_'[r].filled_quantity = order_pool_[r].filled_quantity
                           /\ order_pool_'[r].remaining_quantity = order_pool_[r].remaining_quantity
                           /\ order_pool_'[r].order_id = order_pool_[r].order_id
                           /\ order_pool_'[r].client_order_id = order_pool_[r].client_order_id
        BY <2>1, <2>3, <1>0, RejectKeeps
    <3> QED BY <3>1, <3>2, <2>3, <1>8, StoreKeeps
  <2> QED BY <2>2, <2>3, <1>8
<1> QED BY <1>1, <1>6, <1>7, <1>8

LEMMA StoreLedger == ASSUME IInv, Ledger, store PROVE crashed' \/ Ledger'
<1>0. TypeInv /\ MessageInv
    BY DEF IInv
<1>1. Elsewhere
    BY DEF store, Elsewhere, builder, exchange
<1>2. wire_in \in Seq(Messages) /\ pending_to_strategy_ \in Seq(Pending)
    BY <1>0 DEF TypeInv, Pending
<1>3. CASE /\ ParkedReady
           /\ update_BIST(Head(pending_to_strategy_).msg, Tail(pending_to_strategy_))
           /\ UNCHANGED wire_in
  <2>1. pending_to_strategy_ # <<>> /\ order_pool_[Head(pending_to_strategy_).order].canModify = DONE
      BY <1>3 DEF ParkedReady
  <2>2. /\ Head(pending_to_strategy_) = pending_to_strategy_[1] /\ 1 \in DOMAIN pending_to_strategy_
    <3>1. /\ Head(pending_to_strategy_) = pending_to_strategy_[1]
          /\ Len(pending_to_strategy_) \in Nat /\ Len(pending_to_strategy_) > 0
          /\ DOMAIN pending_to_strategy_ = 1..Len(pending_to_strategy_)
        BY <2>1, <1>2, TailFacts
    <3> QED BY <3>1
  <2>3. flow = "BIST"
      BY <2>2, <1>0 DEF MessageInv
  <2>4. PICK m : m = pending_to_strategy_[1].msg
      OBVIOUS
  <2>5. PICK rest : rest = Tail(pending_to_strategy_)
      OBVIOUS
  <2>6. OffPending(m, rest) /\ update_BIST(m, rest)
      BY <2>1, <2>2, <2>4, <2>5, <1>3 DEF OffPending
  <2>7. order_pool_[pending_to_strategy_[1].order].canModify = DONE
      BY <2>1, <2>2
  <2>8. Off(m, rest)
      BY <2>6 DEF Off
  <2> QED BY <2>3, <2>6, <2>7, <2>8, <1>1, BistLedger
<1>4. CASE /\ ~ParkedReady /\ wire_in # <<>>
           /\ update_order(Head(wire_in))
           /\ wire_in' = Tail(wire_in)
  <2>1. Head(wire_in) = wire_in[1]
      BY <1>2, <1>4, TailFacts
  <2>2. PICK m : m = wire_in[1]
      OBVIOUS
  <2>3. PICK rest : rest = pending_to_strategy_
      OBVIOUS
  <2>4. OffWire(m, rest) /\ update_order(m)
      BY <2>1, <2>2, <2>3, <1>4 DEF OffWire
  <2>5. CASE flow = "BIST" /\ update_BIST(m, pending_to_strategy_)
    <3>1. OffPending(m, rest) => order_pool_[pending_to_strategy_[1].order].canModify = DONE
      <4> SUFFICES ASSUME OffPending(m, rest) PROVE FALSE
          OBVIOUS
      <4>1. wire_in' = wire_in /\ wire_in' = Tail(wire_in)
          BY <1>4 DEF OffPending
      <4>2. Len(Tail(wire_in)) = Len(wire_in) - 1 /\ Len(wire_in) \in Nat
          BY <1>2, <1>4
      <4> QED BY <4>1, <4>2
    <3>2. Off(m, rest) /\ update_BIST(m, rest)
        BY <2>3, <2>4, <2>5 DEF Off
    <3> QED BY <3>1, <3>2, <2>5, <1>1, BistLedger
  <2>6. CASE flow = "NASDAQ" /\ update_NASDAQ(m)
      BY <2>4, <2>6, <1>1, NasdaqLedger
  <2>7. CASE flow = "FIX" /\ update_FIX(m)
      BY <2>4, <2>7, <1>1, FixLedger
  <2> QED BY <2>4, <2>5, <2>6, <2>7 DEF update_order
<1> QED BY <1>3, <1>4 DEF store

-----------------------------------------------------------------------------
(* The theorems of the second invariant *)

\* Only the store ends, at a reference number nobody registered.
LEMMA CrashStays == ASSUME Next, crashed PROVE crashed'
<1>1. ~store
    BY DEF store
<1>2. CASE \E q \in Quantities : EnterOrder(q)
    BY <1>2 DEF EnterOrder, Submit
<1>3. CASE \E s \in Slots : RequestCancel(s)
    BY <1>3 DEF RequestCancel, Submit
<1>4. CASE \E i \in 1..Len(ex) : ExchangeTrades(i) \/ ExchangeTakesBack(i)
    BY <1>4 DEF ExchangeTrades, ExchangeTakesBack, TakeBack, Says
<1>5. CASE check_risk
    BY <1>5 DEF check_risk
<1>6. CASE update_risk
    BY <1>6 DEF update_risk
<1>7. CASE Build
    BY <1>7 DEF Build
<1>8. CASE add_awaitingAck_order
    BY <1>8 DEF add_awaitingAck_order
<1>9. CASE ExchangeAccepts
    BY <1>9 DEF ExchangeAccepts, Says
<1>10. CASE ExchangeCancels
    BY <1>10 DEF ExchangeCancels, TakeBack, Says
<1> QED BY <1>1, <1>2, <1>3, <1>4, <1>5, <1>6, <1>7, <1>8, <1>9, <1>10 DEF Next

LEMMA NextLedger == ASSUME IInv, LedgerInv, Next PROVE LedgerInv'
<1>1. IInv'
    BY NextInv
<1>2. CASE crashed
    BY <1>2, CrashStays DEF LedgerInv
<1>3. CASE ~crashed
  <2>1. Ledger
      BY <1>3 DEF LedgerInv
  <2> SUFFICES crashed' \/ Ledger'
      BY DEF LedgerInv
  <2>2. CASE \E q \in Quantities : EnterOrder(q)
      BY <2>1, <2>2, EnterOrderLedger
  <2>3. CASE \E s \in Slots : RequestCancel(s)
      BY <2>1, <2>3, RequestCancelLedger
  <2>4. CASE \E i \in 1..Len(ex) : ExchangeTrades(i) \/ ExchangeTakesBack(i)
      BY <2>1, <2>4, <1>1, TradesLedger, TakesBackLedger
  <2> QED BY <2>1, <2>2, <2>3, <2>4, <1>1, StoreLedger, CheckRiskLedger, UpdateRiskLedger, BuildLedger,
             AddAwaitingLedger, ExchangeAcceptsLedger, ExchangeCancelsLedger DEF Next
<1> QED BY <1>2, <1>3

\* Whatever the exchange trades, takes back or refuses while messages are on the
\* wire or parked: the exchange knows each token and each number once, the
\* Accepted message of an order is handled before its other messages, an order
\* of the exchange is registered, about to be or missed, and every message still
\* to be handled tells the exchange's order up to the messages behind it
\* (OrderManager::update_order and store, until the store thread dereferences
\* end()).
THEOREM LedgerInvariant == Spec => []LedgerInv
<1>1. Init => LedgerInv
    BY InitLedger DEF LedgerInv
<1>2. ASSUME IInv, LedgerInv, UNCHANGED vars PROVE LedgerInv'
  <2>1. crashed' = crashed
      BY <1>2 DEF vars
  <2>2. CASE crashed
      BY <2>1, <2>2 DEF LedgerInv
  <2>3. CASE ~crashed
      BY <1>2, <2>3, StutterLedger DEF LedgerInv
  <2> QED BY <2>2, <2>3
<1>3. ASSUME IInv, LedgerInv, [Next]_vars PROVE LedgerInv'
    BY <1>2, <1>3, NextLedger
<1> QED BY <1>1, <1>3, InductiveInvariant, PTL DEF Spec

\* What fill_accepted, fill_executed and fill_cancelled leave in an order that
\* update_order found by its id, token or reference number is what the exchange
\* says of it, up to the messages that are on the wire or parked: no fill is
\* lost, counted twice or taken off another order, and no unsigned rest wraps.
\* With OUCH this holds until a message of the order was missed or overtook a
\* parked one, with FIX throughout.
THEOREM StoreFollows == Spec => []StoreFollowsExchange
<1>1. LedgerInv => StoreFollowsExchange
    BY DEF LedgerInv, Ledger, BalanceInv, StoreFollowsExchange
<1> QED BY <1>1, LedgerInvariant, PTL

-----------------------------------------------------------------------------
(* Cancels of BIST: both protocols name an order by its token *)

RefInv == /\ crashed => flow = "NASDAQ"
          /\ flow # "NASDAQ" => \A k \in DOMAIN wire_out : wire_out[k].ref = wire_out[k].token

\* No step lets the store end but NASDAQ's.
LEMMA CrashIsNasdaq == ASSUME Next, crashed', ~crashed PROVE flow = "NASDAQ"
<1>1. CASE store
  <2>1. update_BIST(Head(pending_to_strategy_).msg, Tail(pending_to_strategy_)) => crashed' = crashed
      BY DEF update_BIST, Drop, Park, Fill
  <2>2. update_BIST(Head(wire_in), pending_to_strategy_) => crashed' = crashed
      BY DEF update_BIST, Drop, Park, Fill
  <2>3. update_FIX(Head(wire_in)) => crashed' = crashed
      BY DEF update_FIX, Drop, Fill
  <2> QED BY <1>1, <2>1, <2>2, <2>3 DEF store, update_order
<1>2. CASE \E q \in Quantities : EnterOrder(q)
    BY <1>2 DEF EnterOrder, Submit
<1>3. CASE \E s \in Slots : RequestCancel(s)
    BY <1>3 DEF RequestCancel, Submit
<1>4. CASE \E i \in 1..Len(ex) : ExchangeTrades(i) \/ ExchangeTakesBack(i)
    BY <1>4 DEF ExchangeTrades, ExchangeTakesBack, TakeBack, Says
<1>5. CASE check_risk
    BY <1>5 DEF check_risk
<1>6. CASE update_risk
    BY <1>6 DEF update_risk
<1>7. CASE Build
    BY <1>7 DEF Build
<1>8. CASE add_awaitingAck_order
    BY <1>8 DEF add_awaitingAck_order
<1>9. CASE ExchangeAccepts
    BY <1>9 DEF ExchangeAccepts, Says
<1>10. CASE ExchangeCancels
    BY <1>10 DEF ExchangeCancels, TakeBack, Says
<1> QED BY <1>1, <1>2, <1>3, <1>4, <1>5, <1>6, <1>7, <1>8, <1>9, <1>10 DEF Next

\* What a step does to the requests on their way.
LEMMA RequestsMove ==
  ASSUME Next
  PROVE  /\ flow' = flow
         /\ \/ wire_out' = wire_out
            \/ wire_out # <<>> /\ wire_out' = Tail(wire_out)
            \/ Build
<1>1. CASE store
    BY <1>1 DEF store, exchange
<1>2. CASE \E q \in Quantities : EnterOrder(q)
    BY <1>2 DEF EnterOrder, Submit, exchange
<1>3. CASE \E s \in Slots : RequestCancel(s)
    BY <1>3 DEF RequestCancel, Submit, exchange
<1>4. CASE \E i \in 1..Len(ex) : ExchangeTrades(i) \/ ExchangeTakesBack(i)
    BY <1>4 DEF ExchangeTrades, ExchangeTakesBack, TakeBack, Says
<1>5. CASE check_risk
    BY <1>5 DEF check_risk, exchange
<1>6. CASE update_risk
    BY <1>6 DEF update_risk, exchange
<1>7. CASE Build
    BY <1>7 DEF Build
<1>8. CASE add_awaitingAck_order
    BY <1>8 DEF add_awaitingAck_order, exchange
<1>9. CASE ExchangeAccepts
    BY <1>9 DEF ExchangeAccepts, Says
<1>10. CASE ExchangeCancels
    BY <1>10 DEF ExchangeCancels, TakeBack, Says
<1> QED BY <1>1, <1>2, <1>3, <1>4, <1>5, <1>6, <1>7, <1>8, <1>9, <1>10 DEF Next

LEMMA NextRef == ASSUME IInv, RefInv, Next PROVE RefInv'
<1>0. wire_out \in Seq(Requests)
    BY DEF IInv, TypeInv
<1>1. flow' = flow
    BY RequestsMove
<1>2. crashed' => flow' = "NASDAQ"
    BY <1>1, CrashIsNasdaq DEF RefInv
<1>3. ASSUME flow # "NASDAQ" PROVE \A k \in DOMAIN wire_out' : wire_out'[k].ref = wire_out'[k].token
  <2>0. \A k \in DOMAIN wire_out : wire_out[k].ref = wire_out[k].token
      BY <1>3 DEF RefInv
  <2>1. CASE wire_out' = wire_out
      BY <2>0, <2>1
  <2>2. CASE wire_out # <<>> /\ wire_out' = Tail(wire_out)
    <3>1. \A k \in DOMAIN wire_out' : k + 1 \in DOMAIN wire_out /\ wire_out'[k] = wire_out[k + 1]
        BY <2>2, <1>0, TailFacts
    <3> QED BY <3>1, <2>0
  <2>3. CASE Build
    <3>1. PICK o : wire_out' = Append(wire_out, [type |-> o.message_type, ref |-> RefOf(o), qty |-> o.quantity,
                                                 token |-> o.client_order_id])
        BY <2>3 DEF Build
    <3>2. PICK e : /\ e = [type |-> o.message_type, ref |-> RefOf(o), qty |-> o.quantity,
                           token |-> o.client_order_id]
        OBVIOUS
    <3>3. e.ref = e.token
        BY <3>2, <1>3 DEF RefOf
    <3>4. wire_out' = Append(wire_out, e)
        BY <3>1, <3>2
    <3>5. \A k \in DOMAIN wire_out' : wire_out'[k] = e \/ (k \in DOMAIN wire_out /\ wire_out'[k] = wire_out[k])
      <4>1. wire_out \in Seq(Requests \cup {e}) /\ e \in Requests \cup {e}
          BY <1>0, SeqInto
      <4>2. PICK n \in Nat : n = Len(wire_out) /\ DOMAIN wire_out = 1..n
          BY <1>0
      <4>3. DOMAIN wire_out' = 1..n + 1 /\ wire_out'[n + 1] = e /\ \A k \in DOMAIN wire_out : wire_out'[k] = wire_out[k]
          BY <3>4, <4>1, <4>2, AppendFacts
      <4>4. \A k \in 1..n + 1 : k = n + 1 \/ k \in 1..n
          BY <4>2
      <4> QED BY <4>2, <4>3, <4>4
    <3> QED BY <3>3, <3>5, <2>0
  <2> QED BY <2>1, <2>2, <2>3, RequestsMove
<1> QED BY <1>1, <1>2, <1>3 DEF RefInv

\* A cancel that Builder_Dispatch builds for BIST, FIX or OUCH, names an order the
\* exchange got from us, the one it is to cancel: its token has been registered,
\* and its slot is not used again under another token while the cancel passes
\* risk and builder.  The builder of NASDAQ, which takes its counter instead,
\* is the exception.
THEOREM CancelsNamed == Spec => [](flow # "NASDAQ" => CancelNamesItsOrder)
<1>1. Init => RefInv
    BY DEF Init, RefInv
<1>2. ASSUME IInv, RefInv, [Next]_vars PROVE RefInv'
  <2>1. CASE UNCHANGED vars
    <3>1. flow' = flow /\ crashed' = crashed /\ wire_out' = wire_out
        BY <2>1 DEF vars, exchange
    <3> QED BY <3>1, <1>2 DEF RefInv
  <2> QED BY <2>1, <1>2, NextRef
<1>3. IInv /\ LedgerInv /\ RefInv => (flow # "NASDAQ" => CancelNamesItsOrder)
  <2> SUFFICES ASSUME IInv, LedgerInv, RefInv, flow # "NASDAQ", NEW k \in 1..Len(wire_out), wire_out[k].type = "Cancel"
               PROVE  \E i \in 1..Len(ex) : ExRef(i) = wire_out[k].ref /\ ex[i].token = wire_out[k].token
      BY DEF CancelNamesItsOrder
  <2>1. CancelInv /\ TypeInv /\ MessageInv /\ MapInv
      BY DEF RefInv, LedgerInv, Ledger, IInv
  <2>2. DOMAIN ex = 1..Len(ex) /\ DOMAIN wire_out = 1..Len(wire_out)
      BY <2>1 DEF TypeInv
  <2>3. wire_out[k].ref = wire_out[k].token
      BY <2>2 DEF RefInv
  <2>4. wire_out[k].ref \in Taken
    <3>1. CASE flow = "BIST"
      <4>1. wire_out[k].ref \in DOMAIN our_orders_wtokenkey_
          BY <3>1, <2>1, <2>2 DEF MessageInv
      <4> QED BY <4>1, FoundByToken
    <3>2. CASE flow = "FIX"
      <4>1. PICK i \in DOMAIN our_orders_ : ex[i].token = wire_out[k].ref
          BY <3>2, <2>1, <2>2 DEF CancelInv
      <4>2. i \in DOMAIN ex
          BY <2>1 DEF MapInv
      <4> QED BY <4>1, <4>2 DEF Taken
    <3> QED BY <3>1, <3>2, <2>1 DEF TypeInv
  <2>5. PICK i \in DOMAIN ex : ex[i].token = wire_out[k].ref
      BY <2>4 DEF Taken
  <2> QED BY <2>2, <2>3, <2>5 DEF ExRef
<1> QED BY <1>1, <1>2, <1>3, InductiveInvariant, LedgerInvariant, PTL DEF Spec
=============================================================================
