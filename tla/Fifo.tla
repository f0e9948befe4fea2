-------------------------------- MODULE Fifo --------------------------------
(***************************************************************************)
(* What a stage of the engine's pipeline expects of the queue between it   *)
(* and its neighbour: a bounded first-in first-out queue of pointers whose *)
(* push fails only when it holds Cap elements and whose pop fails only     *)
(* when it holds none.  CustomSpscQueue is shown to implement it.          *)
(***************************************************************************)
EXTENDS Naturals, Sequences

CONSTANTS Elem,      \* the pointers that may be queued
          Cap,       \* the capacity
          nullptr    \* the answer of a pop that found nothing

VARIABLES queue,     \* the queued elements, oldest first
          pushed,    \* what the last push returned
          out        \* what the last pop delivered, nullptr if it failed

vars == <<queue, pushed, out>>

Init == queue = <<>> /\ pushed = TRUE /\ out = nullptr

Push(e) == /\ Len(queue) < Cap
           /\ queue' = Append(queue, e)
           /\ pushed' = TRUE
           /\ UNCHANGED out

PushFails == Len(queue) = Cap /\ pushed' = FALSE /\ UNCHANGED <<queue, out>>

Pop == /\ queue # <<>>
       /\ out' = Head(queue)
       /\ queue' = Tail(queue)
       /\ UNCHANGED pushed

PopFails == queue = <<>> /\ out' = nullptr /\ UNCHANGED <<queue, pushed>>

\* The owner discards everything while no thread uses the queue.
Reset == queue' = <<>> /\ UNCHANGED <<pushed, out>>

Next == (\E e \in Elem : Push(e)) \/ PushFails \/ Pop \/ PopFails \/ Reset

Spec == Init /\ [][Next]_vars
=============================================================================
