----------------------------- MODULE BoundedDeque -----------------------------
(***************************************************************************)
(* The promise of asx/include/queue.h: a sequence of at most Capacity      *)
(* elements and, for the caller, the outcome of the last call.  The call   *)
(* of queue_init has just returned in the initial states.                  *)
(***************************************************************************)
EXTENDS QueueOps

CONSTANTS
    Data,       \* what a caller may store
    NoData,     \* what an out parameter holds when nothing was written to it
    Capacity    \* nelem

VARIABLES
    items,      \* the elements, oldest first
    result      \* what the last call returned: a status and a popped element

vars == <<items, result>>

Answer(ok, data) == [ok |-> ok, data |-> data]

Init ==
    /\ items = <<>>
    /\ result = Answer(TRUE, NoData)

Push(d) ==
    /\ items' = Pushed(items, d, Capacity)
    /\ result' = Answer(Len(items) < Capacity, NoData)

PushBack(d) ==
    /\ items' = PushedBack(items, d, Capacity)
    /\ result' = Answer(Len(items) < Capacity, NoData)

PushRing(d) ==
    /\ items' = PushedRing(items, d, Capacity)
    /\ result' = Answer(TRUE, NoData)

Pop ==
    /\ items # <<>>
    /\ items' = Tail(items)
    /\ result' = Answer(TRUE, Head(items))

PopFront ==
    /\ items # <<>>
    /\ items' = Front(items)
    /\ result' = Answer(TRUE, Last(items))

PopRefused ==
    /\ items = <<>>
    /\ result' = Answer(FALSE, NoData)
    /\ UNCHANGED items

Next ==
    \/ \E d \in Data : Push(d) \/ PushBack(d) \/ PushRing(d)
    \/ Pop \/ PopFront \/ PopRefused

Spec == Init /\ [][Next]_vars
=============================================================================
