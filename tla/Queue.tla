-------------------------------- MODULE Queue --------------------------------
(***************************************************************************)
(* The ring buffer of asx/src/queue.c: a fixed buffer, the position of the *)
(* oldest element (head), the first free position (tail) and the number of *)
(* elements.  Every reactor handler owns one; reactor_notify pushes with   *)
(* queue_push_ring and reactor_run pops with queue_pop, both with the      *)
(* interrupts off, so a call is one step.                                  *)
(***************************************************************************)
EXTENDS Integers, Sequences

CONSTANTS
    Data,       \* what a caller may store
    NoData,     \* 0xFF..FF of queue_init, or an out parameter left alone
    NElem,      \* nelem
    IndexHalf   \* int8_t holds -IndexHalf .. IndexHalf - 1 (128 in the code)

(* An index is an int8_t and nelem a uint8_t: the code only works when     *)
(* every index fits, and % 0 is undefined.                                 *)
ASSUME QueueAssumption ==
    /\ IndexHalf \in Nat
    /\ NElem \in 1..IndexHalf
    /\ NoData \notin Data

VARIABLES
    buffer, head, tail, length,
    result      \* what the last call returned: a status and a popped element

vars == <<buffer, head, tail, length, result>>

Slots == 0..(NElem - 1)

(* storing an int in the int8_t head or tail *)
ToIndex(i) == IF i < IndexHalf THEN i ELSE i - 2 * IndexHalf

(* (i + 1) % nelem and (i - 1 + nelem) % nelem, stored in an index *)
After(i) == ToIndex((i + 1) % NElem)
Before(i) == ToIndex((i - 1 + NElem) % NElem)

Answer(ok, data) == [ok |-> ok, data |-> data]

(* queue_init *)
Init ==
    /\ buffer = [s \in Slots |-> NoData]
    /\ head = 0
    /\ tail = 0
    /\ length = 0
    /\ result = Answer(TRUE, NoData)

(* the early return of queue_push and queue_push_back *)
PushRefused ==
    /\ length >= NElem
    /\ result' = Answer(FALSE, NoData)
    /\ UNCHANGED <<buffer, head, tail, length>>

(* the early return of queue_pop and queue_pop_front *)
PopRefused ==
    /\ length <= 0
    /\ result' = Answer(FALSE, NoData)
    /\ UNCHANGED <<buffer, head, tail, length>>

(* Mutant: the free position is advanced before the element is stored *)
PushAtNext(d) ==
    /\ length < NElem
    /\ tail' = After(tail)
    /\ buffer' = [buffer EXCEPT ![tail'] = d]
    /\ length' = length + 1
    /\ result' = Answer(TRUE, NoData)
    /\ UNCHANGED head

Push(d) ==
    /\ length < NElem
    /\ buffer' = [buffer EXCEPT ![tail] = d]
    /\ tail' = After(tail)
    /\ length' = length + 1
    /\ result' = Answer(TRUE, NoData)
    /\ UNCHANGED head

PushBack(d) ==
    /\ length < NElem
    /\ head' = Before(head)
    /\ buffer' = [buffer EXCEPT ![head'] = d]
    /\ length' = length + 1
    /\ result' = Answer(TRUE, NoData)
    /\ UNCHANGED tail

Pop ==
    /\ length > 0
    /\ result' = Answer(TRUE, buffer[head])
    /\ head' = After(head)
    /\ length' = length - 1
    /\ UNCHANGED <<buffer, tail>>

(* Mutant: queue_pop_front reads before it moves tail back *)
PopFrontStale ==
    /\ length > 0
    /\ tail' = Before(tail)
    /\ result' = Answer(TRUE, buffer[tail])
    /\ length' = length - 1
    /\ UNCHANGED <<buffer, head>>

PopFront ==
    /\ length > 0
    /\ tail' = Before(tail)
    /\ result' = Answer(TRUE, buffer[tail'])
    /\ length' = length - 1
    /\ UNCHANGED <<buffer, head>>

(* queue_push_ring: when full, the oldest element has just been replaced   *)
(* and head moves on to the next one.                                      *)
PushRing(d) ==
    /\ buffer' = [buffer EXCEPT ![tail] = d]
    /\ tail' = After(tail)
    /\ \/ /\ length < NElem
          /\ length' = length + 1
          /\ UNCHANGED head
       \/ /\ length >= NElem
          /\ head' = After(head)
          /\ UNCHANGED length
    /\ result' = Answer(TRUE, NoData)

Next ==
    \/ \E d \in Data : Push(d) \/ PushBack(d) \/ PushRing(d)
    \/ Pop \/ PopFront
    \/ PushRefused \/ PopRefused

Spec == Init /\ [][Next]_vars

-----------------------------------------------------------------------------
(* The fields keep their ranges: no call of queue.c leaves an index        *)
(* outside the buffer or a count above nelem.                              *)
TypeOK ==
    /\ buffer \in [Slots -> Data \cup {NoData}]
    /\ head \in Slots
    /\ tail \in Slots
    /\ length \in 0..NElem
    /\ result \in [ok : BOOLEAN, data : Data \cup {NoData}]

(* The position of the i-th oldest element, counted from 0, with head at h *)
At(h, i) == (h + i) % NElem

(* head, tail and length are redundant and the five calls update them      *)
(* separately: they always agree, and the elements between head and tail   *)
(* were all stored by a caller.                                            *)
RingInv ==
    /\ tail = At(head, length)
    /\ \A i \in 0..(length - 1) : buffer[At(head, i)] \in Data

(* The ring buffer as a sequence: the n elements of b from h on *)
ItemsOf(b, h, n) == [i \in 1..n |-> b[At(h, i - 1)]]
Items == ItemsOf(buffer, head, length)

Deque == INSTANCE BoundedDeque WITH items <- Items, Capacity <- NElem

(* Every call returns and leaves behind what the bounded deque promises:   *)
(* elements come out oldest first by queue_pop and newest first by         *)
(* queue_pop_front, whatever mix of calls wrapped the indices, and         *)
(* queue_push_ring loses the oldest element and no other.                  *)
DequeSpec == Deque!Spec
=============================================================================
