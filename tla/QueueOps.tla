------------------------------ MODULE QueueOps ------------------------------
(***************************************************************************)
(* What the queue of asx/src/queue.c does to the sequence of its elements, *)
(* oldest first, for a capacity n.  Modules that use a queue use these     *)
(* operators; that the ring buffer implements them is the refinement       *)
(* checked and proved in Queue and QueueProofs.                            *)
(***************************************************************************)
EXTENDS Naturals, Sequences, SequencesExt

(* queue_push: refused when full *)
Pushed(q, d, n) == IF Len(q) < n THEN Append(q, d) ELSE q

(* queue_push_back: the element becomes the oldest one; refused when full *)
PushedBack(q, d, n) == IF Len(q) < n THEN Cons(d, q) ELSE q

(* queue_push_ring: never refused, a full queue drops its oldest element *)
PushedRing(q, d, n) == IF Len(q) < n THEN Append(q, d) ELSE Append(Tail(q), d)
=============================================================================
