------------------------------ MODULE EventLoop ------------------------------
(***************************************************************************)
(* What the reactor promises to the handlers of a program: every handler   *)
(* has a queue, which takes what the others and the interrupts notify it   *)
(* of; one handler runs at a time, told of the oldest element of its queue;*)
(* of those that were waiting at a glance it is one of highest priority;   *)
(* and the processor sleeps only when none is waiting.                     *)
(*                                                                         *)
(* Neither masks nor flags nor positions: Reactor shows that those of the  *)
(* code implement this.                                                    *)
(***************************************************************************)
EXTENDS Integers, QueueOps

CONSTANTS
    Handles,        \* the handlers a program may register
    Priorities,     \* their priorities
    QueueSizes,     \* the sizes of their queues
    Data            \* what a notification carries

VARIABLES
    registered,     \* the handlers registered, for each of them
    priority,       \*   its priority,
    size,           \*   the size of its queue
    queue,          \*   and what that holds, oldest first
    phase,          \* what the main program does
    waiting,        \* the handlers waiting at the last glance
    running         \* the handler called last

vars == <<registered, priority, size, queue, phase, waiting, running>>
handlers == <<registered, priority, size>>

Init ==
    /\ registered = {}
    /\ priority = [h \in Handles |-> 0]
    /\ size = [h \in Handles |-> 0]
    /\ queue = [h \in Handles |-> <<>>]
    /\ phase = "setup"
    /\ waiting = {}
    /\ running = 0

Register(h, prio, n) ==
    /\ phase = "setup"
    /\ h \in Handles \ registered
    /\ registered' = registered \cup {h}
    /\ priority' = [priority EXCEPT ![h] = prio]
    /\ size' = [size EXCEPT ![h] = n]
    /\ queue' = [queue EXCEPT ![h] = <<>>]
    /\ UNCHANGED <<phase, waiting, running>>

(* from anywhere and at any time; a notification ends the sleep *)
Notify(h, d) ==
    /\ h \in registered
    /\ queue' = [queue EXCEPT ![h] = PushedRing(@, d, size[h])]
    /\ phase' = IF phase = "asleep" THEN "loop" ELSE phase
    /\ UNCHANGED <<handlers, waiting, running>>

Start ==
    /\ phase = "setup"
    /\ phase' = "loop"
    /\ UNCHANGED <<handlers, queue, waiting, running>>

Sleep ==
    /\ phase = "loop"
    /\ \A h \in registered : queue[h] = <<>>
    /\ phase' = "asleep"
    /\ UNCHANGED <<handlers, queue, waiting, running>>

Wake ==
    /\ phase = "asleep"
    /\ phase' = "loop"
    /\ UNCHANGED <<handlers, queue, waiting, running>>

Glance ==
    /\ phase = "loop"
    /\ waiting' = {h \in registered : queue[h] # <<>>}
    /\ waiting' # {}
    /\ phase' = "call"
    /\ UNCHANGED <<handlers, queue, running>>

Call(h) ==
    /\ phase = "call"
    /\ h \in waiting
    /\ \A g \in waiting : priority[g] <= priority[h]
    /\ queue[h] # <<>>
    /\ queue' = [queue EXCEPT ![h] = Tail(@)]
    /\ running' = h
    /\ waiting' = {}
    /\ phase' = "handler"
    /\ UNCHANGED handlers

Return ==
    /\ phase = "handler"
    /\ phase' = "loop"
    /\ UNCHANGED <<handlers, queue, waiting, running>>

(* An assertion stops the program only when it registers a handler too     *)
(* many or too late.                                                       *)
Fail ==
    /\ phase \in {"setup", "handler"}
    /\ phase' = "stopped"
    /\ UNCHANGED <<handlers, queue, waiting, running>>

Reset ==
    /\ phase = "stopped"
    /\ registered' = {}
    /\ priority' = [h \in Handles |-> 0]
    /\ size' = [h \in Handles |-> 0]
    /\ queue' = [h \in Handles |-> <<>>]
    /\ phase' = "setup"
    /\ waiting' = {}
    /\ running' = 0

Next ==
    \/ \E h \in Handles, prio \in Priorities, n \in QueueSizes : Register(h, prio, n)
    \/ \E h \in Handles, d \in Data : Notify(h, d)
    \/ \E h \in Handles : Call(h)
    \/ Start \/ Sleep \/ Wake \/ Glance \/ Return \/ Fail \/ Reset

Spec == Init /\ [][Next]_vars
=============================================================================
