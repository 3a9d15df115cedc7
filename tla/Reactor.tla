------------------------------- MODULE Reactor -------------------------------
(***************************************************************************)
(* The event loop of asx/src/reactor.c.  The program registers handlers,   *)
(* then runs the loop, which sorts them by priority and from then on calls *)
(* one handler at a time; interrupts and handlers notify handlers.         *)
(*                                                                         *)
(* A bit mask is the set of the positions of its 1 bits.  A section of the *)
(* code that runs with the interrupts off is one step; every interrupt may *)
(* come between two steps.  The queue of a handler is the sequence it      *)
(* holds (Queue shows that the ring buffer is that sequence).              *)
(***************************************************************************)
EXTENDS Integers, QueueOps

CONSTANTS
    MaxHandlers,    \* REACTOR_MAX_HANDLERS
    IntBits,        \* width of int, in which reactor_register shifts
    MaskBits,       \* width of reactor_mask_t
    Priorities,     \* reactor_priorities_t
    QueueSizes,     \* the queue sizes registered
    Data,           \* what a notification carries
    PreRunHandles,  \* the handles the program notifies before reactor_run
    Debug           \* built with DEBUG: alert_record turns the watchdog off

ASSUME ReactorAssumption ==
    /\ MaxHandlers \in Nat \ {0}
    /\ IntBits \in Nat \ {0}
    /\ MaskBits \in Nat
    /\ MaxHandlers <= MaskBits
    /\ Priorities \subseteq Nat
    /\ QueueSizes \subseteq Nat \ {0}
    /\ PreRunHandles \subseteq 0..(MaxHandlers - 1)
    /\ Debug \in BOOLEAN

VARIABLES
    nextHandle,     \* _next_handle
    priority,       \* _handlers[h].priority, .mask and .queue, and the
    mask,           \* capacity of the queue
    queue,
    size,
    lookup,         \* _handle_lookup
    locked,         \* reactor_lock
    notifications,  \* reactor_notifications
    pc,             \* where the main program is
    flags,          \* the local copy of reactor_notifications in reactor_run
    running,        \* the handler reactor_run is calling or called last
    alert           \* the assertion that stopped the program, if any

vars == <<nextHandle, priority, mask, queue, size, lookup, locked,
          notifications, pc, flags, running, alert>>
table == <<nextHandle, priority, mask, size, lookup, locked>>

Handles == 0..(MaxHandlers - 1)
Registered == 0..(nextHandle - 1)

-----------------------------------------------------------------------------
Init ==
    /\ nextHandle = 0
    /\ priority = [h \in Handles |-> 0]
    /\ mask = [h \in Handles |-> {}]
    /\ queue = [h \in Handles |-> <<>>]
    /\ size = [h \in Handles |-> 0]
    /\ lookup = [i \in Handles |-> 0]
    /\ locked = FALSE
    /\ notifications = {}
    /\ pc = "setup"
    /\ flags = {}
    /\ running = 0
    /\ alert = "none"

(* 1 << h stored in a mask.  The shift is done in an int: at the sign bit  *)
(* the result is negative and widens with ones; beyond it the shift is     *)
(* undefined, and the loop of single shifts the compiler emits leaves 0.   *)
IntShift(h) ==
    IF h < IntBits - 1 THEN {h}
    ELSE IF h = IntBits - 1 THEN h..(MaskBits - 1)
    ELSE {}

(* alert_and_stop_if in thread context: the main program never goes on,    *)
(* while interrupts, if they are on, still come.                           *)
Stop(cause) ==
    /\ pc' = "stopped"
    /\ alert' = cause

(* reactor_register, called by the program before reactor_run or, against  *)
(* the rules, by a handler.                                                *)
Register(prio, n) ==
    /\ pc = "setup"
    /\ nextHandle < MaxHandlers
    /\ priority' = [priority EXCEPT ![nextHandle] = prio]
    /\ mask' = [mask EXCEPT ![nextHandle] = IntShift(nextHandle)]
    /\ queue' = [queue EXCEPT ![nextHandle] = <<>>]
    /\ size' = [size EXCEPT ![nextHandle] = n]
    /\ nextHandle' = nextHandle + 1
    /\ UNCHANGED <<lookup, locked, notifications, pc, flags, running, alert>>

RegisterRefused ==
    /\ pc \in {"setup", "handler"}
    /\ locked \/ nextHandle = MaxHandlers
    /\ Stop("register")
    /\ UNCHANGED <<table, queue, notifications, flags, running>>

(* reactor_notify(h, d), in any context: one step, the interrupts are off  *)
Notify(h, d) ==
    /\ notifications' = notifications \cup mask[h]
    /\ queue' = [queue EXCEPT ![h] = PushedRing(queue[h], d, size[h])]

(* before reactor_run *)
SetupNotify(h, d) ==
    /\ pc = "setup"
    /\ h \in PreRunHandles
    /\ Notify(h, d)
    /\ UNCHANGED <<table, pc, flags, running, alert>>

(* by the handler reactor_run is calling *)
HandlerNotify(h, d) ==
    /\ pc = "handler"
    /\ Notify(h, d)
    /\ UNCHANGED <<table, pc, flags, running, alert>>

(* by an interrupt: they are on from the first sei of reactor_run, except  *)
(* in the sections modelled as one step and when one of them stopped.      *)
InterruptNotify(h, d) ==
    /\ locked
    /\ pc # "run"
    /\ alert # "pop"
    /\ Notify(h, d)
    /\ pc' = IF pc = "asleep" THEN "loop" ELSE pc
    /\ UNCHANGED <<table, flags, running, alert>>

(* an interrupt that notifies nobody still ends the sleep *)
InterruptWake ==
    /\ pc = "asleep"
    /\ pc' = "loop"
    /\ UNCHANGED <<table, queue, notifications, flags, running, alert>>

(* What qsort may do with the handlers: each one gets one position, and    *)
(* the order of equal priorities is not defined.                           *)
IsOrder(p) == \A h \in Registered : \E i \in Registered :
                  \A j \in Registered : p[j] = h <=> j = i

(* Mutant: compare_prio returns the opposite sign *)
SortedRising(p) ==
    \A i, j \in Registered : i < j => priority[p[i]] <= priority[p[j]]

SortedByPriority(p) ==
    \A i, j \in Registered : i < j => priority[p[i]] >= priority[p[j]]

(* _reactor_sort_by_priority, at the start of reactor_run *)
Sort(p) ==
    /\ IsOrder(p)
    /\ SortedByPriority(p)
    /\ lookup' = [i \in Handles |-> IF i \in Registered THEN p[i] ELSE lookup[i]]
    /\ mask' = [h \in Handles |->
                    IF h \in Registered THEN {i \in Registered : p[i] = h}
                                        ELSE mask[h]]
    /\ notifications' = {i \in Registered : p[i] \in notifications}

Run ==
    /\ pc = "setup"
    /\ \E p \in [Registered -> Registered] : Sort(p)
    /\ locked' = TRUE
    /\ pc' = "run"
    /\ UNCHANGED <<nextHandle, priority, queue, size, flags, running, alert>>

(* Mutant: two separate critical sections, an interrupt between the test   *)
(* and the sleep is lost                                                   *)
SleepUnchecked ==
    /\ pc = "loop"
    /\ pc' = "asleep"
    /\ UNCHANGED <<table, queue, notifications, flags, running, alert>>

(* cli, then sleep: sei takes effect after the sleep instruction, so no    *)
(* interrupt comes between the test and the sleep.                         *)
Sleep ==
    /\ pc \in {"run", "loop"}
    /\ notifications = {}
    /\ pc' = "asleep"
    /\ UNCHANGED <<table, queue, notifications, flags, running, alert>>

Snapshot ==
    /\ pc \in {"run", "loop"}
    /\ notifications # {}
    /\ flags' = notifications
    /\ pc' = "scan"
    /\ UNCHANGED <<table, queue, notifications, running, alert>>

(* The position the loop of reactor_run stops at: the first one whose bit  *)
(* is set in flags.  There always is one (ScanFindsHandler), so that the   *)
(* loop never ends without a break.                                        *)
FirstFlag(i) ==
    /\ i \in Registered \cap flags
    /\ \A j \in Registered \cap flags : i <= j

(* Mutant: the flag is cleared although the queue still holds something *)
DispatchClearing ==
    /\ pc = "scan"
    /\ \E i \in Registered :
          /\ FirstFlag(i)
          /\ queue[lookup[i]] # <<>>
          /\ running' = lookup[i]
    /\ queue' = [queue EXCEPT ![running'] = Tail(queue[running'])]
    /\ notifications' = notifications \ mask[running']
    /\ pc' = "handler"
    /\ UNCHANGED <<table, flags, alert>>

(* Mutant: the flag is cleared by the registration mask, 1 << handle *)
DispatchOldMask ==
    /\ pc = "scan"
    /\ \E i \in Registered :
          /\ FirstFlag(i)
          /\ queue[lookup[i]] # <<>>
          /\ running' = lookup[i]
    /\ queue' = [queue EXCEPT ![running'] = Tail(queue[running'])]
    /\ notifications' = IF queue'[running'] = <<>>
                        THEN notifications \ {running'}
                        ELSE notifications
    /\ pc' = "handler"
    /\ UNCHANGED <<table, flags, alert>>

Dispatch ==
    /\ pc = "scan"
    /\ \E i \in Registered :
          /\ FirstFlag(i)
          /\ queue[lookup[i]] # <<>>
          /\ running' = lookup[i]
    /\ queue' = [queue EXCEPT ![running'] = Tail(queue[running'])]
    /\ notifications' = IF queue'[running'] = <<>>
                        THEN notifications \ mask[running']
                        ELSE notifications
    /\ pc' = "handler"
    /\ UNCHANGED <<table, flags, alert>>

(* a flag without an element in the queue *)
DispatchRefused ==
    /\ pc = "scan"
    /\ \E i \in Registered : FirstFlag(i) /\ queue[lookup[i]] = <<>>
    /\ Stop("pop")
    /\ UNCHANGED <<table, queue, notifications, flags, running>>

(* the loop over the flags *)
Scan ==
    IF \E i \in Registered : FirstFlag(i) /\ queue[lookup[i]] = <<>>
    THEN DispatchRefused
    ELSE Dispatch

HandlerReturn ==
    /\ pc = "handler"
    /\ pc' = "loop"
    /\ UNCHANGED <<table, queue, notifications, flags, running, alert>>

(* Init, after a reset *)
Restart ==
    /\ nextHandle' = 0
    /\ priority' = [h \in Handles |-> 0]
    /\ mask' = [h \in Handles |-> {}]
    /\ queue' = [h \in Handles |-> <<>>]
    /\ size' = [h \in Handles |-> 0]
    /\ lookup' = [i \in Handles |-> 0]
    /\ locked' = FALSE
    /\ notifications' = {}
    /\ pc' = "setup"
    /\ flags' = {}
    /\ running' = 0
    /\ alert' = "none"

(* The watchdog, enabled by reactor_run, resets a program that stopped     *)
(* unless alert_record disabled it.  Before reactor_run it is off, and the *)
(* program stays where it stopped.                                         *)
WatchdogReset == pc = "stopped" /\ locked /\ ~Debug /\ Restart

Next ==
    \/ \E prio \in Priorities, n \in QueueSizes : Register(prio, n)
    \/ RegisterRefused
    \/ \E h \in Registered, d \in Data :
          SetupNotify(h, d) \/ HandlerNotify(h, d) \/ InterruptNotify(h, d)
    \/ InterruptWake
    \/ Run \/ Sleep \/ Snapshot
    \/ Scan \/ HandlerReturn
    \/ WatchdogReset

(* The loop never stops by itself, handlers return, and the watchdog is    *)
(* hardware.                                                               *)
Loop == Sleep \/ Snapshot \/ Scan \/ HandlerReturn

Spec == Init /\ [][Next]_vars
Fairness == WF_vars(Loop) /\ WF_vars(WatchdogReset)
FairSpec == Spec /\ Fairness

-----------------------------------------------------------------------------
(* Every field keeps its range and the tables their sizes. *)
TypeOK ==
    /\ nextHandle \in 0..MaxHandlers
    /\ priority \in [Handles -> Nat]
    /\ mask \in [Handles -> SUBSET (0..(MaskBits - 1))]
    /\ queue \in [Handles -> Seq(Data)]
    /\ size \in [Handles -> Nat]
    /\ lookup \in [Handles -> Handles]
    /\ locked \in BOOLEAN
    /\ notifications \subseteq 0..(MaskBits - 1)
    /\ pc \in {"setup", "run", "loop", "asleep", "scan", "handler", "stopped"}
    /\ flags \subseteq 0..(MaskBits - 1)
    /\ running \in Handles
    /\ alert \in {"none", "register", "pop"}

(* Once the loop runs, the bit of a handler is set exactly when its queue  *)
(* holds something, although interrupts set the bit and fill the queue     *)
(* while the loop empties both: no notification is forgotten and no        *)
(* handler is called for nothing.                                          *)
FlagIffPending ==
    locked => /\ notifications \subseteq Registered
              /\ \A i \in Registered :
                    i \in notifications <=> queue[lookup[i]] # <<>>

(* The assertion that a flagged queue is not empty (reactor.c:282) never   *)
(* stops the program: a flag seen in the snapshot still has its element    *)
(* when the loop gets to it, whatever interrupts did in between.           *)
NeverPopsEmpty == alert # "pop"

(* The loop over the snapshot always finds a handler to call. *)
ScanFindsHandler == pc = "scan" => Registered \cap flags # {}

(* The processor never sleeps while a handler has something to do. *)
NoLostWakeup == pc = "asleep" => \A h \in Registered : queue[h] = <<>>

(* Whatever order qsort gives to equal priorities, when a handler is       *)
(* called, no handler of a higher priority was pending at the snapshot: a  *)
(* notification waits for at most one handler of a lower priority.         *)
HighestFirst ==
    [][pc = "scan" /\ pc' = "handler" =>
          \A i \in flags : priority[lookup[i]] <= priority[running']]_vars

(* a handler the loop looks at before h has something to do *)
PendingBefore(h) ==
    \E i, j \in Registered : i < j /\ lookup[j] = h /\ queue[lookup[i]] # <<>>

(* reactor.c:121: "Providing the system has enough processing time, a      *)
(* handler should eventually be called": when the handlers before it are   *)
(* at last quiet, a pending handler is called, unless an assertion stopped *)
(* the program.                                                            *)
EventuallyCalled ==
    \A h \in Handles :
        <>[](~PendingBefore(h)) =>
            []((h \in Registered /\ locked /\ queue[h] # <<>>)
                  => <>((pc = "handler" /\ running = h) \/ pc = "stopped"))

(* All of it together: the masks, the flags and the sorted table do what   *)
(* EventLoop promises, whatever interrupts come between two steps.         *)
Waiting == IF pc = "scan" THEN {lookup[i] : i \in flags} ELSE {}
Phase == CASE pc \in {"run", "loop"} -> "loop"
           [] pc = "scan" -> "call"
           [] OTHER -> pc

Promise == INSTANCE EventLoop WITH
    registered <- Registered, waiting <- Waiting, phase <- Phase
EventLoopSpec == Promise!Spec
=============================================================================
