---------------------------- MODULE ReactorProofs ----------------------------
(***************************************************************************)
(* For every number of handlers, priorities, queue sizes and widths: the   *)
(* reactor keeps its types, its flags agree with its queues, and it calls  *)
(* handlers by priority.  The flags agree only if nothing above the int    *)
(* shift of reactor_register is notified before the loop (PreRunSafe).     *)
(***************************************************************************)
EXTENDS Reactor, SequenceTheorems, TLAPS

PreRunSafe == PreRunHandles \subseteq 0..(IntBits - 2)

-----------------------------------------------------------------------------
LEMMA QueueLemma ==
    ASSUME NEW q \in Seq(Data), NEW d \in Data, NEW n \in Nat \ {0}
    PROVE  PushedRing(q, d, n) \in Seq(Data) /\ PushedRing(q, d, n) # <<>>
<1>1. \A s \in Seq(Data) : Append(s, d) \in Seq(Data) /\ Append(s, d) # <<>>
  BY AppendProperties
<1>2. ASSUME ~(Len(q) < n)
      PROVE  Append(Tail(q), d) \in Seq(Data) /\ Append(Tail(q), d) # <<>>
  <2>1. q # <<>>
    BY <1>2, EmptySeq, LenProperties
  <2>2. Tail(q) \in Seq(Data)
    BY <2>1, HeadTailProperties
  <2> QED
    BY <1>1, <2>2
<1> QED
  BY <1>1, <1>2 DEF PushedRing

LEMMA IntShiftLemma ==
    ASSUME NEW h \in Handles
    PROVE  IntShift(h) \subseteq 0..(MaskBits - 1)
BY ReactorAssumption DEF IntShift, Handles

-----------------------------------------------------------------------------
(* Type correctness.  The capacities of the registered queues are needed:  *)
(* queue_push_ring would index an empty buffer otherwise.                  *)
TInv ==
    /\ TypeOK
    /\ \A h \in Registered : size[h] \in Nat \ {0}

LEMMA TypeInit == Init => TInv
<1> SUFFICES ASSUME Init PROVE TInv
  OBVIOUS
<1>1. <<>> \in Seq(Data)
  BY EmptySeq
<1>2. 0 \in Handles
  BY ReactorAssumption DEF Handles
<1>3. nextHandle \in 0..MaxHandlers
  BY ReactorAssumption DEF Init
<1>4. TypeOK
  BY <1>1, <1>2, <1>3 DEF Init, TypeOK
<1>5. Registered = {}
  BY DEF Init, Registered
<1> QED
  BY <1>4, <1>5 DEF TInv

LEMMA RegisteredHandles ==
    ASSUME TypeOK
    PROVE  Registered \subseteq Handles
BY ReactorAssumption DEF TypeOK, Registered, Handles

LEMMA NotifyType ==
    ASSUME TInv, NEW h \in Registered, NEW d \in Data, Notify(h, d)
    PROVE  /\ notifications' \subseteq 0..(MaskBits - 1)
           /\ queue' \in [Handles -> Seq(Data)]
           /\ queue'[h] # <<>>
           /\ \A g \in Handles \ {h} : queue'[g] = queue[g]
<1>1. h \in Handles /\ size[h] \in Nat \ {0} /\ queue[h] \in Seq(Data)
  BY RegisteredHandles DEF TInv, TypeOK
<1>2. /\ PushedRing(queue[h], d, size[h]) \in Seq(Data)
      /\ PushedRing(queue[h], d, size[h]) # <<>>
  BY <1>1, QueueLemma
<1> QED
  BY <1>1, <1>2 DEF Notify, TInv, TypeOK

LEMMA TypeStep == TInv /\ [Next]_vars => TInv'
<1> SUFFICES ASSUME TInv, [Next]_vars PROVE TInv'
  OBVIOUS
<1>0. Registered \subseteq Handles
  BY RegisteredHandles DEF TInv
<1>1. ASSUME NEW prio \in Priorities, NEW n \in QueueSizes, Register(prio, n)
      PROVE  TInv'
  <2>1. nextHandle \in Handles /\ IntShift(nextHandle) \subseteq 0..(MaskBits - 1)
    BY <1>1, IntShiftLemma, ReactorAssumption DEF Register, TInv, TypeOK, Handles
  <2>2. prio \in Nat /\ n \in Nat \ {0}
    BY ReactorAssumption
  <2>3. TypeOK'
    <3>1. nextHandle' \in 0..MaxHandlers /\ <<>> \in Seq(Data)
      BY <1>1, EmptySeq, ReactorAssumption DEF Register, TInv, TypeOK
    <3> QED
      BY <1>1, <2>1, <2>2, <3>1 DEF Register, TInv, TypeOK
  <2>4. ASSUME NEW h \in Registered' PROVE size'[h] \in Nat \ {0}
    <3>1. h = nextHandle \/ h \in Registered
      BY <1>1 DEF Register, Registered, TInv, TypeOK
    <3> QED
      BY <1>0, <1>1, <2>1, <2>2, <3>1 DEF Register, TInv, TypeOK
  <2> QED
    BY <2>3, <2>4 DEF TInv
<1>2. CASE RegisterRefused
  BY <1>2 DEF RegisterRefused, Stop, table, TInv, TypeOK, Registered
<1>3. ASSUME NEW h \in Registered, NEW d \in Data,
             SetupNotify(h, d) \/ HandlerNotify(h, d) \/ InterruptNotify(h, d)
      PROVE  TInv'
  <2>1. Notify(h, d)
    BY <1>3 DEF SetupNotify, HandlerNotify, InterruptNotify
  <2>2. /\ notifications' \subseteq 0..(MaskBits - 1)
        /\ queue' \in [Handles -> Seq(Data)]
    BY <2>1, NotifyType
  <2>3. /\ UNCHANGED <<nextHandle, priority, mask, size, lookup, locked>>
        /\ UNCHANGED <<flags, running, alert>>
        /\ pc' \in {"setup", "run", "loop", "asleep", "scan", "handler", "stopped"}
    BY <1>3 DEF SetupNotify, HandlerNotify, InterruptNotify, table, TInv, TypeOK
  <2> QED
    BY <2>2, <2>3 DEF TInv, TypeOK, Registered
<1>4. CASE InterruptWake
  BY <1>4 DEF InterruptWake, table, TInv, TypeOK, Registered
<1>5. CASE Run
  <2>1. PICK p \in [Registered -> Registered] : Sort(p)
    BY <1>5 DEF Run
  <2>2. /\ lookup' \in [Handles -> Handles]
        /\ mask' \in [Handles -> SUBSET (0..(MaskBits - 1))]
        /\ notifications' \subseteq 0..(MaskBits - 1)
    <3>1. Registered \subseteq 0..(MaskBits - 1)
      BY ReactorAssumption DEF TInv, TypeOK, Registered
    <3> QED
      BY <1>0, <2>1, <3>1 DEF Sort, TInv, TypeOK
  <2> QED
    BY <1>5, <2>2 DEF Run, TInv, TypeOK, Registered
<1>6. CASE Sleep
  BY <1>6 DEF Sleep, table, TInv, TypeOK, Registered
<1>7. CASE Snapshot
  BY <1>7 DEF Snapshot, table, TInv, TypeOK, Registered
<1>8. CASE Dispatch
  <2>1. running' \in Handles /\ queue[running'] \in Seq(Data) /\ queue[running'] # <<>>
    BY <1>0, <1>8 DEF Dispatch, TInv, TypeOK
  <2>2. Tail(queue[running']) \in Seq(Data)
    BY <2>1, HeadTailProperties
  <2>3. queue' \in [Handles -> Seq(Data)] /\ notifications' \subseteq 0..(MaskBits - 1)
    BY <1>8, <2>1, <2>2 DEF Dispatch, TInv, TypeOK
  <2> QED
    BY <1>8, <2>1, <2>3 DEF Dispatch, table, TInv, TypeOK, Registered
<1>9. CASE DispatchRefused
  BY <1>9 DEF DispatchRefused, Stop, table, TInv, TypeOK, Registered
<1>10. CASE HandlerReturn
  BY <1>10 DEF HandlerReturn, table, TInv, TypeOK, Registered
<1>11. CASE WatchdogReset
  <2>1. TypeOK'
    <3>1. <<>> \in Seq(Data)
      BY EmptySeq
    <3>2. 0 \in Handles /\ 0 \in 0..MaxHandlers
      BY ReactorAssumption DEF Handles
    <3> QED
      BY <1>11, <3>1, <3>2 DEF WatchdogReset, Restart, TypeOK
  <2>2. Registered' = {}
    BY <1>11 DEF WatchdogReset, Restart, Registered
  <2> QED
    BY <2>1, <2>2 DEF TInv
<1>12. CASE UNCHANGED vars
  BY <1>12 DEF vars, TInv, TypeOK, Registered
<1> QED
  BY <1>1, <1>2, <1>3, <1>4, <1>5, <1>6, <1>7, <1>8, <1>9, <1>10, <1>11, <1>12 DEF Next, Scan

(* Every field of the reactor keeps its range, whatever is registered and  *)
(* notified.                                                               *)
THEOREM TypeCorrect == Spec => []TypeOK
<1>1. TInv => TypeOK
  BY DEF TInv
<1> QED
  BY <1>1, TypeInit, TypeStep, PTL DEF Spec

-----------------------------------------------------------------------------
(* Flags and queues.  Before the loop the flag of a handler is the bit its *)
(* registration shifted; the sort gives every handler one position and     *)
(* moves the flags there; from then on a snapshot can only be outrun by    *)
(* interrupts that set more flags.                                         *)
SetupInv ==
    /\ pc \in {"setup", "stopped"}
    /\ \A h \in Registered : mask[h] = IntShift(h)
    /\ notifications \subseteq Registered \cap PreRunHandles
    /\ \A h \in Registered : h \in notifications <=> queue[h] # <<>>

SortedInv ==
    /\ \A h \in Registered : \E i \in Registered :
          \A j \in Registered : lookup[j] = h <=> j = i
    /\ \A i \in Registered : lookup[i] \in Registered /\ mask[lookup[i]] = {i}
    /\ \A i, j \in Registered : i < j => priority[lookup[i]] >= priority[lookup[j]]
    /\ pc # "setup"

SnapshotInv ==
    /\ pc = "scan" => flags \subseteq notifications /\ flags # {}
    /\ pc = "asleep" => notifications = {}

FInv ==
    /\ ~locked => SetupInv
    /\ locked => SortedInv
    /\ FlagIffPending
    /\ SnapshotInv
    /\ NeverPopsEmpty

LEMMA FlagsInit == Init => FInv
<1> SUFFICES ASSUME Init PROVE FInv
  OBVIOUS
<1>1. Registered = {}
  BY DEF Init, Registered
<1> QED
  BY <1>1 DEF Init, FInv, SetupInv, FlagIffPending, SnapshotInv, NeverPopsEmpty

(* A notification of h, seen from the position of h in the sorted table *)
LEMMA NotifyFlags ==
    ASSUME TInv, locked, SortedInv, FlagIffPending,
           NEW h \in Registered, NEW d \in Data, Notify(h, d)
    PROVE  /\ notifications \subseteq notifications'
           /\ notifications' \subseteq Registered
           /\ \A i \in Registered : i \in notifications' <=> queue'[lookup[i]] # <<>>
<1>1. /\ Registered \subseteq Handles
      /\ queue'[h] # <<>>
      /\ \A g \in Handles \ {h} : queue'[g] = queue[g]
  BY RegisteredHandles, NotifyType DEF TInv
<1>2. PICK k \in Registered : \A j \in Registered : lookup[j] = h <=> j = k
  BY DEF SortedInv
<1>3. mask[h] = {k} /\ lookup[k] = h
  BY <1>2 DEF SortedInv
<1>4. notifications' = notifications \cup {k}
  BY <1>3 DEF Notify
<1>5. ASSUME NEW i \in Registered
      PROVE  i \in notifications' <=> queue'[lookup[i]] # <<>>
  <2>1. CASE i = k
    BY <1>1, <1>3, <1>4, <2>1
  <2>2. CASE i # k
    <3>1. lookup[i] \in Handles \ {h}
      BY <1>1, <1>2, <2>2 DEF SortedInv
    <3> QED
      BY <1>1, <1>4, <2>2, <3>1 DEF FlagIffPending
  <2> QED
    BY <2>1, <2>2
<1> QED
  BY <1>4, <1>5 DEF FlagIffPending

LEMMA FlagsStep == PreRunSafe /\ TInv /\ FInv /\ [Next]_vars => FInv'
<1> SUFFICES ASSUME PreRunSafe, TInv, FInv, [Next]_vars PROVE FInv'
  OBVIOUS
<1>0. Registered \subseteq Handles
  BY RegisteredHandles DEF TInv
<1>1. ASSUME NEW prio \in Priorities, NEW n \in QueueSizes, Register(prio, n)
      PROVE  FInv'
  <2>1. ~locked /\ ~locked'
    BY <1>1 DEF Register, FInv, SortedInv
  <2>2. /\ nextHandle \in Handles /\ nextHandle \notin Registered
        /\ Registered' = Registered \cup {nextHandle}
    <3>1. nextHandle \in Nat /\ nextHandle < MaxHandlers /\ nextHandle' = nextHandle + 1
      BY <1>1, ReactorAssumption DEF Register, TInv, TypeOK
    <3> QED
      BY <3>1, ReactorAssumption DEF Registered, Handles
  <2>3. /\ mask' = [mask EXCEPT ![nextHandle] = IntShift(nextHandle)]
        /\ queue' = [queue EXCEPT ![nextHandle] = <<>>]
        /\ UNCHANGED <<notifications, pc, alert>>
        /\ pc = "setup"
    BY <1>1 DEF Register
  <2>4. SetupInv
    BY <2>1 DEF FInv
  <2>5. \A h \in Registered' : mask'[h] = IntShift(h)
    BY <1>0, <2>2, <2>3, <2>4 DEF SetupInv, TInv, TypeOK
  <2>6. \A h \in Registered' : h \in notifications' <=> queue'[h] # <<>>
    BY <1>0, <2>2, <2>3, <2>4 DEF SetupInv, TInv, TypeOK
  <2>7. SetupInv'
    BY <2>2, <2>3, <2>4, <2>5, <2>6 DEF SetupInv
  <2> QED
    BY <2>1, <2>3, <2>7 DEF FInv, FlagIffPending, SnapshotInv, NeverPopsEmpty
<1>2. CASE RegisterRefused
  BY <1>2 DEF RegisterRefused, Stop, table, FInv, SetupInv, SortedInv,
              FlagIffPending, SnapshotInv, NeverPopsEmpty, Registered
<1>3. ASSUME NEW h \in Registered, NEW d \in Data, SetupNotify(h, d)
      PROVE  FInv'
  <2>1. /\ ~locked /\ ~locked' /\ pc = "setup" /\ pc' = "setup"
        /\ Registered' = Registered /\ mask' = mask /\ alert' = alert
        /\ h \in PreRunHandles /\ Notify(h, d)
    BY <1>3 DEF SetupNotify, table, FInv, SortedInv, Registered
  <2>2. mask[h] = {h}
    <3>1. mask[h] = IntShift(h)
      BY <2>1 DEF FInv, SetupInv
    <3>2. h < IntBits - 1
      BY <2>1, ReactorAssumption DEF PreRunSafe
    <3> QED
      BY <3>1, <3>2 DEF IntShift
  <2>3. /\ queue'[h] # <<>>
        /\ \A g \in Handles \ {h} : queue'[g] = queue[g]
    BY <2>1, NotifyType
  <2>4. notifications' = notifications \cup {h}
    BY <2>1, <2>2 DEF Notify
  <2>5. SetupInv'
    BY <1>0, <2>1, <2>3, <2>4 DEF FInv, SetupInv
  <2> QED
    BY <2>1, <2>5 DEF FInv, FlagIffPending, SnapshotInv, NeverPopsEmpty
<1>4. ASSUME NEW h \in Registered, NEW d \in Data,
             HandlerNotify(h, d) \/ InterruptNotify(h, d)
      PROVE  FInv'
  <2>1. /\ locked /\ locked' /\ Notify(h, d) /\ alert' = alert
        /\ Registered' = Registered /\ mask' = mask /\ flags' = flags
        /\ lookup' = lookup /\ priority' = priority
        /\ pc' # "setup" /\ pc' # "asleep" /\ (pc' = "scan" => pc = "scan")
    BY <1>4 DEF HandlerNotify, InterruptNotify, table, FInv, SetupInv, SortedInv,
                Registered, TInv, TypeOK
  <2>2. /\ notifications \subseteq notifications'
        /\ notifications' \subseteq Registered
        /\ \A i \in Registered : i \in notifications' <=> queue'[lookup[i]] # <<>>
    BY <2>1, NotifyFlags DEF FInv
  <2>3. SortedInv'
    BY <2>1 DEF FInv, SortedInv
  <2>4. FlagIffPending'
    BY <2>1, <2>2 DEF FlagIffPending
  <2>5. SnapshotInv'
    BY <2>1, <2>2 DEF FInv, SnapshotInv
  <2>6. NeverPopsEmpty'
    BY <2>1 DEF FInv, NeverPopsEmpty
  <2> QED
    BY <2>1, <2>3, <2>4, <2>5, <2>6 DEF FInv
<1>5. CASE InterruptWake
  <2>1. /\ locked /\ locked' /\ pc' = "loop"
        /\ UNCHANGED <<nextHandle, priority, mask, lookup, queue, notifications, alert>>
    BY <1>5 DEF InterruptWake, table, FInv, SetupInv
  <2>2. Registered' = Registered
    BY <2>1 DEF Registered
  <2>3. SortedInv'
    BY <2>1, <2>2 DEF FInv, SortedInv
  <2>4. FlagIffPending'
    BY <2>1, <2>2 DEF FInv, FlagIffPending
  <2>5. SnapshotInv' /\ NeverPopsEmpty'
    BY <2>1 DEF FInv, SnapshotInv, NeverPopsEmpty
  <2> QED
    BY <2>1, <2>3, <2>4, <2>5 DEF FInv
<1>6. CASE Run
  <2>1. PICK p \in [Registered -> Registered] : Sort(p)
    BY <1>6 DEF Run
  <2>2. /\ ~locked /\ locked' /\ Registered' = Registered
        /\ priority' = priority /\ queue' = queue /\ alert' = alert /\ pc' = "run"
    BY <1>6 DEF Run, FInv, SortedInv, Registered
  <2>3. \A i \in Registered : lookup'[i] = p[i] /\ p[i] \in Registered
    <3>1. lookup' = [i \in Handles |-> IF i \in Registered THEN p[i] ELSE lookup[i]]
      BY <2>1 DEF Sort
    <3> QED
      BY <1>0, <3>1
  <2>4. \A h \in Registered : \E i \in Registered :
           \A j \in Registered : lookup'[j] = h <=> j = i
    <3> SUFFICES ASSUME NEW h \in Registered
                 PROVE  \E i \in Registered :
                           \A j \in Registered : lookup'[j] = h <=> j = i
      OBVIOUS
    <3>1. PICK i \in Registered : \A j \in Registered : p[j] = h <=> j = i
      BY <2>1 DEF Sort, IsOrder
    <3>2. \A j \in Registered : lookup'[j] = h <=> j = i
      BY <2>3, <3>1
    <3> QED
      BY <3>2
  <2>5. ASSUME NEW i \in Registered PROVE mask'[p[i]] = {i}
    <3>1. p[i] \in Registered /\ p[i] \in Handles
      BY <1>0, <2>3
    <3>2. mask'[p[i]] = {j \in Registered : p[j] = p[i]}
      BY <2>1, <3>1 DEF Sort
    <3>3. \A j \in Registered : p[j] = p[i] => j = i
      BY <2>1, <3>1 DEF Sort, IsOrder
    <3> QED
      BY <3>2, <3>3
  <2>6. \A i, j \in Registered : i < j => priority'[lookup'[i]] >= priority'[lookup'[j]]
    BY <2>1, <2>2, <2>3 DEF Sort, SortedByPriority
  <2>7. SortedInv'
    BY <2>2, <2>3, <2>4, <2>5, <2>6 DEF SortedInv
  <2>8. FlagIffPending'
    <3>1. notifications' = {i \in Registered : p[i] \in notifications}
      BY <2>1 DEF Sort
    <3>2. \A h \in Registered : h \in notifications <=> queue[h] # <<>>
      BY <2>2 DEF FInv, SetupInv
    <3> QED
      BY <2>2, <2>3, <3>1, <3>2 DEF FlagIffPending
  <2> QED
    BY <2>2, <2>7, <2>8 DEF FInv, SnapshotInv, NeverPopsEmpty
<1>7. CASE Sleep
  <2>1. /\ locked /\ locked' /\ pc' = "asleep" /\ notifications' = {}
        /\ UNCHANGED <<nextHandle, priority, mask, lookup, queue, notifications, alert>>
    BY <1>7 DEF Sleep, table, FInv, SetupInv
  <2>2. Registered' = Registered
    BY <2>1 DEF Registered
  <2>3. SortedInv'
    BY <2>1, <2>2 DEF FInv, SortedInv
  <2>4. FlagIffPending'
    BY <2>1, <2>2 DEF FInv, FlagIffPending
  <2>5. SnapshotInv' /\ NeverPopsEmpty'
    BY <2>1 DEF FInv, SnapshotInv, NeverPopsEmpty
  <2> QED
    BY <2>1, <2>3, <2>4, <2>5 DEF FInv
<1>8. CASE Snapshot
  <2>1. /\ locked /\ locked' /\ pc' = "scan"
        /\ flags' = notifications /\ notifications # {}
        /\ UNCHANGED <<nextHandle, priority, mask, lookup, queue, notifications, alert>>
    BY <1>8 DEF Snapshot, table, FInv, SetupInv
  <2>2. Registered' = Registered
    BY <2>1 DEF Registered
  <2>3. SortedInv'
    BY <2>1, <2>2 DEF FInv, SortedInv
  <2>4. FlagIffPending'
    BY <2>1, <2>2 DEF FInv, FlagIffPending
  <2>5. SnapshotInv' /\ NeverPopsEmpty'
    BY <2>1 DEF FInv, SnapshotInv, NeverPopsEmpty
  <2> QED
    BY <2>1, <2>3, <2>4, <2>5 DEF FInv
<1>9. CASE Dispatch
  <2>1. PICK k \in Registered : /\ FirstFlag(k)
                                /\ queue[lookup[k]] # <<>>
                                /\ running' = lookup[k]
    BY <1>9 DEF Dispatch
  <2>2. /\ locked /\ locked' /\ Registered' = Registered /\ pc' = "handler"
        /\ priority' = priority /\ mask' = mask /\ lookup' = lookup
        /\ alert' = alert
    BY <1>9 DEF Dispatch, table, FInv, SetupInv, Registered
  <2>3. SortedInv'
    BY <2>2 DEF FInv, SortedInv
  <2>4. /\ mask[running'] = {k} /\ lookup[k] \in Handles
        /\ \A i \in Registered : i # k => lookup[i] # lookup[k] /\ lookup[i] \in Handles
    BY <1>0, <2>1, <2>2 DEF FInv, SortedInv
  <2>5. /\ queue' = [queue EXCEPT ![lookup[k]] = Tail(queue[lookup[k]])]
        /\ notifications' = IF queue'[lookup[k]] = <<>>
                            THEN notifications \ {k} ELSE notifications
    BY <1>9, <2>1, <2>4 DEF Dispatch
  <2>6. k \in notifications
    BY <2>1, <2>2 DEF FInv, FlagIffPending
  <2>7. ASSUME NEW i \in Registered
        PROVE  i \in notifications' <=> queue'[lookup[i]] # <<>>
    <3>1. CASE i = k
      BY <2>5, <2>6, <3>1
    <3>2. CASE i # k
      <4>1. queue'[lookup[i]] = queue[lookup[i]]
        BY <2>4, <2>5, <3>2 DEF TInv, TypeOK
      <4>2. i \in notifications' <=> i \in notifications
        BY <2>5, <3>2
      <4> QED
        BY <2>2, <4>1, <4>2 DEF FInv, FlagIffPending
    <3> QED
      BY <3>1, <3>2
  <2>8. FlagIffPending'
    BY <2>2, <2>5, <2>7 DEF FInv, FlagIffPending
  <2> QED
    BY <2>2, <2>3, <2>8 DEF FInv, SnapshotInv, NeverPopsEmpty
<1>10. CASE DispatchRefused
  <2>1. PICK k \in Registered : FirstFlag(k) /\ queue[lookup[k]] = <<>>
    BY <1>10 DEF DispatchRefused
  <2>2. locked /\ k \in notifications
    BY <1>10, <2>1 DEF DispatchRefused, FirstFlag, FInv, SetupInv, SnapshotInv
  <2> QED
    BY <2>1, <2>2 DEF FInv, FlagIffPending
<1>11. CASE HandlerReturn
  BY <1>11 DEF HandlerReturn, table, FInv, SetupInv, SortedInv,
               FlagIffPending, SnapshotInv, NeverPopsEmpty, Registered
<1>12. CASE WatchdogReset
  <2>1. Registered' = {}
    BY <1>12 DEF WatchdogReset, Restart, Registered
  <2> QED
    BY <1>12, <2>1 DEF WatchdogReset, Restart, FInv, SetupInv, FlagIffPending,
                       SnapshotInv, NeverPopsEmpty
<1>13. CASE UNCHANGED vars
  BY <1>13 DEF vars, FInv, SetupInv, SortedInv,
               FlagIffPending, SnapshotInv, NeverPopsEmpty, Registered
<1> QED
  BY <1>1, <1>2, <1>3, <1>4, <1>5, <1>6, <1>7, <1>8, <1>9, <1>10, <1>11, <1>12,
     <1>13 DEF Next, Scan

(* No notification is forgotten and no handler is called for nothing,      *)
(* whatever interrupts and handlers notify while the loop runs.            *)
THEOREM FlagsMatchQueues ==
    ASSUME PreRunSafe
    PROVE  Spec => []FlagIffPending
<1>1. TInv /\ FInv /\ [Next]_vars => (TInv /\ FInv)'
  BY TypeStep, FlagsStep
<1>2. FInv => FlagIffPending
  BY DEF FInv
<1> QED
  BY <1>1, <1>2, TypeInit, FlagsInit, PTL DEF Spec

(* The assertion of reactor.c:282 never fails. *)
THEOREM PopsSomething ==
    ASSUME PreRunSafe
    PROVE  Spec => []NeverPopsEmpty
<1>1. TInv /\ FInv /\ [Next]_vars => (TInv /\ FInv)'
  BY TypeStep, FlagsStep
<1>2. FInv => NeverPopsEmpty
  BY DEF FInv
<1> QED
  BY <1>1, <1>2, TypeInit, FlagsInit, PTL DEF Spec

(* The processor only sleeps when no handler has anything to do. *)
THEOREM SleepsWhenIdle ==
    ASSUME PreRunSafe
    PROVE  Spec => []NoLostWakeup
<1>1. TInv /\ FInv /\ [Next]_vars => (TInv /\ FInv)'
  BY TypeStep, FlagsStep
<1>2. FInv => NoLostWakeup
  <2> SUFFICES ASSUME FInv, pc = "asleep", NEW h \in Registered
               PROVE  queue[h] = <<>>
    BY DEF NoLostWakeup
  <2>1. locked /\ notifications = {}
    BY DEF FInv, SetupInv, SnapshotInv
  <2>2. PICK i \in Registered : lookup[i] = h
    BY <2>1 DEF FInv, SortedInv
  <2> QED
    BY <2>1, <2>2 DEF FInv, FlagIffPending
<1> QED
  BY <1>1, <1>2, TypeInit, FlagsInit, PTL DEF Spec

(* The loop over a snapshot always finds a handler to call, so that a pass *)
(* of the loop without a call, which the code allows, never happens.       *)
THEOREM ScanFinds ==
    ASSUME PreRunSafe
    PROVE  Spec => []ScanFindsHandler
<1>1. TInv /\ FInv /\ [Next]_vars => (TInv /\ FInv)'
  BY TypeStep, FlagsStep
<1>2. FInv => ScanFindsHandler
  BY DEF FInv, SetupInv, SnapshotInv, FlagIffPending, ScanFindsHandler
<1> QED
  BY <1>1, <1>2, TypeInit, FlagsInit, PTL DEF Spec

(* Whatever order qsort gives to equal priorities, no handler of a higher  *)
(* priority that was pending at the snapshot waits for the one called.     *)
THEOREM CallsHighestFirst ==
    ASSUME PreRunSafe
    PROVE  Spec => HighestFirst
<1>1. TInv /\ FInv /\ [Next]_vars => (TInv /\ FInv)'
  BY TypeStep, FlagsStep
<1>2. TInv /\ FInv /\ [Next]_vars =>
         [pc = "scan" /\ pc' = "handler" =>
             \A i \in flags : priority[lookup[i]] <= priority[running']]_vars
  <2> SUFFICES ASSUME TInv, FInv, Next, pc = "scan", pc' = "handler", NEW i \in flags
               PROVE  priority[lookup[i]] <= priority[running']
    OBVIOUS
  <2>1. Dispatch
    BY DEF Next, Scan, Register, RegisterRefused, Stop, SetupNotify, HandlerNotify,
           InterruptNotify, InterruptWake, Run, Sleep, Snapshot, DispatchRefused,
           HandlerReturn, WatchdogReset
  <2>2. PICK k \in Registered : FirstFlag(k) /\ running' = lookup[k]
    BY <2>1 DEF Dispatch
  <2>3. locked /\ i \in Registered
    BY DEF FInv, SetupInv, SnapshotInv, FlagIffPending
  <2>4. k <= i /\ k \in Int /\ i \in Int
    BY <2>2, <2>3 DEF FirstFlag, Registered
  <2>5. priority[lookup[i]] \in Nat /\ priority[lookup[k]] \in Nat
    BY <2>2, <2>3, RegisteredHandles DEF TInv, TypeOK, FInv, SortedInv
  <2>6. k < i => priority[lookup[k]] >= priority[lookup[i]]
    BY <2>2, <2>3 DEF FInv, SortedInv
  <2> QED
    BY <2>2, <2>4, <2>5, <2>6
<1> QED
  BY <1>1, <1>2, TypeInit, FlagsInit, PTL DEF Spec, HighestFirst

-----------------------------------------------------------------------------
(* The refinement.  Only a snapshot and a call look at the flags: the      *)
(* invariant turns the positions they are into the handlers waiting.       *)

LEMMA PhaseLemma ==
    /\ pc \in {"run", "loop"} => Phase = "loop"
    /\ pc = "scan" => Phase = "call"
    /\ pc \notin {"run", "loop", "scan"} => Phase = pc
    /\ pc' \in {"run", "loop"} => Phase' = "loop"
    /\ pc' = "scan" => Phase' = "call"
    /\ pc' \notin {"run", "loop", "scan"} => Phase' = pc'
BY DEF Phase

LEMMA WaitingLemma ==
    ASSUME FInv, pc = "loop" \/ pc = "run" \/ pc = "scan"
    PROVE  /\ locked
           /\ {lookup[i] : i \in notifications} = {h \in Registered : queue[h] # <<>>}
<1>1. locked /\ SortedInv /\ FlagIffPending
  BY DEF FInv, SetupInv
<1>2. ASSUME NEW i \in notifications
      PROVE  lookup[i] \in Registered /\ queue[lookup[i]] # <<>>
  BY <1>1 DEF SortedInv, FlagIffPending
<1>3. ASSUME NEW h \in Registered, queue[h] # <<>>
      PROVE  \E i \in notifications : h = lookup[i]
  <2>1. PICK i \in Registered : lookup[i] = h
    BY <1>1 DEF SortedInv
  <2> QED
    BY <1>1, <1>3, <2>1 DEF FlagIffPending
<1> QED
  BY <1>1, <1>2, <1>3

LEMMA PromiseInit == Init => Promise!Init
<1> SUFFICES ASSUME Init PROVE Promise!Init
  OBVIOUS
<1>1. Registered = {} /\ Waiting = {}
  BY DEF Init, Registered, Waiting
<1>2. Phase = "setup"
  BY DEF Init, Phase
<1> QED
  BY <1>1, <1>2 DEF Init, Promise!Init

LEMMA PromiseStep == TInv /\ FInv /\ [Next]_vars => [Promise!Next]_(Promise!vars)
<1> SUFFICES ASSUME TInv, FInv, [Next]_vars
             PROVE  Promise!Next \/ UNCHANGED Promise!vars
  OBVIOUS
<1> USE PhaseLemma
<1>0. Registered \subseteq Handles
  BY RegisteredHandles DEF TInv
<1>1. ASSUME NEW prio \in Priorities, NEW n \in QueueSizes, Register(prio, n)
      PROVE  Promise!Register(nextHandle, prio, n) /\ nextHandle \in Handles
  <2>1. /\ nextHandle \in Handles \ Registered
        /\ Registered' = Registered \cup {nextHandle}
    <3>1. nextHandle \in Nat /\ nextHandle < MaxHandlers /\ nextHandle' = nextHandle + 1
      BY <1>1, ReactorAssumption DEF Register, TInv, TypeOK
    <3> QED
      BY <3>1, ReactorAssumption DEF Registered, Handles
  <2>2. Waiting = {} /\ Waiting' = {} /\ Phase = "setup" /\ Phase' = "setup"
    BY <1>1 DEF Register, Waiting
  <2> QED
    BY <1>1, <2>1, <2>2 DEF Register, Promise!Register
(* what registers and sorts nothing *)
<1>2. ASSUME UNCHANGED <<nextHandle, priority, size, running>>
      PROVE  UNCHANGED <<Registered, priority, size, running>>
  BY <1>2 DEF Registered
<1>3. CASE RegisterRefused
  <2>1. /\ UNCHANGED <<nextHandle, priority, size, running, queue>>
        /\ pc \in {"setup", "handler"} /\ pc' = "stopped"
    BY <1>3 DEF RegisterRefused, Stop, table
  <2>2. Waiting = {} /\ Waiting' = {}
    BY <2>1 DEF Waiting
  <2>3. Phase \in {"setup", "handler"} /\ Phase' = "stopped"
    BY <2>1
  <2> QED
    BY <1>2, <2>1, <2>2, <2>3 DEF Promise!Next, Promise!Fail, Promise!handlers
<1>4. ASSUME NEW h \in Registered, NEW d \in Data,
             SetupNotify(h, d) \/ HandlerNotify(h, d) \/ InterruptNotify(h, d)
      PROVE  Promise!Notify(h, d) /\ h \in Handles
  <2>1. /\ UNCHANGED <<nextHandle, priority, size, running, lookup, flags>>
        /\ queue' = [queue EXCEPT ![h] = PushedRing(queue[h], d, size[h])]
        /\ pc' = IF pc = "asleep" THEN "loop" ELSE pc
    BY <1>4 DEF SetupNotify, HandlerNotify, InterruptNotify, Notify, table
  <2>2. UNCHANGED Waiting
    BY <2>1 DEF Waiting
  <2>3. Phase' = IF Phase = "asleep" THEN "loop" ELSE Phase
    <3>1. CASE pc = "asleep"
      BY <2>1, <3>1
    <3>2. CASE pc # "asleep"
      <4>1. pc' = pc
        BY <2>1, <3>2
      <4>2. Phase' = Phase /\ Phase # "asleep"
        BY <3>2, <4>1
      <4> QED
        BY <4>2
    <3> QED
      BY <3>1, <3>2
  <2> QED
    BY <1>0, <1>2, <2>1, <2>2, <2>3
       DEF Promise!Notify, Promise!handlers, Promise!PushedRing, PushedRing
<1>5. CASE InterruptWake
  <2>1. /\ UNCHANGED <<nextHandle, priority, size, running, queue>>
        /\ pc = "asleep" /\ pc' = "loop"
    BY <1>5 DEF InterruptWake, table
  <2>2. UNCHANGED Waiting
    BY <2>1 DEF Waiting
  <2> QED
    BY <1>2, <2>1, <2>2 DEF Promise!Next, Promise!Wake, Promise!handlers
<1>6. CASE Run
  <2>1. /\ UNCHANGED <<nextHandle, priority, size, running, queue>>
        /\ pc = "setup" /\ pc' = "run"
    BY <1>6 DEF Run
  <2>2. UNCHANGED Waiting
    BY <2>1 DEF Waiting
  <2> QED
    BY <1>2, <2>1, <2>2 DEF Promise!Next, Promise!Start, Promise!handlers
<1>7. CASE Sleep
  <2>1. /\ UNCHANGED <<nextHandle, priority, size, running, queue>>
        /\ pc \in {"run", "loop"} /\ pc' = "asleep" /\ notifications = {}
    BY <1>7 DEF Sleep, table
  <2>2. UNCHANGED Waiting
    BY <2>1 DEF Waiting
  <2>3. \A h \in Registered : queue[h] = <<>>
    BY <2>1, WaitingLemma
  <2> QED
    BY <1>2, <2>1, <2>2, <2>3 DEF Promise!Next, Promise!Sleep, Promise!handlers
<1>8. CASE Snapshot
  <2>1. /\ UNCHANGED <<nextHandle, priority, size, running, queue, lookup>>
        /\ pc \in {"run", "loop"} /\ pc' = "scan"
        /\ notifications # {} /\ flags' = notifications
    BY <1>8 DEF Snapshot, table
  <2>2. Waiting' = {lookup[i] : i \in notifications}
    BY <2>1 DEF Waiting
  <2>3. Waiting' = {h \in Registered : queue[h] # <<>>} /\ Waiting' # {}
    BY <2>1, <2>2, WaitingLemma
  <2> QED
    BY <1>2, <2>1, <2>3 DEF Promise!Next, Promise!Glance, Promise!handlers
<1>9. CASE Dispatch
  <2>1. PICK k \in Registered : FirstFlag(k) /\ queue[lookup[k]] # <<>> /\ running' = lookup[k]
    BY <1>9 DEF Dispatch
  <2>2. /\ UNCHANGED <<nextHandle, priority, size>>
        /\ queue' = [queue EXCEPT ![running'] = Tail(queue[running'])]
        /\ pc = "scan" /\ pc' = "handler"
    BY <1>9 DEF Dispatch, table
  <2>3. Waiting = {lookup[i] : i \in flags} /\ Waiting' = {} /\ UNCHANGED Registered
    BY <2>2 DEF Waiting, Registered
  <2>4. running' \in Waiting /\ running' \in Handles
    BY <1>0, <2>1, <2>2, <2>3 DEF FirstFlag, FInv, SetupInv, SortedInv
  <2>5. ASSUME NEW i \in flags PROVE priority[lookup[i]] <= priority[running']
    <3>1. locked /\ i \in Registered
      BY <2>2 DEF FInv, SetupInv, SnapshotInv, FlagIffPending
    <3>2. k <= i /\ k \in Int /\ i \in Int
      BY <2>1, <3>1 DEF FirstFlag, Registered
    <3>3. priority[lookup[i]] \in Nat /\ priority[lookup[k]] \in Nat
      BY <1>0, <3>1 DEF TInv, TypeOK, FInv, SortedInv
    <3>4. k < i => priority[lookup[k]] >= priority[lookup[i]]
      BY <3>1 DEF FInv, SortedInv
    <3> QED
      BY <2>1, <3>2, <3>3, <3>4
  <2>6. \A g \in Waiting : priority[g] <= priority[running']
    BY <2>3, <2>5
  <2>7. Promise!Call(running')
    BY <2>1, <2>2, <2>3, <2>4, <2>6 DEF Promise!Call, Promise!handlers
  <2> QED
    BY <2>4, <2>7 DEF Promise!Next
<1>10. CASE DispatchRefused
  <2>1. PICK k \in Registered : FirstFlag(k) /\ queue[lookup[k]] = <<>>
    BY <1>10 DEF DispatchRefused
  <2>2. locked /\ k \in notifications
    BY <1>10, <2>1 DEF DispatchRefused, FirstFlag, FInv, SetupInv, SnapshotInv
  <2> QED
    BY <2>1, <2>2 DEF FInv, FlagIffPending
<1>11. CASE HandlerReturn
  <2>1. /\ UNCHANGED <<nextHandle, priority, size, running, queue>>
        /\ pc = "handler" /\ pc' = "loop"
    BY <1>11 DEF HandlerReturn, table
  <2>2. UNCHANGED Waiting
    BY <2>1 DEF Waiting
  <2> QED
    BY <1>2, <2>1, <2>2 DEF Promise!Next, Promise!Return, Promise!handlers
<1>12. CASE WatchdogReset
  <2>1. /\ Restart /\ pc = "stopped" /\ pc' = "setup"
        /\ Registered' = {} /\ Waiting' = {}
    BY <1>12 DEF WatchdogReset, Restart, Registered, Waiting
  <2> QED
    BY <2>1 DEF Restart, Promise!Next, Promise!Reset
<1>13. CASE UNCHANGED vars
  BY <1>13 DEF vars, Promise!vars, Registered, Waiting, Phase
<1>14. Promise!Next \/ UNCHANGED Promise!vars
  BY <1>1, <1>3, <1>4, <1>5, <1>6, <1>7, <1>8, <1>9, <1>10, <1>11, <1>12, <1>13
     DEF Next, Scan, Promise!Next
<1> QED
  BY <1>14

(* The event loop implements the one that has neither masks nor flags:     *)
(* handlers one at a time, highest priority first among those waiting,     *)
(* every notification delivered in its queue, no sleep on a full queue.    *)
THEOREM RefinesEventLoop ==
    ASSUME PreRunSafe
    PROVE  Spec => EventLoopSpec
<1>1. TInv /\ FInv /\ [Next]_vars => (TInv /\ FInv)'
  BY TypeStep, FlagsStep
<1> QED
  BY <1>1, TypeInit, FlagsInit, PromiseInit, PromiseStep, PTL
     DEF Spec, EventLoopSpec, Promise!Spec
=============================================================================
