-------------------------------- MODULE Timer --------------------------------
(***************************************************************************)
(* The timer service of asx/src/timer.c: a free running millisecond        *)
(* counter incremented by an interrupt, and a circular list of the armed   *)
(* timers sorted by expiry, from the active slot up to the available one.  *)
(* timer_arm, timer_cancel and timer_dispatch all run in the reactor, so   *)
(* only the tick interrupt comes in between; timer_dispatch is one step    *)
(* per timer since a tick may come while it runs.                          *)
(*                                                                         *)
(* The counter is clock modulo Wrap: clock, and the due field of a timer,  *)
(* are not in the code, they are the real time its counts stand for.       *)
(***************************************************************************)
EXTENDS Integers, FiniteSets

CONSTANTS
    Slots,          \* TIMER_MAX_CALLBACK
    Wrap,           \* 2^32, the number of values of timer_count_t
    Delays,         \* delays asked of timer_get_count_from_now
    Periods,        \* repeat arguments, 0 for a timer that does not repeat
    Args,           \* arguments of the timers
    NoArg,          \* NULL
    MaxArmed,       \* bound: timers armed by the program at the same time
    MaxClock,       \* bound: milliseconds of a behaviour
    MaxInstance     \* bound: instances given to timer_arm calls

ASSUME TimerAssumption ==
    /\ Slots \in Nat \ {0}
    /\ Wrap \in Nat \ {0}
    /\ Delays \subseteq Nat
    /\ Periods \subseteq Nat
    /\ MaxArmed \in 1..Slots
    /\ MaxClock \in Nat
    /\ MaxInstance \in Nat

VARIABLES
    list,       \* _timer_future_sorted_list
    active,     \* _timer_slot_active
    avail,      \* _timer_slot_avail
    instance,   \* _timer_current_instance, -1 for TIMER_INVALID_INSTANCE
    clock,      \* ticks since the start: the counter before it wraps
    tick,       \* the reactor holds a notification of timer_dispatch
    timeNow,    \* the copy of the counter timer_dispatch took
    pc,         \* whether timer_dispatch is running
    delivered,  \* the last timer whose reactor was notified
    alert       \* whether timer_arm stopped the program

vars == <<list, active, avail, instance, clock, tick, timeNow, pc,
          delivered, alert>>

SlotIndex == 0..(Slots - 1)
Counter == clock % Wrap

(* A slot in use.  Nothing reads the other fields of a slot whose reactor  *)
(* is REACTOR_NULL_HANDLE: Free stands for all of them.                    *)
Future(id, due, repeat, arg) ==
    [id |-> id, count |-> due % Wrap, due |-> due, repeat |-> repeat, arg |-> arg]
Free == [id |-> -1, count |-> 0, due |-> 0, repeat |-> 0, arg |-> NoArg]

RightOf(s) == IF s = Slots - 1 THEN 0 ELSE s + 1
LeftOf(s) == IF s = 0 THEN Slots - 1 ELSE s - 1

(* int32_t distance from one count to another, both unsigned *)
Distance(from, to) ==
    LET d == (to - from) % Wrap IN IF 2 * d < Wrap THEN d ELSE d - Wrap

(* how far to the right of the active slot a slot is *)
Offset(s) == (s - active) % Slots
Length == Offset(avail)

-----------------------------------------------------------------------------
Init ==
    /\ list = [s \in SlotIndex |-> Free]
    /\ active = 0
    /\ avail = 0
    /\ instance = -1
    /\ clock = 0
    /\ tick = FALSE
    /\ timeNow = 0
    /\ pc = "idle"
    /\ delivered = Free
    /\ alert = FALSE

(* Mutant: the interrupt forgets to notify the reactor *)
TickSilent ==
    /\ clock < MaxClock
    /\ clock' = clock + 1
    /\ UNCHANGED <<list, active, avail, instance, tick, timeNow, pc, delivered, alert>>

(* the timer interrupt *)
Tick ==
    /\ clock < MaxClock
    /\ clock' = clock + 1
    /\ tick' = TRUE
    /\ UNCHANGED <<list, active, avail, instance, timeNow, pc, delivered, alert>>

(* the search of the insertion point: the first timer further than count *)
InsertsAt(k, count) ==
    /\ k \in 0..Length
    /\ \A s \in SlotIndex : Offset(s) < k =>
          Distance(Counter, count) >= Distance(Counter, list[s].count)
    /\ \A s \in SlotIndex : Offset(s) = k /\ k < Length =>
          Distance(Counter, count) < Distance(Counter, list[s].count)

(* The list with a new timer: the timers from the insertion point on move  *)
(* one slot to the right.                                                  *)
Inserted(future) ==
    LET k == CHOOSE k \in 0..Length : InsertsAt(k, future.count)
    IN  [s \in SlotIndex |->
            IF Offset(s) = k THEN future
            ELSE IF Offset(s) \in (k + 1)..Length THEN list[LeftOf(s)]
            ELSE list[s]]

Full == active = avail /\ list[active] # Free

(* timer_arm(reactor, timer_get_count_from_now(delay), repeat, arg): a     *)
(* tick may come after the caller read the counter.                        *)
Arm(delay, repeat, arg, lag) ==
    /\ pc = "idle"
    /\ ~alert
    /\ ~Full
    /\ Length < MaxArmed
    /\ instance < MaxInstance
    /\ clock >= lag
    /\ instance' = instance + 1
    /\ list' = Inserted(Future(instance', clock - lag + delay, repeat, arg))
    /\ avail' = RightOf(avail)
    /\ UNCHANGED <<active, clock, tick, timeNow, pc, delivered, alert>>

(* the assertion of timer_arm *)
ArmRefused ==
    /\ pc = "idle"
    /\ ~alert
    /\ Full
    /\ alert' = TRUE
    /\ UNCHANGED <<list, active, avail, instance, clock, tick, timeNow, pc, delivered>>

(* timer_cancel of an instance in the list: the timers to its right move   *)
(* one slot to the left.  Of any other instance it changes nothing.        *)
Cancel(s) ==
    /\ pc = "idle"
    /\ ~alert
    /\ Offset(s) < Length
    /\ avail' = LeftOf(avail)
    /\ list' = [r \in SlotIndex |->
                    IF r = avail' THEN Free
                    ELSE IF Offset(r) \in Offset(s)..(Length - 1) THEN list[RightOf(r)]
                    ELSE list[r]]
    /\ UNCHANGED <<active, instance, clock, tick, timeNow, pc, delivered, alert>>

(* The reactor calls timer_dispatch, which reads the counter. *)
DispatchBegin ==
    /\ pc = "idle"
    /\ ~alert
    /\ tick
    /\ tick' = FALSE
    /\ timeNow' = Counter
    /\ pc' = "dispatch"
    /\ UNCHANGED <<list, active, avail, instance, clock, delivered, alert>>

(* Mutants: off by one millisecond, late or early *)
ExpiredLate(s) == timeNow > list[s].count
ExpiredEarly(s) == timeNow + 1 >= list[s].count

Expired(s) == timeNow >= list[s].count

(* Mutant: the slot of an expired timer is not marked as free *)
DispatchNotFreed ==
    /\ pc = "dispatch"
    /\ active # avail
    /\ Expired(active)
    /\ list[active].repeat = 0
    /\ delivered' = list[active]
    /\ active' = RightOf(active)
    /\ UNCHANGED <<list, instance, avail, clock, tick, timeNow, pc, alert>>

(* The oldest timer expired: its reactor is notified and its slot freed; a *)
(* repeating one is armed again one period after its count, with no        *)
(* argument.                                                               *)
DispatchExpired ==
    /\ pc = "dispatch"
    /\ active # avail
    /\ Expired(active)
    /\ delivered' = list[active]
    /\ IF list[active].repeat # 0
       THEN /\ instance' = instance + 1
            /\ avail' = RightOf(avail)
            /\ LET next == Future(instance', list[active].due + list[active].repeat,
                                  list[active].repeat, NoArg)
               IN  list' = [Inserted(next) EXCEPT ![active] = Free]
       ELSE /\ list' = [list EXCEPT ![active] = Free]
            /\ UNCHANGED <<instance, avail>>
    /\ active' = RightOf(active)
    /\ UNCHANGED <<clock, tick, timeNow, pc, alert>>

DispatchEnd ==
    /\ pc = "dispatch"
    /\ active # avail => ~Expired(active)
    /\ pc' = "idle"
    /\ UNCHANGED <<list, active, avail, instance, clock, tick, timeNow,
                   delivered, alert>>

Dispatch == DispatchBegin \/ DispatchExpired \/ DispatchEnd

Next ==
    \/ Tick
    \/ \E delay \in Delays, repeat \in Periods, arg \in Args, lag \in 0..1 :
          Arm(delay, repeat, arg, lag)
    \/ ArmRefused
    \/ \E s \in SlotIndex : Cancel(s)
    \/ Dispatch

Spec == Init /\ [][Next]_vars

(* The reactor calls timer_dispatch again and again: no handler has a      *)
(* higher priority on the controller, and it returns.                      *)
FairSpec == Spec /\ WF_vars(Tick) /\ WF_vars(Dispatch)

-----------------------------------------------------------------------------
(* the slots in use, by the test of timer_arm when the two indices meet *)
Used == IF Full THEN SlotIndex ELSE {s \in SlotIndex : Offset(s) < Length}

(* Every field keeps its range. *)
TypeOK ==
    /\ DOMAIN list = SlotIndex
    /\ \A s \in SlotIndex :
          /\ list[s].id \in -1..instance
          /\ list[s].count \in 0..(Wrap - 1)
          /\ list[s].repeat \in Periods \cup {0}
          /\ list[s].arg \in Args \cup {NoArg}
    /\ active \in SlotIndex
    /\ avail \in SlotIndex
    /\ instance \in Int
    /\ clock \in 0..MaxClock
    /\ tick \in BOOLEAN
    /\ timeNow \in 0..(Wrap - 1)
    /\ pc \in {"idle", "dispatch"}
    /\ alert \in BOOLEAN

(* The test of timer_arm for a list with no room relies on it: a slot      *)
(* holds a timer exactly when it lies between the active and the available *)
(* one, however timers were inserted, cancelled and dispatched.            *)
OnlyUsedHoldTimers == \A s \in SlotIndex : list[s] # Free <=> s \in Used

(* timer_dispatch stops at the first timer that has not expired: the list  *)
(* is sorted by the real time the timers are due.                          *)
Sorted ==
    \A r, s \in Used : Offset(r) < Offset(s) => list[r].due <= list[s].due

(* The list is well formed after every call and between two timers that a  *)
(* dispatch delivers.                                                      *)
ListOK == TypeOK /\ OnlyUsedHoldTimers /\ Sorted

(* The list as a set of timers *)
Armed == {[id |-> list[s].id, due |-> list[s].due, repeat |-> list[s].repeat] :
             s \in Used}
Promise == INSTANCE TimerSet WITH
    Delays <- Delays \cup {d - 1 : d \in Delays},
    now <- clock,
    armed <- Armed,
    last <- instance,
    delivered <- [id |-> delivered.id, due |-> delivered.due,
                  repeat |-> delivered.repeat]

(* Before the counter wraps, the service delivers exactly the armed        *)
(* timers, in order of expiry and never early, repeating ones without      *)
(* drift, and no cancelled one.                                            *)
TimerSetSpec == Promise!Spec

LateAfterDispatch == \E s \in Used : list[s].due <= timeNow

(* When timer_dispatch returns, every timer that had expired when it was   *)
(* called has been delivered, unless the list is full.                     *)
DispatchComplete ==
    [][pc = "dispatch" /\ pc' = "idle" /\ ~Full => ~LateAfterDispatch]_vars

(* While the list never fills up, an armed timer does not stay armed for   *)
(* ever: it is delivered or cancelled (the clock of the model stops at     *)
(* MaxClock, and a timer of the last two milliseconds may be armed after   *)
(* the last tick).                                                         *)
EventuallyDelivered ==
    [](~Full) =>
        \A id \in 0..(MaxInstance + MaxClock) :
            (\E t \in Armed : t.id = id /\ t.due + 1 < MaxClock)
                ~> ~(\E t \in Armed : t.id = id)

(* timer.c:202, "The returned value may roll over", and timer.c:259-261    *)
(* expect timers whose count rolled over: they too wait for their time.    *)
NeverEarly == [][delivered' # delivered => delivered'.due <= clock]_vars
=============================================================================
