------------------------------- MODULE TimerSet -------------------------------
(***************************************************************************)
(* What the timer service promises: armed timers, each with the time it is *)
(* due.  A due timer is delivered to its reactor handler, the earliest     *)
(* first and never before its time; a repeating timer is due again one     *)
(* period after it was due; a cancelled timer is not delivered.            *)
(***************************************************************************)
EXTENDS Integers

CONSTANTS
    Delays,     \* how far from now a timer is due when it is armed
    Periods     \* of the repeating timers; 0 for the others

VARIABLES
    now,        \* milliseconds since the start
    armed,      \* the armed timers
    last,       \* the last identity given to a timer
    delivered   \* the last timer delivered

vars == <<now, armed, last, delivered>>

Timer(id, due, repeat) == [id |-> id, due |-> due, repeat |-> repeat]
NoTimer == Timer(-1, 0, 0)

Init ==
    /\ now = 0
    /\ armed = {}
    /\ last = -1
    /\ delivered = NoTimer

Tick ==
    /\ now' = now + 1
    /\ UNCHANGED <<armed, last, delivered>>

Arm(delay, repeat) ==
    /\ last' = last + 1
    /\ armed' = armed \cup {Timer(last', now + delay, repeat)}
    /\ UNCHANGED <<now, delivered>>

Cancel(t) ==
    /\ t \in armed
    /\ armed' = armed \ {t}
    /\ UNCHANGED <<now, last, delivered>>

Deliver(t) ==
    /\ t \in armed
    /\ t.due <= now
    /\ \A u \in armed : t.due <= u.due
    /\ delivered' = t
    /\ \/ /\ t.repeat = 0
          /\ armed' = armed \ {t}
          /\ UNCHANGED last
       \/ /\ t.repeat # 0
          /\ last' = last + 1
          /\ armed' = (armed \ {t}) \cup {Timer(last', t.due + t.repeat, t.repeat)}
    /\ UNCHANGED now

Next ==
    \/ Tick
    \/ \E delay \in Delays, repeat \in Periods : Arm(delay, repeat)
    \/ \E t \in armed : Cancel(t) \/ Deliver(t)

Spec == Init /\ [][Next]_vars
=============================================================================
