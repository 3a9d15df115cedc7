---------------------------- MODULE DigitalOutput ----------------------------
(***************************************************************************)
(* The blink sequences of asx/src/digital_output.c.  An output is set, or  *)
(* started on a sequence: every item sets the pin and arms a timer, whose  *)
(* expiry notifies the one handler that all outputs share to do the next   *)
(* item.                                                                   *)
(*                                                                         *)
(* The handler's priority, 180, is above that of the program's handlers    *)
(* (conf_prio.h asks for 80, but digital_output.c does not include it): a  *)
(* call is made only when no item is pending.  A timer may expire at any   *)
(* time: the durations of the items are not modelled.                      *)
(***************************************************************************)
EXTENDS Integers, FiniteSets, QueueOps

CONSTANTS
    Outputs,    \* the outputs declared by digital_output
    Sequences,  \* the sequences started: their items, whether the last item
                \* has a duration, and repeat
    QueueSize   \* DIGITAL_OUTPUT_MAX_CONCURRENT_SEQUENCE

(* "+" and "-" set the pin; an item that is only a duration leaves it *)
Effects == {"on", "off", "same"}

ASSUME OutputAssumption ==
    /\ IsFiniteSet(Outputs)
    /\ QueueSize \in Nat
    /\ Cardinality(Outputs) <= QueueSize
    /\ Sequences \subseteq [items : Seq(Effects), timed : BOOLEAN, repeat : BOOLEAN]

VARIABLES
    pin,        \* the level of the pin
    sequence,   \* sequence and repeat
    position,   \* the position of next in sequence
    stepTimers, \* how many timers are armed for the output, up to one each:
                \* the one its field timer names, and others
    steps,      \* what the queue of the handler holds
    setLevel    \* what the program last set, "none" after a start or toggle

outputVars == <<pin, sequence, position, stepTimers, steps, setLevel>>

NoSequence == [items |-> <<>>, timed |-> FALSE, repeat |-> FALSE]

OutputInit ==
    /\ pin = [o \in Outputs |-> "off"]
    /\ sequence = [o \in Outputs |-> NoSequence]
    /\ position = [o \in Outputs |-> 1]
    /\ stepTimers = [o \in Outputs |-> [named |-> 0, other |-> 0]]
    /\ steps = <<>>
    /\ setLevel = [o \in Outputs |-> "none"]

(* _parse_next, at position n of s on a pin at p: the pin, the next        *)
(* position and whether a whole item was read.  An item without a duration *)
(* at the end of the string is applied, and is the end of the sequence;    *)
(* after one with a duration the end is found by the next call.            *)
Parsed(s, n, p) ==
    LET ended == n > Len(s.items)
        last  == n = Len(s.items) /\ ~s.timed
    IN  [pin  |-> IF ended \/ s.items[n] = "same" THEN p ELSE s.items[n],
         next |-> IF ended \/ last THEN 1 ELSE n + 1,
         more |-> ~ended /\ ~last]

(* _cancel_sequence, which resets its own copy of the instance only *)
StepCancelled(t) == [t EXCEPT !.named = 0]

(* timer = 0: a timer it named is still armed *)
StepForgotten(t) == [named |-> 0, other |-> IF t.named = 1 THEN 1 ELSE t.other]

(* timer = timer_arm(...) *)
StepArmed(t) == [StepForgotten(t) EXCEPT !.named = 1]

(* Mutant: a timer is armed after the last item too *)
StepAlways(o, s, n, t) ==
    LET item == Parsed(s, n, pin[o])
    IN  /\ pin' = [pin EXCEPT ![o] = item.pin]
        /\ position' = [position EXCEPT ![o] = item.next]
        /\ stepTimers' = [stepTimers EXCEPT ![o] = StepArmed(t)]

(* _digital_output_reactor_handler with timers t: the next item of s, and  *)
(* a timer unless it ended a sequence that is not repeated                 *)
Step(o, s, n, t) ==
    LET item == Parsed(s, n, pin[o])
    IN  /\ pin' = [pin EXCEPT ![o] = item.pin]
        /\ position' = [position EXCEPT ![o] = item.next]
        /\ stepTimers' = [stepTimers EXCEPT ![o] =
                         IF item.more \/ s.repeat THEN StepArmed(t)
                                                    ELSE StepForgotten(t)]

(* Mutant: the handler has the priority of its callers, as conf_prio.h has *)
CallAtOnce == TRUE

(* a handler of a lower priority runs *)
Call == steps = <<>>

(* digitial_output_set *)
Set(o, v) ==
    /\ Call
    /\ pin' = [pin EXCEPT ![o] = v]
    /\ stepTimers' = [stepTimers EXCEPT ![o] = StepCancelled(@)]
    /\ setLevel' = [setLevel EXCEPT ![o] = v]
    /\ UNCHANGED <<sequence, position, steps>>

(* digitial_output_toggle *)
Toggle(o) ==
    /\ Call
    /\ pin' = [pin EXCEPT ![o] = IF @ = "on" THEN "off" ELSE "on"]
    /\ stepTimers' = [stepTimers EXCEPT ![o] = StepCancelled(@)]
    /\ setLevel' = [setLevel EXCEPT ![o] = pin'[o]]
    /\ UNCHANGED <<sequence, position, steps>>

(* Mutant: the timer of the sequence that runs is not cancelled *)
StartNotCancelled(o, s) ==
    /\ Call
    /\ sequence' = [sequence EXCEPT ![o] = s]
    /\ Step(o, s, 1, stepTimers[o])
    /\ setLevel' = [setLevel EXCEPT ![o] = "none"]
    /\ UNCHANGED steps

(* digitial_output_start: the timer is cancelled, the first item applied *)
Start(o, s) ==
    /\ Call
    /\ sequence' = [sequence EXCEPT ![o] = s]
    /\ Step(o, s, 1, StepCancelled(stepTimers[o]))
    /\ setLevel' = [setLevel EXCEPT ![o] = "none"]
    /\ UNCHANGED steps

(* timer_dispatch: a timer of o expires *)
ExpireStep(o, t) ==
    /\ stepTimers[o][t] = 1
    /\ stepTimers' = [stepTimers EXCEPT ![o][t] = 0]
    /\ steps' = PushedRing(steps, o, QueueSize)
    /\ UNCHANGED <<pin, sequence, position, setLevel>>

(* the reactor calls the handler *)
OnStep ==
    /\ steps # <<>>
    /\ LET o == Head(steps)
       IN  Step(o, sequence[o], position[o], stepTimers[o])
    /\ steps' = Tail(steps)
    /\ UNCHANGED <<sequence, setLevel>>

OutputNext ==
    \/ \E o \in Outputs :
          \/ \E v \in {"on", "off"} : Set(o, v)
          \/ Toggle(o)
          \/ \E s \in Sequences : Start(o, s)
          \/ \E t \in {"named", "other"} : ExpireStep(o, t)
    \/ OnStep

OutputSpec == OutputInit /\ [][OutputNext]_outputVars

(* Timers that are not cancelled expire, and the handler is called. *)
OutputFairness ==
    /\ WF_outputVars(OnStep)
    /\ \A o \in Outputs : WF_outputVars(ExpireStep(o, "named"))

-----------------------------------------------------------------------------
(* Every variable keeps its range, and a position is one of its sequence   *)
(* or the end of it.                                                       *)
OutputTypeOK ==
    /\ pin \in [Outputs -> {"on", "off"}]
    /\ sequence \in [Outputs -> Sequences \cup {NoSequence}]
    /\ position \in [Outputs -> Nat]
    /\ \A o \in Outputs : position[o] \in 1..(Len(sequence[o].items) + 1)
    /\ stepTimers \in [Outputs -> [named : 0..1, other : 0..1]]
    /\ steps \in Seq(Outputs)
    /\ setLevel \in [Outputs -> {"on", "off", "none"}]

(* digital_output.h:14, "When driven directly, the sequence is immediately *)
(* stopped": a pin keeps the level it was set to until the next call: no   *)
(* item of an earlier sequence, whose timer may have expired before it     *)
(* was cancelled, changes it.                                              *)
SetSticks == \A o \in Outputs : setLevel[o] # "none" => pin[o] = setLevel[o]

Steps(o) ==
    stepTimers[o].named + stepTimers[o].other
        + Cardinality({i \in DOMAIN steps : steps[i] = o})

(* A sequence that is started over and over, set and cancelled never runs  *)
(* twice at once: at most one item of an output is on its way, so that the *)
(* queue the outputs share never drops one, and a repeated sequence always *)
(* has one.                                                                *)
OneSequence ==
    \A o \in Outputs :
        /\ Steps(o) <= 1
        /\ setLevel[o] = "none" /\ sequence[o].repeat => Steps(o) = 1

(* A sequence that is not repeated comes to its end when it is let alone.  *)
SequenceEnds ==
    \A o \in Outputs :
        <>[][\A s \in Sequences : ~Start(o, s)]_outputVars =>
            <>[](~sequence[o].repeat => Steps(o) = 0)
=============================================================================
