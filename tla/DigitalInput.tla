----------------------------- MODULE DigitalInput -----------------------------
(***************************************************************************)
(* The sampled inputs of asx/src/digital_input.c: every 5 ms a handler of  *)
(* the reactor reads all the pins, an integrator per input counts up to    *)
(* its threshold or down to 0, and an input that reaches the other end of  *)
(* its integrator notifies the handler it was registered with.             *)
(*                                                                         *)
(* Every input has a handler of its own here; inputs that share one are in *)
(* Controller.  ups, downs and streak are not in the code: they remember   *)
(* the samples, for the properties.                                        *)
(***************************************************************************)
EXTENDS Integers, QueueOps

CONSTANTS
    Inputs,     \* the chain that starts at _first_sampled
    Threshold   \* integrator_threshold: the filter in sample periods

(* With a filter shorter than the period of 5 ms the threshold is 0 and    *)
(* the input never leaves di_unknown_e; the programs use 40 ms.            *)
ASSUME InputAssumption == Threshold \in Nat \ {0}

VARIABLES
    integrator, \* sampled.integrator
    input,      \* sampled.input
    changes,    \* the queue of one of the input's handler
    told,       \* the value that handler was last called with
    ups,        \* high samples since the input last changed, up to Threshold
    downs,      \* low samples since then
    streak      \* the last samples that were alike: their level and number

inputVars == <<integrator, input, changes, told, ups, downs, streak>>

Levels == {"unknown", "off", "on"}
Counted(n) == IF n < Threshold THEN n + 1 ELSE n

(* digital_input, then digital_input_init *)
InputInit ==
    /\ integrator = [i \in Inputs |-> 0]
    /\ input = [i \in Inputs |-> "unknown"]
    /\ changes = [i \in Inputs |-> <<>>]
    /\ told = [i \in Inputs |-> "unknown"]
    /\ ups = [i \in Inputs |-> 0]
    /\ downs = [i \in Inputs |-> 0]
    /\ streak = [i \in Inputs |-> [high |-> FALSE, length |-> 0]]

(* the integrator counts, within 0 .. Threshold *)
Integrated(n, high) ==
    IF high THEN IF n < Threshold THEN n + 1 ELSE n
            ELSE IF n > 0 THEN n - 1 ELSE n

(* Mutant: off as soon as the integrator leaves the threshold *)
StateAfterHasty(s, n, m) ==
    IF m = n THEN s ELSE IF m = Threshold THEN "on" ELSE "off"

(* the input changes when the integrator reaches an end, coming from n *)
StateAfter(s, n, m) ==
    IF m = n THEN s
    ELSE IF m = Threshold THEN "on"
    ELSE IF m = 0 THEN "off" ELSE s

(* Mutant: a change is not passed on when the queue is full *)
NotifiedIfRoom(q, value) == Pushed(q, value, 1)

(* reactor_notify: the queue of one keeps the last value *)
Notified(q, value) == PushedRing(q, value, 1)

(* _digital_input_sample, with the pins of high at the high level *)
Sample(high) ==
    /\ integrator' = [i \in Inputs |-> Integrated(integrator[i], i \in high)]
    /\ input' = [i \in Inputs |->
                    StateAfter(input[i], integrator[i], integrator'[i])]
    /\ changes' = [i \in Inputs |-> IF input'[i] # input[i]
                                  THEN Notified(changes[i], input'[i])
                                  ELSE changes[i]]
    /\ ups' = [i \in Inputs |-> IF input'[i] # input[i] THEN 0
                                ELSE IF i \in high THEN Counted(ups[i]) ELSE ups[i]]
    /\ downs' = [i \in Inputs |-> IF input'[i] # input[i] THEN 0
                                  ELSE IF i \in high THEN downs[i] ELSE Counted(downs[i])]
    /\ streak' = [i \in Inputs |->
                     [high |-> i \in high,
                      length |-> IF streak[i].high = (i \in high)
                                 THEN Counted(streak[i].length) ELSE 1]]
    /\ UNCHANGED told

(* the reactor calls the handler of i *)
OnChange(i) ==
    /\ changes[i] # <<>>
    /\ told' = [told EXCEPT ![i] = Head(changes[i])]
    /\ changes' = [changes EXCEPT ![i] = Tail(@)]
    /\ UNCHANGED <<integrator, input, ups, downs, streak>>

InputNext == (\E high \in SUBSET Inputs : Sample(high)) \/ (\E i \in Inputs : OnChange(i))

InputSpec == InputInit /\ [][InputNext]_inputVars

-----------------------------------------------------------------------------
(* The integrator stays between its ends, and every variable in its range. *)
InputTypeOK ==
    /\ integrator \in [Inputs -> 0..Threshold]
    /\ input \in [Inputs -> Levels]
    /\ changes \in [Inputs -> Seq(Levels)]
    /\ told \in [Inputs -> Levels]
    /\ ups \in [Inputs -> 0..Threshold]
    /\ downs \in [Inputs -> 0..Threshold]
    /\ streak \in [Inputs -> [high : BOOLEAN, length : 0..Threshold]]

(* A level that lasts for the duration of the filter reaches the program,  *)
(* whatever the samples before it were, though the handler is called late  *)
(* and its queue keeps one change: when no notification is on its way the  *)
(* program takes the input for on exactly when the level is high.          *)
SteadySeen ==
    \A i \in Inputs :
        streak[i].length = Threshold /\ changes[i] = <<>> =>
            (told[i] = "on" <=> streak[i].high)

(* An input that has settled does not change before as many samples at     *)
(* the new level were taken as the filter lasts: a shorter pulse, or one   *)
(* that bounces, is not seen.  (An input that is still unknown becomes off *)
(* at the end of a pulse of any length.)                                   *)
ChangeFiltered ==
    [][\A i \in Inputs :
          input[i] # "unknown" /\ input'[i] # input[i] =>
              IF input'[i] = "on" THEN ups[i] >= Threshold - 1
                                  ELSE downs[i] >= Threshold - 1]_inputVars

=============================================================================
