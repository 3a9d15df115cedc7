------------------------------ MODULE Controller ------------------------------
(***************************************************************************)
(* The door and valve logic of the controller board: main.cpp and          *)
(* state_machine.hpp.  Filtered inputs and timers notify the handlers of   *)
(* the reactor; the handlers drive the door's state machine and the table  *)
(* of requested outputs, whose first entry that is on is the command sent  *)
(* to the hub, every 100 ms and one millisecond after it changes.          *)
(*                                                                         *)
(* One handler is one step: all of them run in the reactor, and what       *)
(* comes in between is timer_dispatch, the handler of highest priority.    *)
(* A timer is not timed here: it may expire at any time while it is armed. *)
(* The LEDs, the sounder and the frames on the bus are not modelled.       *)
(***************************************************************************)
EXTENDS Integers, QueueOps, FiniteSetsExt

CONSTANTS
    Inputs,     \* the pins with an input, of those in InputOrder
    MaxStray,   \* bound: armed timers no variable names are counted up to it
    Prompt      \* whether the handlers notified in one millisecond all
                \* return before the next one

ASSUME ControllerAssumption == MaxStray \in Nat \ {0} /\ Prompt \in BOOLEAN

VARIABLES
    level,          \* the filtered level of every input
    pending,        \* what the queue of every handler holds
    timers,         \* the timers armed for every handler that has some
    door,           \* the state of door_sm
    status,         \* output_statuses[].state
    command,        \* current_command
    doorClosed,     \* the pin OC_DOOR_CLOSED
    busy,           \* i2c_is_busy()
    stopTransmit    \* stop_transmit

vars == <<level, pending, timers, door, status, command, doorClosed,
          busy, stopTransmit>>

(* Mutant: the lower sensor is registered first *)
InputOrderDownFirst ==
    <<"door_down", "door_up", "chuck", "spindle", "toolset", "open_close">>

(* in the order main registers them, which is the order of sampling *)
InputOrder == <<"door_up", "door_down", "chuck", "spindle", "toolset", "open_close">>

Reactor == [door_up |-> "door_sensor", door_down |-> "door_sensor",
            chuck |-> "input_change", spindle |-> "input_change",
            toolset |-> "input_change", open_close |-> "door_cmd"]

(* Mutant: the transmission has the priority of the inputs *)
PriorityFlat ==
    [i2c_command |-> 80, sample |-> 90, input_change |-> 80,
     door_sensor |-> 80, door_cmd |-> 80, cmd_timeout |-> 30]

Priority ==
    [i2c_command |-> 130, sample |-> 90, input_change |-> 80,
     door_sensor |-> 80, door_cmd |-> 80, cmd_timeout |-> 30]
Handlers == DOMAIN Priority
QueueSize == [h \in Handlers |-> IF h = "i2c_command" THEN 2 ELSE 1]

(* output_statuses, by priority; the door's sensors stand for its valves *)
OutputStatuses ==
    <<[pin |-> "chuck",     opcode |-> "unclamp_chuck"],
      [pin |-> "spindle",   opcode |-> "blast_spindle"],
      [pin |-> "toolset",   opcode |-> "blast_toolsetter"],
      [pin |-> "door_up",   opcode |-> "pull_door"],
      [pin |-> "door_down", opcode |-> "push_door"]>>
Outputs == {OutputStatuses[i].pin : i \in DOMAIN OutputStatuses}

(* pin_and_value_t *)
PinAndValue(pin, value) == [pin |-> pin, value |-> value]
Null == PinAndValue("none", FALSE)

-----------------------------------------------------------------------------
(* The timers of a handler: whether the one that the program's variable    *)
(* names (transmit_timer, valve::timer) is armed, and how many others are: *)
(* MaxStray stands for that many or more.                                  *)
TimedHandlers == {"i2c_command", "cmd_timeout"}

(* v = timer_arm(h, ...) *)
Armed(t, h) ==
    [t EXCEPT ![h] = [named |-> TRUE,
                      others |-> IF @.named /\ @.others < MaxStray
                                 THEN @.others + 1 ELSE @.others]]
(* timer_cancel(v): v may name a timer that expired or was cancelled *)
Cancelled(t, h) == [t EXCEPT ![h].named = FALSE]

(* Mutant: trigger_next_transmit cancels the timer and arms no other *)
TriggerCancels(t) == Cancelled(t, "i2c_command")

(* trigger_next_transmit *)
TriggerNextTransmit(t) == Armed(Cancelled(t, "i2c_command"), "i2c_command")

(* The initial states are those in which main calls reactor_run. *)
Init ==
    /\ level = [i \in Inputs |-> "unknown"]
    /\ pending = [h \in Handlers |-> <<>>]
    /\ timers = [h \in TimedHandlers |->
                    [named |-> h = "i2c_command", others |-> 0]]
    /\ door = "unknown"
    /\ status = [o \in Outputs |-> FALSE]
    /\ command = "idle"
    /\ doorClosed = FALSE
    /\ busy = FALSE
    /\ stopTransmit = FALSE

-----------------------------------------------------------------------------
(* reactor_run calls h: no pending handler has a higher priority *)
Called(h) ==
    /\ pending[h] # <<>>
    /\ \A g \in Handlers : Priority[g] > Priority[h] => pending[g] = <<>>
Popped(h) == [pending EXCEPT ![h] = Tail(@)]

Quiet == \A h \in Handlers : pending[h] = <<>>

(* timer_dispatch: for every handler at most one timer that expires, and   *)
(* maybe the periodic timer of the sampling *)
Expires(which, sampling) ==
    /\ Prompt => Quiet
    /\ \A h \in TimedHandlers :
          /\ which[h] = "named" => timers[h].named
          /\ which[h] = "other" => timers[h].others > 0
    /\ \E more \in BOOLEAN : timers' = [h \in TimedHandlers |->
          [named |-> timers[h].named /\ which[h] # "named",
           others |-> IF which[h] = "other" /\ (more => timers[h].others < MaxStray)
                      THEN timers[h].others - 1 ELSE timers[h].others]]
    /\ pending' = [h \in Handlers |->
          IF \/ h \in TimedHandlers /\ which[h] # "none"
             \/ h = "sample" /\ sampling
          THEN PushedRing(pending[h], Null, QueueSize[h])
          ELSE pending[h]]
    /\ UNCHANGED <<level, door, status, command, doorClosed,
                   busy, stopTransmit>>

Which == [TimedHandlers -> {"none", "named", "other"}]

(* Any of the inputs may reach the other end of its filter.  Before it has *)
(* reached one, a level is unknown.                                        *)
(* A handler is notified of each of its inputs that changed, in order, and *)
(* its queue of one keeps the last.                                        *)
Changed ==
    {k \in DOMAIN InputOrder :
        InputOrder[k] \in Inputs /\ level'[InputOrder[k]] # level[InputOrder[k]]}

LastChange(changed, h) ==
    LET i == InputOrder[Max({k \in changed : Reactor[InputOrder[k]] = h})]
    IN  PinAndValue(i, level'[i] = "on")

OnSample ==
    /\ Called("sample")
    /\ level' \in {l \in [Inputs -> {"unknown", "off", "on"}] :
                      \A i \in Inputs : l[i] = "unknown" => level[i] = "unknown"}
    /\ LET changed == Changed
       IN  pending' = [h \in Handlers |->
              IF \E k \in changed : Reactor[InputOrder[k]] = h
              THEN PushedRing(pending[h], LastChange(changed, h), QueueSize[h])
              ELSE Popped("sample")[h]]
    /\ UNCHANGED <<timers, door, status, command, doorClosed,
                   busy, stopTransmit>>

(* refresh_opcode: the first output that is on *)
FirstOn(s) ==
    LET on == {i \in DOMAIN OutputStatuses : s[OutputStatuses[i].pin]}
    IN  IF on = {} THEN "idle" ELSE OutputStatuses[Min(on)].opcode

(* The rest of on_input_change: the output's status, the command it makes  *)
(* and, when that changes, an early transmission.                          *)
Request(pin, value) ==
    /\ status' = [status EXCEPT ![pin] = value]
    /\ command' = FirstOn(status')
Refreshed == IF command' # command THEN TriggerNextTransmit(timers) ELSE timers

(* The actions of the transitions.  The output of the upper sensor's pin   *)
(* has the opcode pull_door: push_on opens the door by pulling it.         *)
PushOn ==
    /\ Request("door_up", TRUE)
    /\ timers' = Armed(Refreshed, "cmd_timeout")

PushOff ==
    /\ Request("door_up", FALSE)
    /\ timers' = Cancelled(Refreshed, "cmd_timeout")

PushTimeout ==
    /\ Request("door_up", FALSE)
    /\ timers' = Refreshed

PullOn ==
    /\ Request("door_down", TRUE)
    /\ timers' = Armed(Refreshed, "cmd_timeout")

PullOff ==
    /\ Request("door_down", FALSE)
    /\ timers' = Cancelled(Refreshed, "cmd_timeout")

(* Mutant: the valve is left on *)
PullTimeoutValveOn == UNCHANGED <<status, command, timers>>

PullTimeout ==
    /\ Request("door_down", FALSE)
    /\ timers' = Refreshed

(* Mutant: the timer is invalidated and no other is armed *)
DoorMovingCancels ==
    /\ timers' = Cancelled(timers, "cmd_timeout")
    /\ UNCHANGED <<status, command>>

DoorMoving ==
    /\ timers' = Armed(Cancelled(timers, "cmd_timeout"), "cmd_timeout")
    /\ UNCHANGED <<status, command>>

NoAction == UNCHANGED <<status, command, timers>>

(* the transition table *)
Transition(event) ==
    \/ /\ door = "unknown" /\ event = "door_is_up"
       /\ NoAction /\ door' = "opened"
    \/ /\ door = "unknown" /\ event = "door_is_down"
       /\ NoAction /\ door' = "closed"
    \/ /\ door = "closed" /\ event = "open"
       /\ PushOn /\ door' = "opening"
    \/ /\ door = "opened" /\ event = "close"
       /\ PullOn /\ door' = "closing"
    \/ /\ door = "opening" /\ event = "door_moving_up"
       /\ DoorMoving /\ door' = "opening"
    \/ /\ door = "opening" /\ event = "timeout"
       /\ PushTimeout /\ door' = "unknown"
    \/ /\ door = "opening" /\ event = "door_is_up"
       /\ PushOff /\ door' = "opened"
    \/ /\ door = "closing" /\ event = "door_moving_down"
       /\ DoorMoving /\ door' = "closing"
    \/ /\ door = "closing" /\ event = "timeout"
       /\ PullTimeout /\ door' = "unknown"
    \/ /\ door = "closing" /\ event = "door_is_down"
       /\ PullOff /\ door' = "closed"

(* the events of each state; all the others are ignored *)
Events ==
    [unknown |-> {"door_is_up", "door_is_down"},
     closed  |-> {"open"},
     opened  |-> {"close"},
     opening |-> {"door_moving_up", "timeout", "door_is_up"},
     closing |-> {"door_moving_down", "timeout", "door_is_down"}]

(* door_sm.process_event *)
ProcessEvent(event) ==
    \/ Transition(event)
    \/ event \notin Events[door] /\ NoAction /\ UNCHANGED door

-----------------------------------------------------------------------------
(* the handlers *)
OnDoorCmd ==
    /\ Called("door_cmd")
    /\ pending' = Popped("door_cmd")
    /\ ProcessEvent(IF Head(pending["door_cmd"]).value THEN "open" ELSE "close")
    /\ UNCHANGED <<level, doorClosed, busy, stopTransmit>>

OnDoorSensorChange ==
    /\ Called("door_sensor")
    /\ pending' = Popped("door_sensor")
    /\ LET pav == Head(pending["door_sensor"])
       IN  \/ /\ pav.pin = "door_down"
              /\ doorClosed' = pav.value
              /\ ProcessEvent(IF pav.value THEN "door_is_down" ELSE "door_moving_up")
           \/ /\ pav.pin = "door_up"
              /\ ProcessEvent(IF pav.value THEN "door_is_up" ELSE "door_moving_down")
              /\ UNCHANGED doorClosed
    /\ UNCHANGED <<level, busy, stopTransmit>>

OnInputChange ==
    /\ Called("input_change")
    /\ pending' = Popped("input_change")
    /\ LET pav == Head(pending["input_change"])
       IN  /\ Request(pav.pin, pav.value)
           /\ timers' = Refreshed
    /\ UNCHANGED <<level, door, doorClosed, busy, stopTransmit>>

OnCmdTimeout ==
    /\ Called("cmd_timeout")
    /\ pending' = Popped("cmd_timeout")
    /\ ProcessEvent("timeout")
    /\ UNCHANGED <<level, doorClosed, busy, stopTransmit>>

(* On a busy bus an error is counted, which may end the transmission.      *)
OnSendI2cCommand ==
    /\ Called("i2c_command")
    /\ pending' = Popped("i2c_command")
    /\ \/ /\ stopTransmit
          /\ UNCHANGED <<timers, busy, stopTransmit>>
       \/ /\ ~stopTransmit
          /\ busy
          /\ stopTransmit' \in BOOLEAN
          /\ timers' = Armed(timers, "i2c_command")
          /\ UNCHANGED busy
       \/ /\ ~stopTransmit
          /\ ~busy
          /\ busy' = TRUE
          /\ timers' = Armed(timers, "i2c_command")
          /\ UNCHANGED stopTransmit
    /\ UNCHANGED <<level, door, status, command, doorClosed>>

(* the bus ends a frame, well or not *)
I2cComplete ==
    /\ busy
    /\ busy' = FALSE
    /\ UNCHANGED <<level, pending, timers, door, status, command,
                   doorClosed, stopTransmit>>

(* on_i2c_error, when the count of errors reaches its limit *)
TooManyErrors ==
    /\ ~stopTransmit
    /\ stopTransmit' = TRUE
    /\ UNCHANGED <<level, pending, timers, door, status, command,
                   doorClosed, busy>>

Handle ==
    \/ OnSample \/ OnDoorCmd \/ OnDoorSensorChange \/ OnInputChange
    \/ OnCmdTimeout \/ OnSendI2cCommand

TimerDispatch ==
    \E which \in Which, sampling \in BOOLEAN : Expires(which, sampling)

Next == TimerDispatch \/ Handle \/ I2cComplete \/ TooManyErrors

Spec == Init /\ [][Next]_vars

(* A pending handler is called, a frame ends, and an armed timer expires   *)
(* unless it is cancelled (EventuallyDelivered of Timer): again and again  *)
(* the handlers are done (Prompt), and time goes on.                       *)
Expiry(h) == \E which \in Which, sampling \in BOOLEAN :
                 which[h] # "none" /\ Expires(which, sampling)

FairSpec ==
    /\ Spec
    /\ WF_vars(Handle)
    /\ WF_vars(I2cComplete)
    /\ \A h \in TimedHandlers : SF_vars(Expiry(h))

-----------------------------------------------------------------------------
(* Every variable keeps its range, and every queue its size. *)
TypeOK ==
    /\ level \in [Inputs -> {"unknown", "off", "on"}]
    /\ \A h \in Handlers : Len(pending[h]) <= QueueSize[h]
    /\ \A h \in TimedHandlers :
          timers[h].named \in BOOLEAN /\ timers[h].others \in 0..MaxStray
    /\ door \in {"unknown", "opened", "closed", "opening", "closing"}
    /\ status \in [Outputs -> BOOLEAN]
    /\ doorClosed \in BOOLEAN
    /\ busy \in BOOLEAN
    /\ stopTransmit \in BOOLEAN

Moving == {"opening", "closing"}
DoorCommands == {"pull_door", "push_door"}

(* The door's two entries of the table of outputs are on exactly while the *)
(* door moves their way, and a door valve is requested from the hub only   *)
(* while the door moves, whatever the sensors, the other inputs and late   *)
(* timeouts do.  Which of the two valves opens is DirectionAsNamed's.      *)
DoorValveOnlyWhileMoving ==
    /\ status["door_up"] <=> door = "opening"
    /\ status["door_down"] <=> door = "closing"
    /\ command \in DoorCommands => door \in Moving

(* While the door moves, a timeout is on its way, so that no valve can be  *)
(* left on: a timer is armed or the notification of one is pending, though *)
(* timers are cancelled by an instance that may be out of date.            *)
MovingHasTimeout ==
    door \in Moving =>
        \/ timers["cmd_timeout"].named
        \/ timers["cmd_timeout"].others > 0
        \/ pending["cmd_timeout"] # <<>>

(* There is one chain of transmissions: trigger_next_transmit cancels the  *)
(* armed timer and arms another, and would start a second chain if the     *)
(* timer had expired and its handler not been called yet.                  *)
OneTransmitChain ==
    LET t == timers["i2c_command"]
        n == Len(pending["i2c_command"]) + t.others + (IF t.named THEN 1 ELSE 0)
    IN  n <= 1 /\ (~stopTransmit => n = 1)

(* The pin that reports a closed door to the machine agrees with the       *)
(* filtered sensor, although both door sensors share a queue of one        *)
(* element: the lower one is registered last.                              *)
ClosedReported ==
    "door_down" \in Inputs /\ Quiet => (doorClosed <=> level["door_down"] = "on")

(* The valves do not stay on: when the sensors are at last quiet, a moving *)
(* door comes to rest (with the handlers prompt).                          *)
MotionEnds ==
    <>[](pending["door_sensor"] = <<>>) =>
        [](door \in Moving => <>(door \notin Moving))

(* The chain of transmissions never breaks: the current command is sent    *)
(* again and again, so that a command that lasts reaches the hub, unless   *)
(* too many errors ended the transmission.                                 *)
KeepsTransmitting ==
    <>[](~stopTransmit) => []<><<~busy /\ busy'>>_vars

(* README.md:59, "ResetTimer : Invalidate any ongoing timer so when the    *)
(* timer expires, it does nothing": the door does not give up on a timeout *)
(* while the timer of its motion still runs.                               *)
TimeoutIsValid ==
    [][OnCmdTimeout /\ door \in Moving => ~timers["cmd_timeout"].named]_vars

(* README.md:40, "The solenoid 'push' is on, and the cylinder is expected  *)
(* to push the door open", and :42, "The 'pull' solenoid is on and the     *)
(* cylinder is expected to pull the door closed": the command that asks    *)
(* for the push valve opens the door, the one for the pull valve closes it.*)
DirectionAsNamed ==
    /\ command = "push_door" => door = "opening"
    /\ command = "pull_door" => door = "closing"

(* main.cpp:62, "Last seen state of this output": when all the handlers    *)
(* have returned, the state of an output is the level of its input.        *)
LastSeenState ==
    Quiet => \A i \in Inputs : Reactor[i] = "input_change" =>
                 (status[i] <=> level[i] = "on")
=============================================================================
