--------------------------- MODULE ControllerProofs ---------------------------
(***************************************************************************)
(* The safety of the door and of the transmission, for any of the inputs   *)
(* and any number of stray timers.                                         *)
(***************************************************************************)
EXTENDS Controller, SequenceTheorems, TLAPS

Switches == {"chuck", "spindle", "toolset"}
Args == [pin : {"door_up", "door_down", "open_close", "none"} \cup Switches,
         value : BOOLEAN]
HandlerTimers == [named : BOOLEAN, others : 0..MaxStray]
DoorStates == {"unknown", "opened", "closed"} \cup Moving
DoorEvents == {"open", "close", "door_is_up", "door_is_down", "door_moving_up",
               "door_moving_down", "timeout"}

(* The inputs that on_input_change is told of never are the door's.        *)
PendingInv ==
    /\ pending \in [Handlers -> Seq(Args)]
    /\ pending["input_change"] \in Seq([pin : Switches, value : BOOLEAN])

RangeInv ==
    /\ timers \in [TimedHandlers -> HandlerTimers]
    /\ door \in DoorStates
    /\ status \in [Outputs -> BOOLEAN]
    /\ stopTransmit \in BOOLEAN

(* A valve is requested exactly while the door moves its way, and the      *)
(* command is the one of the first request.                                *)
ValveInv ==
    /\ status["door_up"] <=> door = "opening"
    /\ status["door_down"] <=> door = "closing"
    /\ command = FirstOn(status)

(* No transmission but the one transmit_timer names is ever armed. *)
ChainInv ==
    /\ timers["i2c_command"].others = 0
    /\ ~(timers["i2c_command"].named /\ pending["i2c_command"] # <<>>)
    /\ Len(pending["i2c_command"]) <= 1
    /\ ~stopTransmit => \/ timers["i2c_command"].named
                        \/ pending["i2c_command"] # <<>>

IInv == PendingInv /\ RangeInv /\ ValveInv /\ MovingHasTimeout /\ ChainInv

-----------------------------------------------------------------------------
(* Lemmas about the operators of the model. *)

LEMMA MaxLemma == ASSUME NEW S \in SUBSET (1..6), S # {} PROVE Max(S) \in S
<1>1. \E x \in S : \A y \in S : x >= y
  <2>1. CASE 6 \in S
    BY <2>1
  <2>2. CASE 6 \notin S /\ 5 \in S
    BY <2>2
  <2>3. CASE 6 \notin S /\ 5 \notin S /\ 4 \in S
    BY <2>3
  <2>4. CASE 6 \notin S /\ 5 \notin S /\ 4 \notin S /\ 3 \in S
    BY <2>4
  <2>5. CASE 6 \notin S /\ 5 \notin S /\ 4 \notin S /\ 3 \notin S /\ 2 \in S
    BY <2>5
  <2>6. CASE 6 \notin S /\ 5 \notin S /\ 4 \notin S /\ 3 \notin S /\ 2 \notin S /\ 1 \in S
    BY <2>6
  <2>7. \E n \in 1..6 : n \in S
    OBVIOUS
  <2>8. \/ 1 \in S \/ 2 \in S \/ 3 \in S \/ 4 \in S \/ 5 \in S \/ 6 \in S
    BY <2>7
  <2> QED
    BY <2>1, <2>2, <2>3, <2>4, <2>5, <2>6, <2>8
<1> QED
  BY <1>1 DEF Max

LEMMA MinLemma == ASSUME NEW S \in SUBSET (1..5), S # {} PROVE Min(S) \in S
<1>1. \E x \in S : \A y \in S : x <= y
  <2>1. CASE 1 \in S
    BY <2>1
  <2>2. CASE 1 \notin S /\ 2 \in S
    BY <2>2
  <2>3. CASE 1 \notin S /\ 2 \notin S /\ 3 \in S
    BY <2>3
  <2>4. CASE 1 \notin S /\ 2 \notin S /\ 3 \notin S /\ 4 \in S
    BY <2>4
  <2>5. CASE 1 \notin S /\ 2 \notin S /\ 3 \notin S /\ 4 \notin S /\ 5 \in S
    BY <2>5
  <2>6. \E n \in 1..5 : n \in S
    OBVIOUS
  <2>7. \/ 1 \in S \/ 2 \in S \/ 3 \in S \/ 4 \in S \/ 5 \in S
    BY <2>6
  <2> QED
    BY <2>1, <2>2, <2>3, <2>4, <2>5, <2>7
<1> QED
  BY <1>1 DEF Min

LEMMA OutputsLemma == Outputs = {"door_up", "door_down"} \cup Switches
<1>1. DOMAIN OutputStatuses = 1..5
  BY DEF OutputStatuses
<1> QED
  BY <1>1 DEF Outputs, OutputStatuses, Switches

(* A command for the door is one that its output asks for. *)
LEMMA FirstOnLemma ==
    ASSUME NEW s \in [Outputs -> BOOLEAN]
    PROVE  /\ FirstOn(s) = "pull_door" => s["door_up"]
           /\ FirstOn(s) = "push_door" => s["door_down"]
<1> DEFINE on == {i \in DOMAIN OutputStatuses : s[OutputStatuses[i].pin]}
<1>1. DOMAIN OutputStatuses = 1..5
  BY DEF OutputStatuses
<1>2. CASE on = {}
  <2>1. FirstOn(s) = "idle"
    BY <1>2 DEF FirstOn
  <2> QED
    BY <2>1
<1>3. CASE on # {}
  <2>1. Min(on) \in on
    BY <1>1, <1>3, MinLemma
  <2>2. FirstOn(s) = OutputStatuses[Min(on)].opcode
    BY <1>3 DEF FirstOn
  <2> DEFINE m == Min(on)
  <2>3. m \in 1..5 /\ s[OutputStatuses[m].pin] /\ FirstOn(s) = OutputStatuses[m].opcode
    BY <1>1, <2>1, <2>2
  <2> HIDE DEF m
  <2>4. \/ m = 4 /\ s["door_up"] /\ FirstOn(s) = "pull_door"
        \/ m = 5 /\ s["door_down"] /\ FirstOn(s) = "push_door"
        \/ FirstOn(s) \in {"unclamp_chuck", "blast_spindle", "blast_toolsetter"}
    BY <2>3 DEF OutputStatuses
  <2> QED
    BY <2>4
<1> QED
  BY <1>2, <1>3

LEMMA ArmedLemma ==
    ASSUME NEW t \in [TimedHandlers -> HandlerTimers], NEW h \in TimedHandlers
    PROVE  /\ Armed(t, h) \in [TimedHandlers -> HandlerTimers]
           /\ Armed(t, h)[h].named
           /\ ~t[h].named => Armed(t, h)[h].others = t[h].others
           /\ \A g \in TimedHandlers \ {h} : Armed(t, h)[g] = t[g]
<1> DEFINE others == IF t[h].named /\ t[h].others < MaxStray
                     THEN t[h].others + 1 ELSE t[h].others
<1>1. Armed(t, h) = [t EXCEPT ![h] = [named |-> TRUE, others |-> others]]
  BY DEF Armed
<1>2. t[h] \in HandlerTimers
  OBVIOUS
<1>3. t[h].others \in 0..MaxStray
  BY <1>2 DEF HandlerTimers
<1>4. others \in 0..MaxStray
  BY <1>3, ControllerAssumption
<1>5. ~t[h].named => others = t[h].others
  OBVIOUS
<1> HIDE DEF others
<1>6. [named |-> TRUE, others |-> others] \in HandlerTimers
  BY <1>4 DEF HandlerTimers
<1> QED
  BY <1>1, <1>5, <1>6

LEMMA CancelledLemma ==
    ASSUME NEW t \in [TimedHandlers -> HandlerTimers], NEW h \in TimedHandlers
    PROVE  /\ Cancelled(t, h) \in [TimedHandlers -> HandlerTimers]
           /\ ~Cancelled(t, h)[h].named
           /\ Cancelled(t, h)[h].others = t[h].others
           /\ \A g \in TimedHandlers \ {h} : Cancelled(t, h)[g] = t[g]
<1> DEFINE c == [t[h] EXCEPT !.named = FALSE]
<1>1. t[h] \in HandlerTimers
  OBVIOUS
<1>2. c \in HandlerTimers /\ ~c.named /\ c.others = t[h].others
  BY <1>1 DEF HandlerTimers
<1>3. Cancelled(t, h) = [t EXCEPT ![h] = c]
  BY DEF Cancelled
<1> HIDE DEF c
<1> QED
  BY <1>2, <1>3

(* The early transmission: the timer of the old one is replaced. *)
LEMMA TriggerLemma ==
    ASSUME timers \in [TimedHandlers -> HandlerTimers]
    PROVE  /\ Refreshed \in [TimedHandlers -> HandlerTimers]
           /\ Refreshed["i2c_command"].others = timers["i2c_command"].others
           /\ timers["i2c_command"].named => Refreshed["i2c_command"].named
           /\ Refreshed["cmd_timeout"] = timers["cmd_timeout"]
<1> DEFINE c == Cancelled(timers, "i2c_command")
           a == Armed(c, "i2c_command")
<1>0. "i2c_command" \in TimedHandlers /\ "cmd_timeout" \in TimedHandlers \ {"i2c_command"}
  BY DEF TimedHandlers
<1>1. /\ c \in [TimedHandlers -> HandlerTimers]
      /\ ~c["i2c_command"].named
      /\ c["i2c_command"].others = timers["i2c_command"].others
      /\ c["cmd_timeout"] = timers["cmd_timeout"]
  BY <1>0, CancelledLemma
<1> HIDE DEF c
<1>2. /\ a \in [TimedHandlers -> HandlerTimers]
      /\ a["i2c_command"].named
      /\ a["i2c_command"].others = c["i2c_command"].others
      /\ a["cmd_timeout"] = c["cmd_timeout"]
  BY <1>0, <1>1, ArmedLemma
<1>3. Refreshed = IF command' # command THEN a ELSE timers
  BY DEF Refreshed, TriggerNextTransmit, c
<1> HIDE DEF a
<1> QED
  BY <1>1, <1>2, <1>3

(* What a change of the requests leaves of the transmission. *)
ChainKept ==
    /\ timers' \in [TimedHandlers -> HandlerTimers]
    /\ timers'["i2c_command"].others = timers["i2c_command"].others
    /\ timers["i2c_command"].named => timers'["i2c_command"].named

LEMMA RequestLemma ==
    ASSUME status \in [Outputs -> BOOLEAN], NEW pin \in Outputs, NEW value \in BOOLEAN,
           Request(pin, value)
    PROVE  /\ status' \in [Outputs -> BOOLEAN]
           /\ status'[pin] = value
           /\ \A o \in Outputs \ {pin} : status'[o] = status[o]
           /\ command' = FirstOn(status')
BY DEF Request

(* What the door's machine does with an event. *)
DoorStep(event) ==
    /\ ChainKept
    /\ door' \in DoorStates
    /\ status' \in [Outputs -> BOOLEAN]
    /\ ValveInv'
    /\ door' \in Moving =>
          \/ timers'["cmd_timeout"].named
          \/ /\ event # "timeout" /\ door \in Moving
             /\ timers'["cmd_timeout"] = timers["cmd_timeout"]

LEMMA EventLemma ==
    ASSUME RangeInv, ValveInv, NEW event \in DoorEvents, ProcessEvent(event)
    PROVE  DoorStep(event)
<1> USE DEF RangeInv
<1>0. /\ "i2c_command" \in TimedHandlers \ {"cmd_timeout"}
      /\ "cmd_timeout" \in TimedHandlers \ {"i2c_command"}
      /\ "door_up" \in Outputs /\ "door_down" \in Outputs
      /\ timers \in [TimedHandlers -> HandlerTimers]
      /\ status \in [Outputs -> BOOLEAN]
  BY OutputsLemma DEF TimedHandlers
<1>1. ASSUME NoAction, door' \in DoorStates,
             door' \in Moving => door' = door /\ event # "timeout",
             door' \notin Moving => door \notin Moving
      PROVE  DoorStep(event)
  <2>1. UNCHANGED <<status, command, timers>>
    BY <1>1 DEF NoAction
  <2>2. ValveInv'
    BY <1>1, <2>1 DEF ValveInv, Moving
  <2>3. ChainKept
    BY <1>0, <2>1 DEF ChainKept
  <2> QED
    BY <1>0, <1>1, <2>1, <2>2, <2>3 DEF DoorStep
(* a valve is turned on, with a timeout *)
<1>2. ASSUME NEW pin \in {"door_up", "door_down"},
             Request(pin, TRUE),
             timers' = Armed(Refreshed, "cmd_timeout"),
             door \notin Moving,
             door' = IF pin = "door_up" THEN "opening" ELSE "closing"
      PROVE  DoorStep(event)
  <2>1. /\ status' \in [Outputs -> BOOLEAN]
        /\ status'[pin]
        /\ \A o \in Outputs \ {pin} : status'[o] = status[o]
        /\ command' = FirstOn(status')
    BY <1>0, <1>2, RequestLemma
  <2>2. ~status["door_up"] /\ ~status["door_down"]
    BY <1>2 DEF ValveInv, Moving
  <2>3. ValveInv'
    BY <1>0, <1>2, <2>1, <2>2 DEF ValveInv
  <2>4. /\ ChainKept
        /\ timers'["cmd_timeout"].named
    BY <1>0, <1>2, TriggerLemma, ArmedLemma DEF ChainKept
  <2>5. door' \in DoorStates
    BY <1>2 DEF DoorStates, Moving
  <2> QED
    BY <2>1, <2>3, <2>4, <2>5 DEF DoorStep
(* a valve is turned off *)
<1>3. ASSUME NEW pin \in {"door_up", "door_down"},
             Request(pin, FALSE),
             timers' \in {Refreshed, Cancelled(Refreshed, "cmd_timeout")},
             door = IF pin = "door_up" THEN "opening" ELSE "closing",
             door' \in {"unknown", "opened", "closed"}
      PROVE  DoorStep(event)
  <2>1. /\ status' \in [Outputs -> BOOLEAN]
        /\ status'[pin] = FALSE
        /\ \A o \in Outputs \ {pin} : status'[o] = status[o]
        /\ command' = FirstOn(status')
    BY <1>0, <1>3, RequestLemma
  <2>2. ValveInv'
    BY <1>0, <1>3, <2>1 DEF ValveInv
  <2>3. ChainKept
    <3>1. CASE timers' = Refreshed
      BY <1>0, <3>1, TriggerLemma DEF ChainKept
    <3>2. CASE timers' = Cancelled(Refreshed, "cmd_timeout")
      BY <1>0, <3>2, TriggerLemma, CancelledLemma DEF ChainKept
    <3> QED
      BY <1>3, <3>1, <3>2
  <2>4. door' \in DoorStates /\ door' \notin Moving
    BY <1>3 DEF DoorStates, Moving
  <2> QED
    BY <2>1, <2>2, <2>3, <2>4 DEF DoorStep
<1>4. ASSUME DoorMoving, door' = door, door \in Moving PROVE DoorStep(event)
  <2> DEFINE c == Cancelled(timers, "cmd_timeout")
  <2>1. /\ timers' = Armed(c, "cmd_timeout")
        /\ UNCHANGED <<status, command>>
    BY <1>4 DEF DoorMoving
  <2>2. /\ c \in [TimedHandlers -> HandlerTimers]
        /\ c["i2c_command"] = timers["i2c_command"]
    BY <1>0, CancelledLemma
  <2> HIDE DEF c
  <2>3. /\ timers' \in [TimedHandlers -> HandlerTimers]
        /\ timers'["i2c_command"] = c["i2c_command"]
        /\ timers'["cmd_timeout"].named
    BY <1>0, <2>1, <2>2, ArmedLemma
  <2>4. ValveInv'
    BY <1>4, <2>1 DEF ValveInv
  <2> QED
    BY <1>0, <1>4, <2>1, <2>2, <2>3, <2>4 DEF DoorStep, ChainKept
<1>5. CASE Transition(event)
  <2>1. \/ NoAction /\ door = "unknown" /\ door' \in {"opened", "closed"}
        \/ PushOn /\ door = "closed" /\ door' = "opening"
        \/ PullOn /\ door = "opened" /\ door' = "closing"
        \/ DoorMoving /\ door \in Moving /\ door' = door
        \/ PushTimeout /\ door = "opening" /\ door' = "unknown"
        \/ PushOff /\ door = "opening" /\ door' = "opened"
        \/ PullTimeout /\ door = "closing" /\ door' = "unknown"
        \/ PullOff /\ door = "closing" /\ door' = "closed"
    BY <1>5 DEF Transition, Moving
  <2>2. CASE NoAction /\ door = "unknown" /\ door' \in {"opened", "closed"}
    BY <1>1, <2>2 DEF DoorStates, Moving
  <2>3. CASE PushOn /\ door = "closed" /\ door' = "opening"
    BY <1>2, <2>3 DEF PushOn, Moving
  <2>4. CASE PullOn /\ door = "opened" /\ door' = "closing"
    BY <1>2, <2>4 DEF PullOn, Moving
  <2>5. CASE DoorMoving /\ door \in Moving /\ door' = door
    BY <1>4, <2>5
  <2>6. CASE PushTimeout /\ door = "opening" /\ door' = "unknown"
    BY <1>3, <2>6 DEF PushTimeout
  <2>7. CASE PushOff /\ door = "opening" /\ door' = "opened"
    BY <1>3, <2>7 DEF PushOff
  <2>8. CASE PullTimeout /\ door = "closing" /\ door' = "unknown"
    BY <1>3, <2>8 DEF PullTimeout
  <2>9. CASE PullOff /\ door = "closing" /\ door' = "closed"
    BY <1>3, <2>9 DEF PullOff
  <2> QED
    BY <2>1, <2>2, <2>3, <2>4, <2>5, <2>6, <2>7, <2>8, <2>9
<1>6. CASE event \notin Events[door] /\ NoAction /\ UNCHANGED door
  <2>1. door \in Moving => event # "timeout"
    BY <1>6 DEF Events, Moving
  <2> QED
    BY <1>1, <1>6, <2>1
<1> QED
  BY <1>5, <1>6 DEF ProcessEvent

-----------------------------------------------------------------------------
(* Lemmas about the queues. *)

LEMMA HandlersLemma ==
    Handlers = {"i2c_command", "sample", "input_change", "door_sensor", "door_cmd",
                "cmd_timeout"}
BY DEF Handlers, Priority

LEMMA PoppedLemma ==
    ASSUME PendingInv, NEW h \in Handlers, pending[h] # <<>>,
           pending' = Popped(h)
    PROVE  /\ PendingInv'
           /\ \A g \in Handlers \ {h} : pending'[g] = pending[g]
           /\ pending'[h] = Tail(pending[h])
           /\ Head(pending[h]) \in Args
           /\ h = "input_change" =>
                 Head(pending[h]) \in [pin : Switches, value : BOOLEAN]
<1>0. pending \in [Handlers -> Seq(Args)] /\ "input_change" \in Handlers
  BY HandlersLemma DEF PendingInv
<1>1. Head(pending[h]) \in Args /\ Tail(pending[h]) \in Seq(Args)
  BY <1>0, HeadTailProperties
<1>2. pending' = [pending EXCEPT ![h] = Tail(pending[h])]
  BY DEF Popped
<1>3. ASSUME h = "input_change"
      PROVE  /\ Head(pending[h]) \in [pin : Switches, value : BOOLEAN]
             /\ Tail(pending[h]) \in Seq([pin : Switches, value : BOOLEAN])
  BY <1>3, HeadTailProperties DEF PendingInv
<1>4. PendingInv'
  BY <1>0, <1>1, <1>2, <1>3 DEF PendingInv
<1> QED
  BY <1>0, <1>1, <1>2, <1>3, <1>4

LEMMA PushedLemma ==
    ASSUME NEW S, NEW q \in Seq(S), NEW d \in S, NEW n
    PROVE  /\ PushedRing(q, d, n) \in Seq(S)
           /\ PushedRing(q, d, n) # <<>>
           /\ q = <<>> /\ n \in Nat \ {0} => Len(PushedRing(q, d, n)) = 1
<1>1. CASE Len(q) < n
  <2>1. PushedRing(q, d, n) = Append(q, d)
    BY <1>1 DEF PushedRing
  <2>2. Append(q, d) \in Seq(S) /\ Len(Append(q, d)) = Len(q) + 1
    OBVIOUS
  <2>3. Len(q) \in Nat /\ (q = <<>> => Len(q) = 0)
    BY LenProperties
  <2>4. Append(q, d) # <<>>
    BY <2>2, <2>3, EmptySeq
  <2> QED
    BY <2>1, <2>2, <2>3, <2>4
<1>2. CASE ~(Len(q) < n)
  <2>1. PushedRing(q, d, n) = Append(Tail(q), d)
    BY <1>2 DEF PushedRing
  <2>2. q # <<>> \/ n \notin Nat \ {0}
    BY <1>2, EmptySeq
  <2>3. CASE q # <<>>
    <3>1. Tail(q) \in Seq(S) /\ Len(Tail(q)) \in Nat
      BY <2>3, HeadTailProperties, LenProperties
    <3>2. Append(Tail(q), d) \in Seq(S) /\ Len(Append(Tail(q), d)) = Len(Tail(q)) + 1
      BY <3>1
    <3> QED
      BY <2>1, <2>3, <3>1, <3>2, EmptySeq
  <2>4. CASE q = <<>>
    <3>1. Append(Tail(q), d) \in Seq(S) /\ Append(Tail(q), d) # <<>>
      BY <2>4
    <3> QED
      BY <2>1, <2>2, <2>4, <3>1
  <2> QED
    BY <2>3, <2>4
<1> QED
  BY <1>1, <1>2

(* The last of the changes a handler is notified of. *)
LEMMA LastChangeLemma ==
    ASSUME NEW changed \in SUBSET (1..6), NEW h \in Handlers,
           \E k \in changed : Reactor[InputOrder[k]] = h
    PROVE  /\ LastChange(changed, h) \in Args
           /\ h = "input_change" =>
                 LastChange(changed, h) \in [pin : Switches, value : BOOLEAN]
           /\ h \notin TimedHandlers
<1> DEFINE ks == {k \in changed : Reactor[InputOrder[k]] = h}
           m  == Max(ks)
<1>1. m \in ks
  BY MaxLemma
<1>2. LastChange(changed, h) = [pin |-> InputOrder[m], value |-> level'[InputOrder[m]] = "on"]
  BY DEF LastChange, PinAndValue
<1>3. m \in 1..6 /\ Reactor[InputOrder[m]] = h
  BY <1>1
<1> HIDE DEF m
<1>4. /\ InputOrder[m] \in {"door_up", "door_down", "open_close"} \cup Switches
      /\ h = "input_change" => InputOrder[m] \in Switches
      /\ h \notin TimedHandlers
  BY <1>3 DEF InputOrder, Reactor, Switches, TimedHandlers
<1> QED
  BY <1>2, <1>4 DEF Args

-----------------------------------------------------------------------------
LEMMA InitOK == Init => IInv
<1> SUFFICES ASSUME Init PROVE IInv
  OBVIOUS
<1> USE DEF Init
<1>1. PendingInv
  BY HandlersLemma, EmptySeq DEF PendingInv
<1>2. RangeInv
  <2>1. [h \in TimedHandlers |-> [named |-> h = "i2c_command", others |-> 0]]
          \in [TimedHandlers -> HandlerTimers]
    BY ControllerAssumption DEF HandlerTimers
  <2> QED
    BY <2>1 DEF RangeInv, DoorStates
<1>3. ValveInv
  <2>1. \A o \in Outputs : ~status[o]
    OBVIOUS
  <2>2. {i \in DOMAIN OutputStatuses : status[OutputStatuses[i].pin]} = {}
    BY <2>1 DEF Outputs
  <2>3. FirstOn(status) = "idle"
    BY <2>2 DEF FirstOn
  <2> QED
    BY <2>1, <2>3, OutputsLemma DEF ValveInv
<1>4. MovingHasTimeout
  BY DEF MovingHasTimeout, Moving
<1>5. ChainInv
  <2>1. timers["i2c_command"] = [named |-> TRUE, others |-> 0]
    BY DEF TimedHandlers
  <2>2. pending["i2c_command"] = <<>> /\ Len(<<>>) = 0
    BY HandlersLemma
  <2> QED
    BY <2>1, <2>2 DEF ChainInv
<1> QED
  BY <1>1, <1>2, <1>3, <1>4, <1>5 DEF IInv

(* A handler of a lower priority than the transmission, which may change   *)
(* the door, the outputs and the timers.                                   *)
LEMMA HandlerLemma ==
    ASSUME IInv, NEW h \in {"door_cmd", "door_sensor", "input_change", "cmd_timeout"},
           Called(h), pending' = Popped(h), UNCHANGED stopTransmit,
           ChainKept, door' \in DoorStates, status' \in [Outputs -> BOOLEAN], ValveInv',
           door' \in Moving =>
              \/ timers'["cmd_timeout"].named
              \/ /\ h # "cmd_timeout" /\ door \in Moving
                 /\ timers'["cmd_timeout"] = timers["cmd_timeout"]
    PROVE  IInv'
<1> USE DEF IInv
<1>0. /\ h \in Handlers /\ "i2c_command" \in Handlers \ {h}
      /\ "cmd_timeout" \in Handlers
      /\ Priority["i2c_command"] > Priority[h]
  BY HandlersLemma DEF Priority
<1>1. pending[h] # <<>> /\ pending["i2c_command"] = <<>>
  BY <1>0 DEF Called
<1>2. /\ PendingInv'
      /\ \A g \in Handlers \ {h} : pending'[g] = pending[g]
  BY <1>0, <1>1, PoppedLemma
<1>3. RangeInv'
  BY DEF RangeInv, ChainKept
<1>4. MovingHasTimeout'
  BY <1>0, <1>2 DEF MovingHasTimeout
<1>5. ChainInv'
  BY <1>0, <1>1, <1>2 DEF ChainInv, ChainKept
<1> QED
  BY <1>2, <1>3, <1>4, <1>5

LEMMA DoorHandlerLemma ==
    ASSUME IInv, NEW h \in {"door_cmd", "door_sensor", "cmd_timeout"}, NEW event \in DoorEvents,
           Called(h), pending' = Popped(h), UNCHANGED stopTransmit,
           h = "cmd_timeout" => event = "timeout",
           ProcessEvent(event)
    PROVE  IInv'
<1>1. DoorStep(event)
  BY EventLemma DEF IInv
<1> QED
  BY <1>1, HandlerLemma DEF DoorStep

LEMMA NextOK ==
    ASSUME IInv, [Next]_vars
    PROVE  IInv'
<1> USE DEF IInv
<1>0. /\ pending \in [Handlers -> Seq(Args)]
      /\ timers \in [TimedHandlers -> HandlerTimers]
      /\ status \in [Outputs -> BOOLEAN]
      /\ "i2c_command" \in TimedHandlers /\ "cmd_timeout" \in TimedHandlers
      /\ "i2c_command" \in Handlers /\ "cmd_timeout" \in Handlers
  BY HandlersLemma DEF PendingInv, RangeInv, TimedHandlers
<1>1. ASSUME NEW which \in Which, NEW sampling \in BOOLEAN, Expires(which, sampling)
      PROVE  IInv'
  <2>1. PICK more \in BOOLEAN :
           timers' = [h \in TimedHandlers |->
              [named |-> timers[h].named /\ which[h] # "named",
               others |-> IF which[h] = "other" /\ (more => timers[h].others < MaxStray)
                          THEN timers[h].others - 1 ELSE timers[h].others]]
    BY <1>1 DEF Expires
  <2>2. /\ \A h \in TimedHandlers :
              /\ which[h] = "named" => timers[h].named
              /\ which[h] = "other" => timers[h].others > 0
        /\ pending' = [h \in Handlers |->
              IF \/ h \in TimedHandlers /\ which[h] # "none"
                 \/ h = "sample" /\ sampling
              THEN PushedRing(pending[h], Null, QueueSize[h])
              ELSE pending[h]]
        /\ UNCHANGED <<door, status, command, stopTransmit>>
    BY <1>1 DEF Expires
  <2>3. \A h \in TimedHandlers : /\ timers[h].named \in BOOLEAN
                                 /\ timers[h].others \in 0..MaxStray
                                 /\ which[h] \in {"none", "named", "other"}
    BY <1>0 DEF HandlerTimers, Which
  <2>4. timers' \in [TimedHandlers -> HandlerTimers]
    <3>1. ASSUME NEW h \in TimedHandlers PROVE timers'[h] \in HandlerTimers
      <4> DEFINE n == timers[h].named /\ which[h] # "named"
                 k == IF which[h] = "other" /\ (more => timers[h].others < MaxStray)
                      THEN timers[h].others - 1 ELSE timers[h].others
      <4>1. timers'[h] = [named |-> n, others |-> k]
        BY <2>1
      <4>2. k \in 0..MaxStray
        <5>1. timers[h].others \in 0..MaxStray /\ (which[h] = "other" => timers[h].others > 0)
          BY <2>2, <2>3
        <5>2. timers[h].others > 0 => timers[h].others - 1 \in 0..MaxStray
          BY <5>1, ControllerAssumption
        <5> QED
          BY <5>1, <5>2
      <4>3. n \in BOOLEAN
        OBVIOUS
      <4> HIDE DEF n, k
      <4> QED
        BY <4>1, <4>2, <4>3 DEF HandlerTimers
    <3> QED
      BY <2>1, <3>1
  <2>5. PendingInv'
    <3>1. Null \in Args
      BY DEF Null, PinAndValue, Args
    <3>2. \A h \in Handlers : PushedRing(pending[h], Null, QueueSize[h]) \in Seq(Args)
      BY <1>0, <3>1, PushedLemma
    <3>3. pending' \in [Handlers -> Seq(Args)]
      BY <1>0, <2>2, <3>2
    <3>4. pending'["input_change"] = pending["input_change"]
      BY <2>2, HandlersLemma DEF TimedHandlers
    <3> QED
      BY <3>3, <3>4 DEF PendingInv
  <2>6. ASSUME NEW h \in TimedHandlers
        PROVE  IF which[h] # "none"
               THEN pending'[h] = PushedRing(pending[h], Null, QueueSize[h])
               ELSE pending'[h] = pending[h]
    BY <2>2, HandlersLemma DEF TimedHandlers
  <2>7. ASSUME NEW h \in TimedHandlers, which[h] # "none"
        PROVE  /\ pending'[h] # <<>>
               /\ pending[h] = <<>> => Len(pending'[h]) = 1
    <3>1. Null \in Args /\ QueueSize[h] \in Nat \ {0} /\ pending[h] \in Seq(Args)
      BY <1>0, HandlersLemma DEF Null, PinAndValue, Args, QueueSize, TimedHandlers
    <3> QED
      BY <2>6, <2>7, <3>1, PushedLemma
  <2>8. MovingHasTimeout'
    <3> DEFINE h == "cmd_timeout"
    <3>1. CASE which[h] # "none"
      BY <1>0, <2>7, <3>1 DEF MovingHasTimeout
    <3>2. CASE which[h] = "none"
      <4>1. /\ timers'[h].named = timers[h].named
            /\ timers'[h].others = timers[h].others
            /\ pending'[h] = pending[h]
        BY <1>0, <2>1, <2>3, <2>6, <3>2
      <4> QED
        BY <2>2, <4>1 DEF MovingHasTimeout
    <3> QED
      BY <3>1, <3>2
  <2>9. ChainInv'
    <3> DEFINE h == "i2c_command"
    <3>1. timers[h].others = 0 /\ which[h] # "other"
      BY <1>0, <2>2 DEF ChainInv
    <3>2. CASE which[h] = "named"
      <4>1. timers[h].named /\ pending[h] = <<>>
        BY <1>0, <2>2, <3>2 DEF ChainInv
      <4>2. ~timers'[h].named /\ timers'[h].others = 0
        BY <1>0, <2>1, <3>1, <3>2
      <4>3. pending'[h] # <<>> /\ Len(pending'[h]) = 1
        BY <1>0, <2>7, <3>2, <4>1
      <4> QED
        BY <4>2, <4>3 DEF ChainInv
    <3>3. CASE which[h] = "none"
      <4>1. /\ timers'[h].named = timers[h].named
            /\ timers'[h].others = timers[h].others
            /\ pending'[h] = pending[h]
        BY <1>0, <2>1, <2>3, <2>6, <3>3
      <4> QED
        BY <2>2, <4>1 DEF ChainInv
    <3> QED
      BY <1>0, <2>3, <3>1, <3>2, <3>3
  <2>10. RangeInv' /\ ValveInv'
    BY <2>2, <2>4 DEF RangeInv, ValveInv
  <2> QED
    BY <2>5, <2>8, <2>9, <2>10
<1>2. CASE OnSample
  <2> DEFINE changed == Changed
  <2>1. /\ pending["sample"] # <<>>
        /\ pending' = [h \in Handlers |->
              IF \E k \in changed : Reactor[InputOrder[k]] = h
              THEN PushedRing(pending[h], LastChange(changed, h), QueueSize[h])
              ELSE Popped("sample")[h]]
        /\ UNCHANGED <<timers, door, status, command, stopTransmit>>
    BY <1>2 DEF OnSample, Called
  <2>2. changed \subseteq 1..6
    BY DEF Changed, InputOrder
  <2> HIDE DEF changed
  <2>3. ASSUME NEW h \in Handlers, \E k \in changed : Reactor[InputOrder[k]] = h
        PROVE  /\ LastChange(changed, h) \in Args
               /\ h = "input_change" =>
                     LastChange(changed, h) \in [pin : Switches, value : BOOLEAN]
               /\ h \notin TimedHandlers
    BY <2>2, <2>3, LastChangeLemma
  <2>4. ASSUME NEW h \in Handlers
        PROVE  /\ Popped("sample")[h] \in Seq(Args)
               /\ h # "sample" => Popped("sample")[h] = pending[h]
    <3>1. Tail(pending["sample"]) \in Seq(Args)
      BY <1>0, <2>1, HandlersLemma, HeadTailProperties
    <3> QED
      BY <1>0, <3>1 DEF Popped
  <2>5. pending' \in [Handlers -> Seq(Args)]
    <3>1. ASSUME NEW h \in Handlers PROVE pending'[h] \in Seq(Args)
      <4>1. CASE \E k \in changed : Reactor[InputOrder[k]] = h
        <5>1. LastChange(changed, h) \in Args /\ pending[h] \in Seq(Args)
          BY <1>0, <2>3, <4>1
        <5>2. pending'[h] = PushedRing(pending[h], LastChange(changed, h), QueueSize[h])
          BY <2>1, <4>1
        <5> QED
          BY <5>1, <5>2, PushedLemma
      <4>2. CASE ~\E k \in changed : Reactor[InputOrder[k]] = h
        BY <2>1, <2>4, <4>2
      <4> QED
        BY <4>1, <4>2
    <3> QED
      BY <2>1, <3>1
  <2>6. pending'["input_change"] \in Seq([pin : Switches, value : BOOLEAN])
    <3> DEFINE h == "input_change"
    <3>0. h \in Handlers /\ h # "sample"
      BY HandlersLemma
    <3>1. CASE \E k \in changed : Reactor[InputOrder[k]] = h
      <4>1. LastChange(changed, h) \in [pin : Switches, value : BOOLEAN]
        BY <2>3, <3>0, <3>1
      <4>2. pending'[h] = PushedRing(pending[h], LastChange(changed, h), QueueSize[h])
        BY <2>1, <3>0, <3>1
      <4>3. pending[h] \in Seq([pin : Switches, value : BOOLEAN])
        BY DEF PendingInv
      <4> QED
        BY <4>1, <4>2, <4>3, PushedLemma
    <3>2. CASE ~\E k \in changed : Reactor[InputOrder[k]] = h
      BY <2>1, <2>4, <3>0, <3>2 DEF PendingInv
    <3> QED
      BY <3>1, <3>2
  <2>7. /\ pending'["i2c_command"] = pending["i2c_command"]
        /\ pending'["cmd_timeout"] = pending["cmd_timeout"]
    BY <1>0, <2>1, <2>3, <2>4
  <2>8. MovingHasTimeout' /\ ChainInv'
    BY <2>1, <2>7 DEF MovingHasTimeout, ChainInv
  <2>9. RangeInv' /\ ValveInv'
    BY <2>1 DEF RangeInv, ValveInv
  <2> QED
    BY <2>5, <2>6, <2>8, <2>9 DEF PendingInv
<1>3. CASE OnDoorCmd
  <2>1. \E event \in {"open", "close"} : ProcessEvent(event)
    BY <1>3 DEF OnDoorCmd
  <2> QED
    BY <1>3, <2>1, DoorHandlerLemma DEF OnDoorCmd, DoorEvents
<1>4. CASE OnDoorSensorChange
  <2>1. \E event \in {"door_is_up", "door_is_down", "door_moving_up", "door_moving_down"} :
            ProcessEvent(event)
    BY <1>4 DEF OnDoorSensorChange
  <2> QED
    BY <1>4, <2>1, DoorHandlerLemma DEF OnDoorSensorChange, DoorEvents
<1>5. CASE OnCmdTimeout
  BY <1>5, DoorHandlerLemma DEF OnCmdTimeout, DoorEvents
<1>6. CASE OnInputChange
  <2> DEFINE pav == Head(pending["input_change"])
  <2>1. /\ Called("input_change") /\ pending' = Popped("input_change")
        /\ Request(pav.pin, pav.value) /\ timers' = Refreshed
        /\ UNCHANGED <<door, stopTransmit>>
    BY <1>6 DEF OnInputChange
  <2>2. pav \in [pin : Switches, value : BOOLEAN]
    BY <2>1, HandlersLemma, PoppedLemma DEF Called
  <2>3. /\ pav.pin \in Outputs \ {"door_up", "door_down"} /\ pav.value \in BOOLEAN
        /\ "door_up" \in Outputs /\ "door_down" \in Outputs
    BY <2>2, OutputsLemma DEF Switches
  <2> HIDE DEF pav
  <2>4. /\ status' \in [Outputs -> BOOLEAN]
        /\ status'["door_up"] = status["door_up"]
        /\ status'["door_down"] = status["door_down"]
        /\ command' = FirstOn(status')
    BY <1>0, <2>1, <2>3, RequestLemma
  <2>5. ValveInv'
    BY <2>1, <2>4 DEF ValveInv
  <2>6. ChainKept /\ timers'["cmd_timeout"] = timers["cmd_timeout"]
    BY <1>0, <2>1, TriggerLemma DEF ChainKept
  <2>7. door' \in DoorStates /\ door' = door
    BY <2>1 DEF RangeInv
  <2> QED
    BY <2>1, <2>4, <2>5, <2>6, <2>7, HandlerLemma
<1>7. CASE OnSendI2cCommand
  <2> DEFINE h == "i2c_command"
  <2>1. /\ pending[h] # <<>> /\ pending' = Popped(h)
        /\ UNCHANGED <<door, status, command>>
        /\ \/ stopTransmit /\ UNCHANGED <<timers, stopTransmit>>
           \/ stopTransmit' \in BOOLEAN /\ timers' = Armed(timers, h)
    BY <1>7 DEF OnSendI2cCommand, Called, RangeInv
  <2>2. /\ PendingInv'
        /\ pending'["cmd_timeout"] = pending["cmd_timeout"]
        /\ pending'[h] = Tail(pending[h])
    BY <1>0, <2>1, PoppedLemma
  <2>3. ~timers[h].named /\ timers[h].others = 0 /\ pending'[h] = <<>>
    <3>1. pending[h] \in Seq(Args) /\ pending[h] # <<>>
      BY <1>0, <2>1
    <3>2. /\ Len(pending[h]) \in Nat \ {0}
          /\ Tail(pending[h]) \in Seq(Args)
          /\ Len(Tail(pending[h])) = Len(pending[h]) - 1
      BY <3>1, EmptySeq, HeadTailProperties
    <3>3. Len(pending[h]) <= 1
      BY DEF ChainInv
    <3>4. Len(Tail(pending[h])) = 0
      <4> DEFINE n == Len(pending[h])
                 m == Len(Tail(pending[h]))
      <4>1. n \in Nat \ {0} /\ n <= 1 /\ m = n - 1
        BY <3>2, <3>3
      <4> HIDE DEF n, m
      <4>2. m = 0
        BY <4>1
      <4> QED
        BY <4>2 DEF m
    <3>5. Tail(pending[h]) = <<>>
      BY <3>2, <3>4, EmptySeq
    <3> QED
      BY <2>1, <2>2, <3>5 DEF ChainInv
  <2>4. /\ timers' \in [TimedHandlers -> HandlerTimers]
        /\ timers'["cmd_timeout"] = timers["cmd_timeout"]
        /\ timers'[h].others = 0
        /\ ~stopTransmit' => timers'[h].named
    <3>1. CASE timers' = Armed(timers, h)
      <4>1. "cmd_timeout" \in TimedHandlers \ {h}
        BY <1>0
      <4> QED
        BY <1>0, <2>3, <3>1, <4>1, ArmedLemma
    <3>2. CASE stopTransmit /\ UNCHANGED <<timers, stopTransmit>>
      BY <1>0, <2>3, <3>2
    <3> QED
      BY <2>1, <3>1, <3>2
  <2>5. RangeInv' /\ ValveInv' /\ MovingHasTimeout'
    BY <2>1, <2>2, <2>4 DEF RangeInv, ValveInv, MovingHasTimeout
  <2>6. ChainInv'
    BY <2>3, <2>4, EmptySeq DEF ChainInv
  <2> QED
    BY <2>2, <2>5, <2>6
<1>8. CASE I2cComplete
  BY <1>8 DEF I2cComplete, PendingInv, RangeInv, ValveInv, MovingHasTimeout, ChainInv
<1>9. CASE TooManyErrors
  BY <1>9 DEF TooManyErrors, PendingInv, RangeInv, ValveInv, MovingHasTimeout, ChainInv
<1>10. CASE UNCHANGED vars
  BY <1>10 DEF vars, PendingInv, RangeInv, ValveInv, MovingHasTimeout, ChainInv
<1> QED
  BY <1>1, <1>2, <1>3, <1>4, <1>5, <1>6, <1>7, <1>8, <1>9, <1>10
     DEF Next, Handle, TimerDispatch

LEMMA Inductive == Spec => []IInv
BY InitOK, NextOK, PTL DEF Spec

-----------------------------------------------------------------------------
(* The door's entries are on exactly while it moves their way, and a door  *)
(* valve is requested only while it moves, for any inputs.                 *)
THEOREM ValveOnlyWhileMoving == Spec => []DoorValveOnlyWhileMoving
<1>1. ASSUME IInv PROVE DoorValveOnlyWhileMoving
  <2>1. /\ FirstOn(status) = "pull_door" => status["door_up"]
        /\ FirstOn(status) = "push_door" => status["door_down"]
    BY <1>1, FirstOnLemma DEF IInv, RangeInv
  <2> QED
    BY <1>1, <2>1 DEF IInv, ValveInv, DoorValveOnlyWhileMoving, DoorCommands, Moving
<1> QED
  BY <1>1, Inductive, PTL

(* A moving door always has a timeout, however many timers of earlier      *)
(* motions are still armed.                                                *)
THEOREM TimeoutOnItsWay == Spec => []MovingHasTimeout
<1>1. IInv => MovingHasTimeout
  BY DEF IInv
<1> QED
  BY <1>1, Inductive, PTL

(* There is never a second chain of transmissions, and the one there is    *)
(* ends only when the transmission is stopped.                             *)
THEOREM OneChain == Spec => []OneTransmitChain
<1>1. ASSUME IInv PROVE OneTransmitChain
  <2> DEFINE t == timers["i2c_command"]
             q == pending["i2c_command"]
  <2>1. t \in HandlerTimers /\ q \in Seq(Args)
    BY <1>1, HandlersLemma DEF IInv, RangeInv, PendingInv, TimedHandlers
  <2>2. /\ t.others = 0
        /\ ~(t.named /\ q # <<>>)
        /\ Len(q) <= 1
        /\ ~stopTransmit => t.named \/ q # <<>>
    BY <1>1 DEF IInv, ChainInv
  <2>3. Len(q) \in Nat /\ (q = <<>> => Len(q) = 0) /\ (q # <<>> => Len(q) # 0)
    BY <2>1, EmptySeq, LenProperties
  <2> HIDE DEF q, t
  <2> DEFINE n == Len(q) + t.others + (IF t.named THEN 1 ELSE 0)
  <2>4. n <= 1 /\ (~stopTransmit => n = 1)
    <3>1. CASE t.named
      <4>1. Len(q) = 0 /\ n = 1
        BY <2>2, <2>3, <3>1
      <4> QED
        BY <4>1
    <3>2. CASE ~t.named
      <4>1. n = Len(q)
        BY <2>2, <2>3, <3>2
      <4>2. ~stopTransmit => q # <<>>
        BY <2>2, <3>2
      <4>3. ASSUME q # <<>> PROVE Len(q) = 1
        <5> DEFINE m == Len(q)
        <5>1. m \in Nat /\ m <= 1
          BY <2>2, <2>3
        <5>2. m # 0
          BY <2>3, <4>3
        <5> HIDE DEF m
        <5>3. m = 1
          BY <5>1, <5>2
        <5> QED
          BY <5>3 DEF m
      <4>4. ~stopTransmit => Len(q) = 1
        BY <4>2, <4>3
      <4> QED
        BY <2>2, <4>1, <4>4
    <3> QED
      BY <3>1, <3>2
  <2> QED
    BY <2>4 DEF OneTransmitChain, q, t
<1> QED
  BY <1>1, Inductive, PTL

-----------------------------------------------------------------------------
(* What remains of the type invariant. *)
SizeInv ==
    /\ level \in [Inputs -> {"unknown", "off", "on"}]
    /\ \A h \in Handlers : Len(pending[h]) <= QueueSize[h]
    /\ doorClosed \in BOOLEAN
    /\ busy \in BOOLEAN

(* With prompt handlers a sample finds the queue of the sensors empty, and *)
(* what it leaves there says how the pin of the closed door is to change.  *)
SensorInv ==
    "door_down" \in Inputs =>
        /\ pending["sample"] # <<>> => pending["door_sensor"] = <<>>
        /\ \/ /\ pending["door_sensor"] = <<>>
              /\ doorClosed <=> level["door_down"] = "on"
           \/ pending["door_sensor"] = <<PinAndValue("door_down", level["door_down"] = "on")>>
           \/ /\ \E v \in BOOLEAN : pending["door_sensor"] = <<PinAndValue("door_up", v)>>
              /\ doorClosed <=> level["door_down"] = "on"

LEMMA SizesLemma == QueueSize \in [Handlers -> {1, 2}]
BY DEF QueueSize

(* No operation on a queue of n elements makes it any longer. *)
LEMMA PushedSize ==
    ASSUME NEW S, NEW q \in Seq(S), NEW d \in S, NEW n \in Nat \ {0}, Len(q) <= n
    PROVE  Len(PushedRing(q, d, n)) <= n
<1> DEFINE m == Len(q)
<1>1. m \in Nat /\ m <= n
  BY LenProperties
<1>2. CASE m < n
  <2>1. PushedRing(q, d, n) = Append(q, d) /\ Len(Append(q, d)) = m + 1
    BY <1>2 DEF PushedRing
  <2> HIDE DEF m
  <2>2. m + 1 <= n
    BY <1>1, <1>2
  <2> QED
    BY <2>1, <2>2
<1>3. CASE ~(m < n)
  <2>1. m = n /\ m # 0
    BY <1>1, <1>3
  <2>2. q # <<>>
    BY <2>1
  <2>3. Tail(q) \in Seq(S) /\ Len(Tail(q)) = m - 1
    BY <2>2, HeadTailProperties
  <2>4. PushedRing(q, d, n) = Append(Tail(q), d) /\ Len(Append(Tail(q), d)) = Len(Tail(q)) + 1
    BY <1>3, <2>3 DEF PushedRing
  <2> HIDE DEF m
  <2>5. (m - 1) + 1 <= n
    BY <1>1
  <2> QED
    BY <2>3, <2>4, <2>5
<1> QED
  BY <1>2, <1>3

LEMMA TailSize ==
    ASSUME NEW S, NEW q \in Seq(S), q # <<>>, NEW n \in Nat, Len(q) <= n
    PROVE  Len(Tail(q)) <= n
<1> DEFINE m == Len(q)
<1>1. m \in Nat /\ m <= n /\ Len(Tail(q)) = m - 1
  BY LenProperties, HeadTailProperties
<1> HIDE DEF m
<1>2. m - 1 <= n
  BY <1>1
<1> QED
  BY <1>1, <1>2

LEMMA PoppedSize ==
    ASSUME PendingInv, SizeInv, NEW h \in Handlers, pending[h] # <<>>,
           pending' = Popped(h)
    PROVE  \A g \in Handlers : Len(pending'[g]) <= QueueSize[g]
<1>1. pending[h] \in Seq(Args) /\ QueueSize[h] \in Nat
  BY SizesLemma DEF PendingInv
<1>2. Len(Tail(pending[h])) <= QueueSize[h]
  BY <1>1, TailSize DEF SizeInv
<1> QED
  BY <1>2, PoppedLemma DEF SizeInv

LEMMA SizeOK ==
    ASSUME PendingInv, RangeInv, SizeInv, [Next]_vars, PendingInv'
    PROVE  SizeInv'
<1>0. /\ pending \in [Handlers -> Seq(Args)]
      /\ pending' \in [Handlers -> Seq(Args)]
      /\ \A h \in Handlers : QueueSize[h] \in Nat \ {0}
  <2>1. \A h \in Handlers : QueueSize[h] \in Nat \ {0}
    BY SizesLemma
  <2> QED
    BY <2>1 DEF PendingInv
<1>1. ASSUME NEW which \in Which, NEW sampling \in BOOLEAN, Expires(which, sampling)
      PROVE  SizeInv'
  <2>1. ASSUME NEW h \in Handlers PROVE Len(pending'[h]) <= QueueSize[h]
    <3>1. Null \in Args
      BY DEF Null, PinAndValue, Args
    <3>2. Len(PushedRing(pending[h], Null, QueueSize[h])) <= QueueSize[h]
      BY <1>0, <3>1, PushedSize DEF SizeInv
    <3>3. pending'[h] \in {PushedRing(pending[h], Null, QueueSize[h]), pending[h]}
      BY <1>1 DEF Expires
    <3> QED
      BY <3>2, <3>3 DEF SizeInv
  <2> QED
    BY <1>1, <2>1 DEF Expires, SizeInv
<1>2. CASE OnSample
  <2> DEFINE changed == Changed
  <2>1. /\ pending["sample"] # <<>> /\ "sample" \in Handlers
        /\ pending' = [h \in Handlers |->
              IF \E k \in changed : Reactor[InputOrder[k]] = h
              THEN PushedRing(pending[h], LastChange(changed, h), QueueSize[h])
              ELSE Popped("sample")[h]]
        /\ level' \in [Inputs -> {"unknown", "off", "on"}]
        /\ UNCHANGED <<doorClosed, busy>>
    BY <1>2, HandlersLemma DEF OnSample, Called
  <2>2. changed \subseteq 1..6
    BY DEF Changed, InputOrder
  <2> HIDE DEF changed
  <2>3. ASSUME NEW h \in Handlers PROVE Len(pending'[h]) <= QueueSize[h]
    <3>1. CASE \E k \in changed : Reactor[InputOrder[k]] = h
      <4>1. LastChange(changed, h) \in Args
        BY <2>2, <3>1, LastChangeLemma
      <4>2. pending'[h] = PushedRing(pending[h], LastChange(changed, h), QueueSize[h])
        BY <2>1, <3>1
      <4> QED
        BY <1>0, <4>1, <4>2, PushedSize DEF SizeInv
    <3>2. CASE ~\E k \in changed : Reactor[InputOrder[k]] = h
      <4>1. pending'[h] = IF h = "sample" THEN Tail(pending[h]) ELSE pending[h]
        BY <1>0, <2>1, <3>2 DEF Popped
      <4>2. h = "sample" => Len(Tail(pending[h])) <= QueueSize[h]
        BY <1>0, <2>1, TailSize DEF SizeInv
      <4> QED
        BY <4>1, <4>2 DEF SizeInv
    <3> QED
      BY <3>1, <3>2
  <2> QED
    BY <2>1, <2>3 DEF SizeInv
<1>3. ASSUME NEW h \in Handlers, Called(h), pending' = Popped(h),
             UNCHANGED level, doorClosed' \in BOOLEAN, busy' \in BOOLEAN
      PROVE  SizeInv'
  <2>1. pending[h] # <<>>
    BY <1>3 DEF Called
  <2> QED
    BY <1>3, <2>1, PoppedSize DEF SizeInv
<1>4. CASE OnDoorCmd
  BY <1>3, <1>4, HandlersLemma DEF OnDoorCmd, SizeInv
<1>5. CASE OnDoorSensorChange
  <2> DEFINE pav == Head(pending["door_sensor"])
  <2>1. Called("door_sensor") /\ pending' = Popped("door_sensor")
    BY <1>5 DEF OnDoorSensorChange
  <2>2. pav \in Args
    BY <1>0, <2>1, HandlersLemma, HeadTailProperties DEF Called
  <2>3. doorClosed' \in {doorClosed, pav.value} /\ UNCHANGED <<level, busy>>
    BY <1>5 DEF OnDoorSensorChange
  <2>4. doorClosed' \in BOOLEAN
    BY <2>2, <2>3 DEF Args, SizeInv
  <2> QED
    BY <1>3, <2>1, <2>3, <2>4, HandlersLemma DEF SizeInv
<1>6. CASE OnInputChange
  BY <1>3, <1>6, HandlersLemma DEF OnInputChange, SizeInv
<1>7. CASE OnCmdTimeout
  BY <1>3, <1>7, HandlersLemma DEF OnCmdTimeout, SizeInv
<1>8. CASE OnSendI2cCommand
  BY <1>3, <1>8, HandlersLemma DEF OnSendI2cCommand, SizeInv
<1>9. CASE I2cComplete
  BY <1>9 DEF I2cComplete, SizeInv
<1>10. CASE TooManyErrors
  BY <1>10 DEF TooManyErrors, SizeInv
<1>11. CASE UNCHANGED vars
  BY <1>11 DEF vars, SizeInv
<1> QED
  BY <1>1, <1>2, <1>4, <1>5, <1>6, <1>7, <1>8, <1>9, <1>10, <1>11
     DEF Next, Handle, TimerDispatch

LEMMA SizeInit == Init => SizeInv
<1> SUFFICES ASSUME Init PROVE SizeInv
  OBVIOUS
<1>1. \A h \in Handlers : Len(pending[h]) = 0 /\ QueueSize[h] \in Nat
  BY SizesLemma DEF Init
<1>2. ASSUME NEW n \in Nat PROVE 0 <= n
  OBVIOUS
<1> QED
  BY <1>1, <1>2 DEF Init, SizeInv

(* Every variable keeps its range, and no queue grows beyond its size,     *)
(* for any inputs.                                                         *)
THEOREM TypeCorrect == Spec => []TypeOK
<1>1. Init => SizeInv
  BY SizeInit
<1>2. IInv /\ IInv' /\ SizeInv /\ [Next]_vars => SizeInv'
  BY SizeOK DEF IInv
<1>3. IInv /\ SizeInv => TypeOK
  <2> SUFFICES ASSUME IInv, SizeInv PROVE TypeOK
    OBVIOUS
  <2>1. \A h \in TimedHandlers : timers[h].named \in BOOLEAN /\ timers[h].others \in 0..MaxStray
    BY DEF IInv, RangeInv, HandlerTimers
  <2> QED
    BY <2>1 DEF IInv, RangeInv, SizeInv, TypeOK, DoorStates, Moving
<1> QED
  BY <1>1, <1>2, <1>3, Inductive, PTL DEF Spec

-----------------------------------------------------------------------------
(* Both sensors notify one handler with a queue of one: the lower sensor,  *)
(* registered last, has the last word.                                     *)
LEMMA LowerSensorLast ==
    ASSUME NEW changed \in SUBSET (1..6),
           \E k \in changed : Reactor[InputOrder[k]] = "door_sensor"
    PROVE  LastChange(changed, "door_sensor") =
              IF 2 \in changed
              THEN PinAndValue("door_down", level'["door_down"] = "on")
              ELSE PinAndValue("door_up", level'["door_up"] = "on")
<1> DEFINE ks == {k \in changed : Reactor[InputOrder[k]] = "door_sensor"}
           m  == Max(ks)
<1>1. \A k \in 1..6 : Reactor[InputOrder[k]] = "door_sensor" <=> k \in {1, 2}
  <2>1. ASSUME NEW k \in 1..6 PROVE Reactor[InputOrder[k]] = "door_sensor" <=> k \in {1, 2}
    BY DEF Reactor, InputOrder
  <2> QED
    BY <2>1
<1>2. ks = changed \cap {1, 2} /\ ks # {}
  BY <1>1
<1>3. m = IF 2 \in changed THEN 2 ELSE 1
  <2>1. CASE 2 \in changed
    <3>1. ks \in SUBSET {1, 2} /\ 2 \in ks
      BY <1>2, <2>1
    <3> HIDE DEF ks
    <3>2. \A x \in {1, 2} : 2 >= x
      OBVIOUS
    <3>3. \E x \in ks : \A y \in ks : x >= y
      BY <3>1, <3>2
    <3>4. m \in ks /\ \A y \in ks : m >= y
      BY <3>3 DEF Max
    <3>5. m \in {1, 2} /\ m >= 2
      BY <3>1, <3>4
    <3> QED
      BY <2>1, <3>5
  <2>2. CASE 2 \notin changed
    <3>1. m \in ks /\ ks = {1}
      BY <1>2, <2>2, MaxLemma
    <3> QED
      BY <2>2, <3>1
  <2> QED
    BY <2>1, <2>2
<1>4. LastChange(changed, "door_sensor") = [pin |-> InputOrder[m], value |-> level'[InputOrder[m]] = "on"]
  BY DEF LastChange, PinAndValue
<1>5. InputOrder[1] = "door_up" /\ InputOrder[2] = "door_down"
  BY DEF InputOrder
<1> QED
  BY <1>3, <1>4, <1>5 DEF PinAndValue

(* A queue of one that holds an element holds no other. *)
LEMMA SingleLemma ==
    ASSUME NEW S, NEW q \in Seq(S), NEW d \in S
    PROVE  /\ Len(q) <= 1 /\ q # <<>> => Tail(q) = <<>>
           /\ q = <<>> => PushedRing(q, d, 1) = <<d>>
<1>1. ASSUME Len(q) <= 1, q # <<>> PROVE Tail(q) = <<>>
  <2>1. Tail(q) \in Seq(S) /\ Len(q) \in Nat /\ Len(q) # 0 /\ Len(Tail(q)) = Len(q) - 1
    BY <1>1, EmptySeq, HeadTailProperties
  <2>2. Len(q) = 1
    <3> DEFINE m == Len(q)
    <3>1. m \in Nat /\ m # 0 /\ m <= 1
      BY <1>1, <2>1
    <3> HIDE DEF m
    <3>2. m = 1
      BY <3>1
    <3> QED
      BY <3>2 DEF m
  <2>3. Len(Tail(q)) = 0
    BY <2>1, <2>2
  <2> QED
    BY <2>1, <2>3, EmptySeq
<1>2. ASSUME q = <<>> PROVE PushedRing(q, d, 1) = <<d>>
  <2>1. PushedRing(q, d, 1) = Append(<<>>, d)
    BY <1>2 DEF PushedRing
  <2> QED
    BY <2>1
<1> QED
  BY <1>1, <1>2

LEMMA SensorOK ==
    ASSUME Prompt, PendingInv, SizeInv, SensorInv, [Next]_vars
    PROVE  SensorInv'
<1> SUFFICES ASSUME "door_down" \in Inputs PROVE SensorInv'
  BY DEF SensorInv
<1> DEFINE q == pending["door_sensor"]
           s == pending["sample"]
           down == level["door_down"] = "on"
<1>0. /\ pending \in [Handlers -> Seq(Args)]
      /\ "door_sensor" \in Handlers \ TimedHandlers
      /\ "sample" \in Handlers \ TimedHandlers
      /\ QueueSize["door_sensor"] = 1 /\ QueueSize["sample"] = 1
      /\ Len(q) <= 1 /\ Len(s) <= 1
  BY HandlersLemma DEF PendingInv, SizeInv, QueueSize, TimedHandlers
<1>1. ASSUME NEW which \in Which, NEW sampling \in BOOLEAN, Expires(which, sampling)
      PROVE  SensorInv'
  <2>1. q = <<>>
    BY <1>0, <1>1 DEF Expires, Quiet
  <2>2. UNCHANGED <<q, level, doorClosed>>
    BY <1>0, <1>1 DEF Expires
  <2>3. doorClosed <=> down
    BY <2>1 DEF SensorInv
  <2> QED
    BY <2>1, <2>2, <2>3 DEF SensorInv
<1>2. CASE OnSample
  <2> DEFINE changed == Changed
             change == LastChange(changed, "door_sensor")
  <2>1. /\ s # <<>>
        /\ pending' = [h \in Handlers |->
              IF \E k \in changed : Reactor[InputOrder[k]] = h
              THEN PushedRing(pending[h], LastChange(changed, h), QueueSize[h])
              ELSE Popped("sample")[h]]
        /\ UNCHANGED doorClosed
    BY <1>2 DEF OnSample, Called
  <2>2. /\ changed \subseteq 1..6
        /\ 2 \in changed <=> level'["door_down"] # level["door_down"]
    BY DEF Changed, InputOrder
  <2> HIDE DEF changed
  <2>3. q = <<>> /\ (doorClosed <=> down)
    BY <2>1 DEF SensorInv
  <2>4. s' = <<>>
    <3>1. \A k \in 1..6 : Reactor[InputOrder[k]] # "sample"
      <4>1. ASSUME NEW k \in 1..6 PROVE Reactor[InputOrder[k]] # "sample"
        BY DEF Reactor, InputOrder
      <4> QED
        BY <4>1
    <3>2. s' = Tail(s)
      BY <1>0, <2>1, <2>2, <3>1 DEF Popped
    <3>3. s \in Seq(Args) /\ Null \in Args
      BY <1>0 DEF Null, PinAndValue, Args
    <3> QED
      BY <1>0, <2>1, <3>2, <3>3, SingleLemma
  <2>5. CASE \E k \in changed : Reactor[InputOrder[k]] = "door_sensor"
    <3>1. change \in Args
      BY <1>0, <2>2, <2>5, LastChangeLemma
    <3>2. q' = PushedRing(q, change, 1)
      BY <1>0, <2>1, <2>5
    <3>3. q' = <<change>>
      BY <1>0, <2>3, <3>1, <3>2, SingleLemma
    <3>4. change = IF 2 \in changed
                   THEN PinAndValue("door_down", level'["door_down"] = "on")
                   ELSE PinAndValue("door_up", level'["door_up"] = "on")
      BY <2>2, <2>5, LowerSensorLast
    <3> HIDE DEF change
    <3>5. CASE 2 \in changed
      BY <2>4, <3>3, <3>4, <3>5 DEF SensorInv
    <3>6. CASE 2 \notin changed
      <4>1. doorClosed' <=> level'["door_down"] = "on"
        BY <2>1, <2>2, <2>3, <3>6
      <4>2. \E v \in BOOLEAN : q' = <<PinAndValue("door_up", v)>>
        BY <3>3, <3>4, <3>6
      <4> QED
        BY <2>4, <4>1, <4>2 DEF SensorInv
    <3> QED
      BY <3>5, <3>6
  <2>6. CASE ~\E k \in changed : Reactor[InputOrder[k]] = "door_sensor"
    <3>1. q' = <<>>
      BY <1>0, <2>1, <2>3, <2>6 DEF Popped
    <3>2. 2 \notin changed
      BY <2>6 DEF Reactor, InputOrder
    <3>3. doorClosed' <=> level'["door_down"] = "on"
      BY <2>1, <2>2, <2>3, <3>2
    <3> QED
      BY <2>4, <3>1, <3>3 DEF SensorInv
  <2> QED
    BY <2>5, <2>6
<1>3. CASE OnDoorSensorChange
  <2> DEFINE pav == Head(q)
  <2>1. /\ q # <<>> /\ pending' = Popped("door_sensor") /\ UNCHANGED level
        /\ \/ pav.pin = "door_down" /\ doorClosed' = pav.value
           \/ pav.pin = "door_up" /\ UNCHANGED doorClosed
    BY <1>3 DEF OnDoorSensorChange, Called
  <2>2. q' = <<>> /\ s' = s
    <3>1. q \in Seq(Args) /\ Null \in Args
      BY <1>0 DEF Null, PinAndValue, Args
    <3>2. q' = Tail(q) /\ s' = s
      BY <1>0, <2>1 DEF Popped
    <3> QED
      BY <1>0, <2>1, <3>1, <3>2, SingleLemma
  <2>3. doorClosed' <=> down
    <3>1. CASE q = <<PinAndValue("door_down", down)>>
      <4>1. pav = PinAndValue("door_down", down)
        BY <3>1
      <4>2. pav.pin = "door_down" /\ pav.value = down
        BY <4>1 DEF PinAndValue
      <4>3. doorClosed' = down
        BY <2>1, <4>2
      <4> QED
        BY <4>3
    <3>2. ASSUME NEW v \in BOOLEAN, q = <<PinAndValue("door_up", v)>>, doorClosed <=> down
          PROVE  doorClosed' <=> down
      <4>1. pav = PinAndValue("door_up", v)
        BY <3>2
      <4> QED
        BY <2>1, <3>2, <4>1 DEF PinAndValue
    <3> QED
      BY <2>1, <3>1, <3>2 DEF SensorInv
  <2> QED
    BY <2>1, <2>2, <2>3 DEF SensorInv
(* the other handlers, and what is no handler *)
<1>4. ASSUME UNCHANGED <<q, s, level, doorClosed>> PROVE SensorInv'
  BY <1>4 DEF SensorInv
<1>5. ASSUME NEW h \in Handlers \ {"door_sensor", "sample"}, pending' = Popped(h),
             UNCHANGED <<level, doorClosed>>
      PROVE  SensorInv'
  BY <1>0, <1>4, <1>5 DEF Popped
<1>6. CASE OnDoorCmd
  BY <1>5, <1>6, HandlersLemma DEF OnDoorCmd
<1>7. CASE OnInputChange
  BY <1>5, <1>7, HandlersLemma DEF OnInputChange
<1>8. CASE OnCmdTimeout
  BY <1>5, <1>8, HandlersLemma DEF OnCmdTimeout
<1>9. CASE OnSendI2cCommand
  BY <1>5, <1>9, HandlersLemma DEF OnSendI2cCommand
<1>10. CASE I2cComplete \/ TooManyErrors \/ UNCHANGED vars
  BY <1>4, <1>10 DEF I2cComplete, TooManyErrors, vars
<1> QED
  BY <1>1, <1>2, <1>3, <1>6, <1>7, <1>8, <1>9, <1>10 DEF Next, Handle, TimerDispatch

LEMMA SensorInit == Init => SensorInv
<1> SUFFICES ASSUME Init, "door_down" \in Inputs PROVE SensorInv
  BY DEF SensorInv
<1>1. pending["door_sensor"] = <<>> /\ pending["sample"] = <<>>
  BY HandlersLemma DEF Init
<1>2. ~doorClosed /\ level["door_down"] # "on"
  BY DEF Init
<1> QED
  BY <1>1, <1>2 DEF SensorInv

(* The pin of the closed door agrees with the filtered sensor when the     *)
(* handlers have returned, for any inputs.  The handlers are prompt: a     *)
(* second sample would overwrite a change no handler has seen.             *)
THEOREM ClosedIsReported ==
    ASSUME Prompt
    PROVE  Spec => []ClosedReported
<1>1. Init => SizeInv /\ SensorInv
  BY SizeInit, SensorInit
<1>2. IInv /\ IInv' /\ SizeInv /\ SensorInv /\ [Next]_vars => SizeInv' /\ SensorInv'
  BY SizeOK, SensorOK DEF IInv
<1>3. SensorInv => ClosedReported
  <2> SUFFICES ASSUME SensorInv, "door_down" \in Inputs, Quiet
               PROVE  doorClosed <=> level["door_down"] = "on"
    BY DEF ClosedReported
  <2>1. pending["door_sensor"] = <<>>
    BY HandlersLemma DEF Quiet
  <2>2. \A x : <<x>> # <<>>
    OBVIOUS
  <2> QED
    BY <2>1, <2>2 DEF SensorInv
<1> QED
  BY <1>1, <1>2, <1>3, Inductive, PTL DEF Spec
=============================================================================
