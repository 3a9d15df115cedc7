# Formal models of cnc_pneumatics

The repository holds the firmware of two AVR boards that drive the pneumatics of
a CNC machine, and the small run time, `asx`, both are built on.  The
**controller** reads the machine's outputs, the door's sensors and a pressure
switch, decides which valve is wanted and sends one op-code to the **hub** over
I2C every 100 ms; the hub turns on the valve of that op-code and answers with
the state of its air pressure.  The models here are TLA+ modules translated from
the C and C++ sources, checked by TLC on small instances, with proofs for TLAPS.

Line numbers refer to the sources as they are in `src/`.

## 1. The system

| Component | Source | State | Operations |
|---|---|---|---|
| Queue | `asx/src/queue.c` | ring buffer: `head`, `tail`, `len`, signed byte indices | `push`, `push_back`, `push_ring`, `pop`, `pop_front`, `is_empty` |
| Reactor | `asx/src/reactor.c`, `alert.c` | table of handlers (mask, priority, queue), sorted order, `reactor_notifications`, lock | `register`, `notify` (any context), `run`; assertion, watchdog |
| Timer | `asx/src/timer.c` | millisecond counter, circular list of timers sorted by expiry, instance counter | `arm`, `cancel`, `dispatch` (a reactor handler), tick interrupt |
| Digital input | `asx/src/digital_input.c` | per input: integrator, level, reactor handle; direct inputs: masks | sampling handler, pin change interrupt |
| Digital output | `asx/src/digital_output.c` | per output: blink sequence, position, timer | `set`, `toggle`, `start`; the handler all outputs share |
| Piezzo | `asx/src/piezzo.c` | the notes left, the tone over them, what it recovers, two timers | `play`, `stop`, `start_tone`, `stop_tone` |
| Memory | `asx/src/mem.c` | the filled heap, its top | `mem_calloc`, the stack growing down |
| I2C | `asx/src/twim.c`, `twis.c`, `hub/i2c_slave.c`, `controller/i2c.c` | transfer in progress, byte counts, last command sent | master and slave interrupts, `i2c_master_send` |
| Op-codes | `common/include/op_codes.h` | none | encoding of the pressure in the reply, by complementing the command |
| Hub protocol | `hub/protocol.c` | current command, grace flag and timer, count of messages | traffic, end of grace, periodic check |
| Controller | `controller/main.cpp`, `state_machine.hpp` | `output_statuses`, current command, door state, transmit timer, error count, fail safe | handlers of inputs, door, timeouts, transmission, errors, replies |

**How they interact.**  Everything runs in one thread, the loop of the reactor.
An interrupt (tick, I2C, pin change) or a handler calls `reactor_notify`, which
puts an element in the queue of a handler and sets its bit; the loop calls one
handler at a time, the highest priority first.  `timer_dispatch` is such a
handler, notified by the tick interrupt each millisecond; it notifies the
handlers whose timers expired.  The inputs are sampled by a handler of a
repeating timer.  The controller's handlers arm and cancel timers, change the
table of requested outputs and start transfers; the completion interrupt
notifies the reply or the error handler.  The hub's slave interrupt notifies the
traffic handler.

**What is hard.**  The code has few threads but many orders: interrupts against
the critical sections of the loop; queues of one element that overwrite;
`timer_cancel`, which cannot take back a timer whose notification is already in
a queue; a repeating chain of one-shot timers; a counter that wraps; a fail-safe
that relies on comparing two samples of a counter; two door sensors sharing a
queue of one.  `PROJECT.json` lists each hazard at its line with the properties
that would catch it.

**What makes each component correct.**

* Queue: any mix of calls behaves as a bounded deque.
* Reactor: a bit is set exactly when the queue holds something; no wake-up is
  lost; the assertion on an empty queue never fires; priority order; a pending
  handler is called in the end.
* Timer: every armed timer is delivered once, in order, never early, and
  never after it was cancelled; repeating timers do not drift.
* Controller: a door valve is requested only while the door moves; a moving
  door always has a timeout coming; one transmission chain; the reported door
  state is the sensor's.
* Hub: at most one valve is on and it is the current command's; valves do not
  switch fast; silence turns them off; a steady command is applied.
* Inputs: a level that lasts as long as the filter reaches the program, a
  shorter one does not; a direct pin notifies once per acknowledgement, and one
  that changes alone is sensed again.
* Outputs: a level that is set stays; one item of a sequence is on its way at
  most; a sequence that is not repeated ends.
* Piezzo: no note is heard over a tone, silence at the end, a tune does end.
* Memory: no block overlaps what the stack has used.
* Bus supervision: the error count stays in its byte, a dead link stops the
  transmission, an accepted reply belongs to the command sent, the chuck's pin
  follows the hub and is off once the transmission stopped.
* The two boards: a valve is off at most 7 s after the controller last wanted
  it, whatever is lost and whoever restarts; a command wanted for good is
  applied for good once the disturbances are over.

## 2. Modules

| Module | Models | Notes |
|---|---|---|
| `QueueOps` | what the calls of `queue.c` do to the sequence a queue holds | used by every other model, justified by `Queue` |
| `BoundedDeque` | abstract specification of a queue | |
| `Queue` | `queue.c`, one action per call, indices in signed bytes of `2*IndexHalf` values | refines `BoundedDeque` |
| `EventLoop` | abstract specification of the reactor: one queue per handler, of those that hold something the most urgent is served; no flags, no sorted table | |
| `Reactor` | `reactor.c` and the stop and reset of `alert.c`; one action per critical section | refines `EventLoop` |
| `TimerSet` | abstract specification of the timer service: a set of timers | |
| `Timer` | `timer.c`; `timer_dispatch` is one step per timer, with ticks in between | refines `TimerSet` |
| `Controller` | handlers of `main.cpp`, the table of `state_machine.hpp` | |
| `Comms` | bus supervision of `main.cpp`, `i2c.c`, the frames of `twim.c`, `twis.c` and `i2c_slave.c`, the op-codes | release build |
| `HubProtocol` | the three handlers of `protocol.c` with time in units of 500 ms | |
| `System` | the controller's command, the bus and `HubProtocol` together, with lost frames and restarts of either board | extends `HubProtocol` |
| `DigitalInput` | the sampled inputs of `digital_input.c` | |
| `DirectInput` | its direct inputs: the pin change interrupts and their acknowledgement | |
| `DigitalOutput` | `digital_output.c`: set, toggle, start, the items of sequences | durations are not timed |
| `Piezzo` | `piezzo.c`: tunes, and tones over them | durations are not timed |
| `Memory` | `mem.c` and a stack that grows towards the blocks | |
| `QueueProofs`, `ReactorProofs`, `TimerProofs`, `ControllerProofs`, `CommsProofs` | theorems about the module they are named after | |
| `HubProofs` | theorems about `HubProtocol` and `System` | |
| `SignalProofs` | theorems about `DigitalOutput` and `Piezzo` | |
| `ServiceProofs` | theorems about `DigitalInput`, `DirectInput` and `Memory` | |
| `MCServices` | instance of the queue, the inputs, the outputs, the sounds, the memory and the hub's protocol; they share no state, and a behaviour is one of the part that `part` names | |
| other `MC*` | instances for TLC | |

**Queue.**  `Push`, `PushBack`, `Pop`, `PopFront`, `PushRing` are the calls, the
`...Refused` actions their early returns.  `Before` and `After` are the index
arithmetic, done in an `int` and stored in the signed index type (`ToIndex`).
The history of a slot never written is `NoData`.

**Reactor.**  A mask is the set of its bits.  Each section that runs with the
interrupts off is one step: `Sleep` (the test and the `sei; sleep` pair),
`Snapshot`, `Scan`, `HandlerReturn`.  `Scan` is either `Dispatch` (pop, clear the
flag) or `DispatchRefused`, when the queue of the flag is empty; `InterruptNotify`
can come between any two of them, `SetupNotify` before the loop, and
`HandlerNotify` from the handler being called.  `Sort` allows any order of equal
priorities, because `qsort` does.  `Promise` maps the reactor to `EventLoop`: of
the notifications read (`Snapshot`) what remains for `EventLoop` is the set of
handlers that were waiting (`Waiting`), whose masks the sort gave them.
`IntShift` is `1 << handle` in the int of
`avr-gcc`, 16 bits, at `reactor.c:144`.  A failed assertion stops the program
(`Stop`); once `reactor_run` enabled the watchdog, `WatchdogReset` restarts it
unless `DEBUG` disabled the watchdog again.

**Timer.**  `clock` and a timer's `due` are the real time that the counter and
the counts stand for; the code only sees them modulo `Wrap`.  `Inserted` is the
search and the shift of `timer_arm`, also used by `DispatchExpired` when a
repeating timer is armed again.  `Arm` takes a `lag` since the counter may tick
between `timer_get_count_from_now` and `timer_arm`.

**Controller.**  One handler of the reactor is one action, guarded by `Called`:
nothing of a higher priority is pending.  `TimerDispatch` lets any armed timer
expire at any time.  Of each handler's armed timers the model keeps whether the
one named by the program's variable (`transmit_timer`, `valve::timer`) is among
them and how many others there are.  `OnSample` lets any levels change in one
sample; of the inputs that share a handler the last one that changed, in the
order of their registration, is what the handler's queue keeps.  A level goes
from unknown to on or off and never back to unknown, as the integrator of
`digital_input.c` does.  `TooManyErrors` stands for the supervision of the bus.
The constant `Prompt` says whether all the handlers notified in one millisecond
return before the next; `FALSE` allows any delay.

**Comms.**  A frame is two steps: the hub receives the command's byte
(`HubReceives`) and the master reads the reply (`MasterReads`), or it ends in a
`Fault` (missing acknowledge, bus error, lost arbitration) or hangs, since
nothing obliges the bus to go on.  A byte is the set of its 1 bits, the masks of
the reply are symmetric differences.  One thing goes wrong in a frame at most: a
flipped bit, or a hub that stops or restarts between the two bytes
(`Undisturbed`).  With two the code does accept wrong replies: the reply "on" to
`blast_toolsetter` (0xDF) is one bit away from a line nobody drives, the reply
"off" (0x20) one bit away from a buffer that was reset.  `delivered` and
`answered` are what the hub saw, for the properties.  The bus is busy exactly
while a frame is under way, for `i2c_is_busy` as for the driver's lock.  As
`OneTransmitChain` of `Controller` shows, one timer of the transmission is armed
at most, so that `transmitTimer` is a Boolean.

**HubProtocol.**  `Receive` is the slave interrupt, with any byte (`Garbage`
stands for the bytes that are no command), `Pass` is half a second, at the end
of which timers that reach zero notify their handlers.  `processed` and
`silence` are ages used by the properties.  Grace, check and first check are 1,
2 and 5 s: 2, 4 and 10 units.

**System.**  `HubProtocol` with the other end of the bus: `Wish` changes the
controller's command, `Send` is a frame, which a disturbance may lose (a spoilt
frame is no command to the hub: `Comms`), `StopTransmit`, `ControllerRestart` and
`HubRestart` may come at any time until `Calm`.  The unit of time is a second:
the controller sends at least one frame in it (it sends ten).  `wishes` and
`unwanted` say when the hub's command was last wanted, and `steady` for how long
the wish has been the same without a lost frame, a stop or a restart, for the
properties.

**DigitalInput.**  `Sample` is the handler of the repeating timer, with any
levels on the pins; each input's integrator, level and notification follow.
`OnChange` is the program's handler, called late or soon.  `ups`, `downs` and
`streak` count the samples, for the properties.

**DirectInput.**  `PinChangeIsr` and `IsrReturn` are the two halves of the
interrupt, since an edge between them is lost with the flags it resets.
`_clear_interrupt` opens with `sei` and closes with `cli`, so that its mask is
read (`DirectHandler`, `AckHandler`) and written back (`ClearInterrupt`) with an
interrupt in between.  The queues of the two handlers hold one pin.

**DigitalOutput.**  A sequence is the items that `_parse_next` gives of its
string, and whether the last has a duration.  `stepTimers` counts the timer the
field `timer` names and any other that is armed; `_cancel_sequence` only stops
the former and leaves a notification that is already in the queue.

**Piezzo.**  As the controller uses it.  A tune is the notes that parsing it
gives; `noteTimers` is what `stepTimers` is above, `stops` counts the armed
timers that end a tone.

**Memory.**  The bytes that hold 0xaa are a set; `Grow` takes the stack down and
writes to some bytes of a frame.  It assumes what the guard of `mem.c` is for:
that the gaps a frame leaves are shorter than the guard.

## 3. Runs

| Run | Shows | Bounds |
|---|---|---|
| `services` | queue: `RingInv` (head, tail and length agree and each counted element was written), `DequeSpec` (the ring buffer implements `BoundedDeque`) | 4 slots, indices of 8 values, so that the size is the largest the type allows and both ends wrap; two data values |
| | inputs: `SteadySeen`, `ChangeFiltered` | one input, since inputs share nothing; threshold 4 |
| | direct inputs: `OncePerAck`, `LonePinSensed` | two pins of a port, one with a filter |
| | outputs: `SetSticks`, `OneSequence`, `SequenceEnds` | two outputs; a flash, a blink and a sequence with a duration at its end |
| | sounds: `ToneOverTune`, `SilentAtEnd`, `TuneEnds` | the beep and a tune of three notes with a slur and a rest; one tone; at most two chains of notes and two tones to end |
| | memory: `BlockClearOfStack` | heap of 10 bytes, blocks of 1 and 2, guard of 3 |
| | hub: `ValvesMatchCommand`, `FailSafe`, `NoFastSwitching`, `EventuallyApplied` | idle, two commands with a valve, one without, and garbage; the periods of the code in units of 500 ms |
| `reactor` | `FlagIffPending`, `NoLostWakeup`, `EventLoopSpec` (which includes that a handler is called with the oldest thing in its queue and in the order of priority), `EventuallyCalled` | up to 3 handlers, 2 priorities (ties occur), queues of 1 and 2; the handles notified before the loop have masks that fit the int |
| `timer` | `ListOK` (the slots in use are those that hold timers, in the order of their expiry), `TimerSetSpec`, `DispatchComplete`, `EventuallyDelivered` | 3 slots, up to 3 timers so that the list gets full, four milliseconds, no wrap |
| `timer_wrap` | violation of `NeverEarly` | the counter wraps at 8 |
| `controller` | `DoorValveOnlyWhileMoving`, `MovingHasTimeout`, `OneTransmitChain`, handlers delayed at will | both door sensors, the door's command and one other output that competes for the command; one stray timer |
| `controller_live` | `ClosedReported`, `MotionEnds`, `KeepsTransmitting` | the same inputs, prompt handlers |
| `controller_timeout` | violation of `TimeoutIsValid` | door only |
| `controller_inputs` | violation of `LastSeenState` | three outputs |
| `controller_valves` | violation of `DirectionAsNamed` | door only |
| `comms` | `TypeOK` (the count of errors stays near its limit), `NoWrongCommand`, `ReplyMatchesCommand`, `DeadLinkStops`, `PressureFollows` | idle and the two commands closest to each other in the comments of `op_codes.h`; all eight bits may flip; limit of 3 errors, which both parities of the count pass |
| `comms_failsafe` | violation of `StoppedIsSafe` | one command |
| `system` | `ValveNotOutlivesWish`, `AppliedInTime` (a command wanted for 4 s without a disturbance is applied), `WishApplied` | idle and the door's two commands; the periods of the code in seconds. Both bounds are tight: TLC finds a valve that is on 6 s after it was wanted, and a command not applied after 3 s |

Why the bounds are enough: the queue's operations only compare indices with
each other and with the size; the reactor's proofs hold for any number of
handlers, and three is the least with one below and one above; a timer list of
three wraps, is shifted both ways, gets full and holds ties; in the controller
an input beyond these four only adds a line to the table of outputs; the proofs
of section 4 hold for any number of inputs, outputs, notes, pins and bytes, so
that the small instances of `services` only have to show that the formulas are
not vacuous.  Each property is violated by a mutant of the code in the same
instance.  `MaxStray`
saturates: one stands for one or more.  Ages in the hub saturate at `MaxAge`,
the longest time a property speaks of.

Type invariants are checked by `comms`, and by `timer` as a part of `ListOK`; those of
the other modules are proved (section 4).

Deadlock is checked except in the reactor (a program that stopped on an
assertion before the watchdog is enabled stays there), in the services (so does
one that `mem_calloc` stopped) and the timer (the model's clock stops at `MaxClock`, and a refused
`timer_arm` stops the program).

No run takes `DispatchRefused`, since the assertion of the loop never fails when
the masks used before `reactor_run` are right (`PopsSomething`, section 4).

**Fairness.**

* `Reactor`: weak fairness of the loop's own steps (handlers return) and of the
  watchdog, which is hardware.  None for interrupts.  `EventuallyCalled` assumes
  that the handlers before the one in question are at last quiet: with strict
  priorities nothing else is owed (`reactor.c:121`: "Providing the system has
  enough processing time").
* `Timer`: ticks come, and `timer_dispatch` is called and returns; it has the
  highest priority on the controller.
* `Controller`: a pending handler is called, a frame ends (the bus interrupt
  reports a result or an error), and an armed timer expires unless it is
  cancelled again and again; strong because an expiry is taken between two
  bursts of handlers.  No fairness for inputs.
* `Comms`: timers expire and pending handlers are called, those of a lower
  priority than the transmission too (strong): a transmission takes 300 us of
  100 ms.  None for the bus, the hub or the wanted command.
* `HubProtocol`: the handlers of lower priority are called and time passes even
  when bytes keep arriving, strong fairness: a command each 100 ms leaves the
  processor idle in between.  `Receive(incoming)` is fair because the controller
  repeats its command.  `EventuallyApplied` is about a controller that settles
  on one command and is never silent for a check period.

* `DirectInput`: interrupts come and return, timers expire and handlers are
  called.  None for the pins.
* `DigitalOutput`, `Piezzo`: an armed timer that is not cancelled expires, and
  the handlers are called.  `SequenceEnds` and `TuneEnds` are about outputs that
  are not started, and tunes that are not played, for ever again.
* `System`: the controller goes on sending while it has not stopped and the
  hub's handlers are called (weak); time passes, and the two handlers of the
  hub's timers get their turn among the frames (strong): both processors are
  idle for most of a second.

## 4. Proofs

| Theorem | Says |
|---|---|
| `QueueProofs!TypeCorrect`, `RingConsistent`, `ImplementsDeque` | for every size that fits the index type: `TypeOK`, `RingInv`, and the refinement of `BoundedDeque` |
| `ReactorProofs!TypeCorrect`, `FlagsMatchQueues`, `PopsSomething`, `SleepsWhenIdle`, `ScanFinds`, `CallsHighestFirst` | the reactor's invariants for any number of handlers, any queue sizes and priorities |
| `ReactorProofs!RefinesEventLoop` | the refinement of `EventLoop`, likewise |
| `TimerProofs!ListWellFormed`, `DispatchesAll`, `ImplementsTimerSet` | `ListOK`, `DispatchComplete` and the refinement of `TimerSet`, for any number of slots, any delays and periods, while the counter stays in the first half of its range |
| `TimerProofs!NeverComesBack` | under the same assumption no instance comes back into the list once it left it, so that `timer_cancel` with the instance of a timer that is gone takes away no other, and a delivered timer was armed, is due and is armed no more |
| `HubProofs!TypeCorrect`, `ValvesCorrect`, `FailsSafe`, `SwitchesSlowly` | the hub's properties for any commands and any periods in the order of the code's |
| `HubProofs!SystemTypeCorrect`, `ValvesFollowWish`, `CommandAppliedInTime` | `SystemTypeOK`, `ValveNotOutlivesWish` and `AppliedInTime` of `System`, for any commands and any periods in the order of the code's |
| `ControllerProofs!TypeCorrect`, `ValveOnlyWhileMoving`, `TimeoutOnItsWay`, `OneChain` | the controller's safety for any of the inputs, prompt handlers or not, and any number of stray timers |
| `ControllerProofs!ClosedIsReported` | `ClosedReported` for any of the inputs, with prompt handlers |
| `CommsProofs!TypeCorrect`, `CommandsDistinct`, `RepliesMatch` | `TypeOK`, `NoWrongCommand` and `ReplyMatchesCommand` for any wanted commands and any limit of errors |
| `CommsProofs!StopsAtLimit` | a next frame is on its way until the count of errors reaches the limit, and the transmission has stopped once it has |
| `ServiceProofs!TypeCorrect`, `SteadyLevelSeen`, `ChangesFiltered` | the sampled inputs, for any number of them and any threshold |
| `ServiceProofs!NotifiesOnce`, `LonePinKept` | `OncePerAck`, for any pins and filters; a pin that changes alone is sensed or on its way to be |
| `ServiceProofs!HeapTypes`, `BlocksClear` | the allocator, for any heap, blocks and guard |
| `SignalProofs!TypeCorrect`, `LevelKept`, `ItemsDoNotPile`, `NeverStuck` | the outputs, for any number of them and any sequences: the properties of the run, and that no sequence stops midway |
| `SignalProofs!SoundTypes`, `NoNoteOverTone`, `EndsSilent`, `TuneNeverStuck` | the sounder, for any tunes, tones and number of chains: the properties of the run, and that no tune stops midway |

Assumptions.  `QueueAssumption`: the size is positive and at most what a signed
index counts.  `PreRunSafe` (in `ReactorProofs`): the handles a program notifies
before `reactor_run` have a bit of their own in an int; no assumption is made on
the others, whose masks are computed again by the sort.  `NoWrap` (in
`TimerProofs`): the times of the model and the delays after them stay below half
of the counter's range, 24 days; `timer_wrap` (section 6) shows that after the
whole range the service breaks its promise.  `Periods` (in
`HubProofs`): `Grace < Check <= FirstCheck` and `FirstCheck + Check <= MaxAge`;
the code has 2, 4, 10 units.  `SystemPeriods` adds `Grace + Check <= FirstCheck`.
`Prompt` (of `ClosedIsReported` only) is the constant of the model: all handlers
notified in a millisecond return before the next sample, 5 ms apart in the code.
Without it a change that no handler has seen is overwritten, and
`ClosedReported` is false for a while.
`InputAssumption`: the threshold is positive.  `OutputAssumption`: there are as
many places in the handler's queue as outputs (eight, `digital_output.c:24`; the controller has five outputs).  `MemoryAssumption`: sizes and guard are positive.

Arguments.

* *Queue.*  The inductive invariant says that `tail` is `head` plus the length
  modulo the size and that the elements counted are those stored.  The lemmas
  `ModLemma` to `AtDistinct` do the arithmetic of positions once.
* *Reactor.*  `FlagIffPending` is not inductive: it needs that the lookup is a
  permutation of the registered handles (the sort), that each mask is the bit of
  a position, and that a flag in the snapshot is still set, because only
  `Dispatch` clears flags and it ends the scan.  The refinement adds what the
  flags mean: a handler waits for `EventLoop` when its queue held something at
  the snapshot, its bit is in the snapshot then (`WaitingLemma`), and the first
  set bit in the sorted table is one of the most urgent.  A notification that
  comes between the snapshot and the scan is queued in both, and served at the
  next look in both.
* *Timer.*  `Holds(l, a, v, n)` says that the `n` slots from the active one on,
  counted around the ring, hold timers in order with distinct instances, and the
  others none; `TInv` is that some `n` makes it true, and that the instances
  given so far bound those in the list.  Three lemmas move it over an insertion,
  a removal and the end of the first timer, each with what happens to the set of
  timers, so that `ListOK` and the refinement share them.  The insertion point of
  `timer_arm` exists because the later timers' offsets have a smallest one.
  `NeverComesBack` follows from the refinement's steps and from the instances of
  the list being distinct and bounded by the last one given.
* *Hub.*  `FailSafe` needs the age of the silence related to the time left to
  the check and to whether a message was counted since the last one (`CheckInv`);
  `NoFastSwitching` needs that while a command is refused the accept timer's
  remaining time and the age of the last command add up to the grace period, and
  that a stray timer cannot end it early (`GraceInv`); from both, that a failed
  check happens only after the grace period.

* *System.*  A command is refused only while the timer that ends the grace
  period is on its way (`RefusingInv`); what the hub has yet to handle was wanted
  in this unit (`WishesInv`); and the age of the wish is bounded by the time left
  to the check, one period longer when no message was counted since the last
  check (`UnwantedInv`).  `AppliedInTime` needs that, after a steady unit, what
  the hub is about to handle is what is wanted now, that a message was counted
  whenever a check is due (so that no check turns the valves off), and that the
  grace period of an older command has at most its length left from there on
  (`SteadyInv`); that is, as long as another command is applied, its grace period
  ends at most `Grace + 1` units after the wish became steady, and the next frame
  applies the wish (`HoldUpInv`).
* *Controller.*  A valve is requested exactly while the door moves its way
  (`ValveInv`): `on_cmd_timeout` and the sensors' events must agree with the
  table in every state, a timeout that comes late included.  `OneTransmitChain`
  needs that the timer `transmit_timer` names and the notification of the handler
  exclude each other (`ChainInv`), for which the priorities are used: a handler
  that changes the command is called only when no transmission is pending.
  `ClosedReported` relates the sensor to a pin that is set two handlers later:
  `SensorInv` says that the pin already agrees, whether the queue the two sensors
  share holds the upper one's change or nothing, or that this queue holds the
  lower one's change, which will make it agree: it has one place, and keeps the
  lower sensor's change because that input is registered last; `SizeInv` keeps the queues
  within their sizes.
* *Comms.*  Every two op-codes differ in two bits at least (`PairsDiffer`), and
  the two masks are complements and no op-code is a mask: one fault cannot turn
  the reply to another command, the line of a silent hub or a buffer that was
  reset into a reply the master accepts (`FrameInv`).  `CountInv` bounds
  the count by what may still be added: an error in the queue and a frame.
  `NextFrameDue` says that the chain of transmissions is not broken by an error, a
  busy bus or a reply.
* *Sampled inputs.*  `Settled` bounds the integrator by the samples seen since
  the input changed, `Kept` by the last samples that were alike; `ToldInv` says
  that the handler was told the last change or is about to be.
* *Direct inputs.*  A change is in one place at a time: in the handler's queue,
  in a timer, in the queue of acknowledgements or in `_clear_interrupt`; its pin
  is neither sensed nor flagged (`DirectInv`).  This is why the torn update of
  `_isr_bit_mask` does no harm: the pin's sense mode already keeps it quiet.
  `LoneInv`: as long as the mask names one pin only, that pin is sensed or in one
  of those places, and no other pin can push it out of a queue of one.
* *Outputs.*  An output has a timer or an element of the queue, never both
  (`OnItsWay`), so that the queue, with as many places as outputs, never drops
  one (by the pigeonhole principle); `SetInv`, `RepeatInv` and
  `MidwayInv` follow.
* *Sounder.*  The chains of notes never exceed their bound, and with no chain
  left there is nothing a tone could recover (`TuneEndInv`).
* *Memory.*  From the lowest byte the stack reached on there is no run of
  filled bytes as long as the guard (`NoGap`).

Only model-checked: the liveness properties `EventuallyCalled`,
`EventuallyDelivered`, `MotionEnds`, `KeepsTransmitting`, `DeadLinkStops`,
`PressureFollows`, `EventuallyApplied`, `WishApplied`, `LonePinSensed`,
`SequenceEnds` and `TuneEnds`, since liveness and ENABLED are out
of the prover's reach.  For most of them the half that is safety is proved: the
thing that must happen is on its way (`MovingHasTimeout`, `OneTransmitChain`,
`GoesOnToLimit`, `LonePinKept`, `NotStuckMidway`, `TuneGoesOn`, the two
refinements), or has a deadline (`AppliedInTime`).

## 5. What is not modelled

* Boards and hardware set-up, pin directions, the clock: register writes that
  the models take as done.  Headers of ports and of the compiler: macros.
* The vendored Boost library.  The transition table is modelled as SML runs it:
  an event without a row is dropped.  With the hardware headers it is most of
  the lines of the repository.
* The registers of the two I2C drivers and their waits.  What they do depends on
  the peripheral, the flags it raises and the order it raises them in, which no
  file of the repository describes; `Comms` models a frame by what the callers
  see of it.  `twim_release` spins in the interrupt: there the time is not
  modelled.
* Durations of blinks and notes: a timer may expire at any time.  The parsers
  are modelled by the items they give.
* The value a direct input sends with its pin, and the notification of the pin's
  own handler (`digital_input.c:179`).  The null handle of a sampled input
  (`digital_input.c:119`): every input the programs register has a handler.
* The watchdog's reset of a handler that runs for longer than a second: the
  handlers of the models return.
* `Controller` stands in for the supervision with a free choice of when the
  transmission stops, `Comms` for the door with a free choice of the command,
  `System` for both with a free choice of the wish.  The LEDs and sounds the
  controller asks for act through `DigitalOutput` and `Piezzo`, where any order
  of the calls is allowed.
* In a debug build errors are never counted and the transmission never stops;
  `Comms` is the release build.
* The KiCad design and the makefiles.

## 6. Disagreements met while modelling

Shown by runs:

* `timer_wrap`: expiry is an unsigned comparison (`timer.c:336`) although
  insertion uses the signed distance.  After 49 days a timer armed across the
  wrap is delivered at once.
* `controller_timeout`: `valve::timer` is cancelled, but a timeout that already
  expired is in the queue and ends the motion; neither `on_cmd_timeout` nor the
  state machine looks at the instance.
* `controller_inputs`: three pneumatic inputs share a queue of one element; two
  that change in the same sample lose one change.
* `controller_valves`: the output of the upper sensor's pin, which `push_on` turns
  on while the door opens (`state_machine.hpp:41`), has the op-code `pull_door`
  (`main.cpp:90`), and that of the lower one, on while the door closes,
  `push_door` (`main.cpp:91`).  The README of the repository says that the push
  solenoid opens the door and the pull solenoid closes it (`README.md:39-42`,
  `56-57`).  `DoorValveOnlyWhileMoving` and its theorem do not decide this: they say
  that the entry of each direction is on exactly in that direction, and that a
  door valve is requested only while the door moves.
* `comms_failsafe`: `on_i2c_read` (`main.cpp:376`) does not look at
  `stop_transmit`; a frame on the bus when the errors reach their limit turns the
  chuck's pin on again, for good.

Seen in the code, without a run:

* `timer_arm` accepts a timer until the two slot indices meet, and then
  `timer_dispatch` (`timer.c:332`) takes the full list for an empty one: nothing
  is delivered any more and the next `timer_arm` stops the program.  With the
  default of 16 slots this needs 16 timers armed at once.  `DispatchComplete` and
  `EventuallyDelivered` are stated of a list that is not full; TLC refutes
  `DispatchComplete` without that condition.
* The comments of `op_codes.h:25-26` give the values of `pull_door` and
  `blast_toolsetter` as 09 and 75; the code has 0A and 7A.  With the values of
  the comments one flipped bit would turn `blast_toolsetter` into `push_door`.
* `reactor.c:144` shifts an int: for handle 15 or more a notification before
  `reactor_run` flags the wrong handlers, or none (the comment above says such
  notifications are possible).
* `reactor.h:16-17` says the first handler registered is dealt with first; the
  loop goes by priority.
* `timer.c:232` says a repeating timer gets its argument every time; it is armed
  again with `NULL` (`timer.c:344`).  `timer.h:55-56` says repeating timers keep
  their instance; they get a new one.
* `protocol.c:106` says the check is called every second; it runs after 5 s and
  then every 2 s, and `CHECK_COMMS_INTERVAL` is not used.
* `alert.c:67` says that the watchdog will reset a program that stopped on an
  assertion.  `reactor_run` enables the watchdog (`reactor.c:239`): a registration
  too many before it (`reactor.c:137`), or a failed `mem_calloc` there, leaves the
  program in the loop of `alert_record` for ever.  In the loop of the reactor the
  reset does come, except in a debug build (`alert.c:59-63`).
* An open or close command given while the door moves, or in the state unknown,
  is dropped and not looked at again.
* `digital_input.c:146` and `157` have `sei` and `cli` the wrong way round in
  `_clear_interrupt` ("Atomically handle the _isr_bit_mask", line 141): an
  interrupt can come within, and its pin's bit is then lost in the mask.
  `OncePerAck` holds all the same.
* Two direct pins that change together overwrite each other in the queue of one
  of the handler (or, later, of the acknowledgements): the first is never
  acknowledged and stays off.  `LonePinSensed` is stated of a pin that changes
  alone for that reason.
* `digital_input.c:236` sends the whole port as the value of one pin: any pin
  of the port that is high makes it true.
* An edge between the interrupt's reading of the flags and its reset of all of
  them (`digital_input.c:349-352`) is lost.
* An input that has just started (unknown) and sees a pulse of any length
  notifies "off" at its end (`digital_input.c:107-113`), although its filter is
  40 ms (`main.cpp:43`).  With a filter below the period of 5 ms the threshold is
  0 and the input never leaves unknown.
* `conf_prio.h` gives the outputs' handler the priority 80, which
  `digital_output.c` does not include: it runs at 180.  With 80 an item of a
  sequence could be pending when an output is set, and `SetSticks` would not
  hold.
* `_cancel_sequence` resets its own copy of the instance.  A duration at the end
  of a repeated sequence lasts twice.  'X' is documented (`digital_output.h:25`)
  and not implemented.
* `piezzo.c`: a timer that ends an earlier tone ends a later one too, though
  with a duration of 0 it "plays for ever" (378-379).  A second tone within one
  note leaves the rest of the note silent, since the value to recover is zeroed
  at 304.  A beep over a pending note starts a second chain of notes; both play
  the rest of the tune.  `piezzo_stop` leaves the note a tone recovers.
* The check of `mem_calloc` is made when a block is given out: a stack that grows
  into a block later is not detected.
* The first timer gets instance 0, while users of `timer_cancel` treat 0 as
  none.

## 7. Plan

Done: the modules of section 2, in the order `QueueOps`, `BoundedDeque`, `Queue`,
`EventLoop`, `Reactor`, `TimerSet`, `Timer`, `Controller`, `Comms`, `HubProtocol`, then `System`,
`DigitalInput`, `DirectInput`, `DigitalOutput`, `Piezzo`, `Memory`; and the proofs of
section 4.

Left, in order:

1. Proofs: a bound in time for `EventuallyApplied` of the hub alone, as
   `AppliedInTime` is for the two boards; an abstract specification of the valves
   (one command at a time, no faster than the grace period, off after a silence)
   that `HubProtocol` is shown to refine.
2. The controller's handlers composed with the outputs and the sounder they
   drive: which LED and which tone a state of the door and of the bus shows.
3. The I2C drivers in detail, when the behaviour of the peripherals is stated.
