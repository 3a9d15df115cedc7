----------------------------- MODULE HubProtocol -----------------------------
(***************************************************************************)
(* hub/protocol.c: the hub applies the command it receives on the i2c to   *)
(* its valves, at most once per grace period, and turns the valves off     *)
(* when a check finds that no command came since the last one.             *)
(*                                                                         *)
(* The three handlers run in the reactor: the traffic first (realtime),    *)
(* then, in any order, the two that timers notify.  Time is counted in     *)
(* units of 500 ms; a unit passes only when the handlers notified in the   *)
(* last one have returned, and commands come at any time.                  *)
(***************************************************************************)
EXTENDS Integers, QueueOps

CONSTANTS
    Commands,   \* opcodes_cmd_t without opcodes_cmd_error
    Idle,       \* opcodes_cmd_idle
    Valves,     \* the five output pins
    ValveOf,    \* the pin of each command that has one
    Garbage,    \* what a byte that is not a command is received as
    Grace,      \* NO_NEW_COMMAND_GRACE_PERIOD: 2 units
    Check,      \* the period of the check: 4 units
    FirstCheck, \* its first time: 10 units
    MaxAge      \* bound: durations are counted up to it

ASSUME HubAssumption ==
    /\ Idle \in Commands
    /\ ValveOf \in [DOMAIN ValveOf -> Valves]
    /\ DOMAIN ValveOf \subseteq Commands \ {Idle}
    /\ Garbage \notin Commands
    /\ Grace \in Nat \ {0}
    /\ Check \in Nat \ {0}
    /\ FirstCheck \in Nat \ {0}
    /\ MaxAge \in Nat

VARIABLES
    pins,           \* the output pins that are on
    currentCmd,     \* _current_cmd
    ready,          \* _ready_to_accept_new_command
    acceptTimer,    \* units left to the timer that
                    \* _ready_to_accept_timer_instance names, 0 if none
    strayTimers,    \* units left to the other timers armed for the handler
    checkTimer,     \* units left to the periodic timer
    received,       \* _message_received_counter # 0
    pending,        \* what the queues of the three handlers hold
    incoming,       \* the last byte received
    processed,      \* units since _protocol_process was called
    silence         \* units since a valid command was handled

hubVars == <<pins, currentCmd, ready, acceptTimer, strayTimers, checkTimer,
          received, pending, incoming, processed, silence>>
ages == <<processed, silence>>

NoArgument == "no_data"
Handlers == {"traffic", "accept", "check"}
Quiet == \A h \in Handlers : pending[h] = <<>>

(* all three queues have one element *)
Notifying(h, data) == [pending EXCEPT ![h] = PushedRing(@, data, 1)]
Popped(h) == [pending EXCEPT ![h] = Tail(@)]

Older(age) == IF age < MaxAge THEN age + 1 ELSE age

HubInit ==
    /\ pins = {}
    /\ currentCmd = Idle
    /\ ready = TRUE
    /\ acceptTimer = 0
    /\ strayTimers = {}
    /\ checkTimer = FirstCheck
    /\ received = FALSE
    /\ pending = [h \in Handlers |-> <<>>]
    /\ incoming = Garbage
    /\ processed = MaxAge
    /\ silence = 0

(* Mutant: a valve is turned on without turning the others off *)
ValvesAdded(cmd) ==
    pins \cup {ValveOf[c] : c \in {cmd} \cap DOMAIN ValveOf}

(* the pins of a command: all the others are turned off first *)
ValvesFor(cmd) == {ValveOf[c] : c \in {cmd} \cap DOMAIN ValveOf}

(* Mutant: the command is applied without starting the grace period *)
ProcessStillReady(cmd) ==
    /\ pins' = ValvesFor(cmd)
    /\ processed' = 0
    /\ UNCHANGED <<ready, acceptTimer>>

(* _protocol_process: the timer that runs is cancelled and another armed *)
Process(cmd) ==
    /\ pins' = ValvesFor(cmd)
    /\ ready' = FALSE
    /\ acceptTimer' = Grace
    /\ processed' = 0

(* protocol_handle_traffic *)
HandleTraffic ==
    /\ pending["traffic"] # <<>>
    /\ pending' = Popped("traffic")
    /\ LET cmd == Head(pending["traffic"])
       IN  \/ /\ cmd \in Commands
              /\ received' = TRUE
              /\ silence' = 0
              /\ IF currentCmd # cmd /\ ready
                 THEN currentCmd' = cmd /\ Process(cmd)
                 ELSE UNCHANGED <<pins, currentCmd, ready, acceptTimer, processed>>
           \/ /\ cmd \notin Commands
              /\ UNCHANGED <<pins, currentCmd, ready, acceptTimer, received,
                             processed, silence>>
    /\ UNCHANGED <<strayTimers, checkTimer, incoming>>

(* Mutant: the counter is not reset *)
OnCheckCommsNoReset ==
    /\ pending["check"] # <<>>
    /\ pending["traffic"] = <<>>
    /\ pending' = Popped("check")
    /\ IF ~received
       THEN Process(Idle) /\ currentCmd' = Idle
       ELSE UNCHANGED <<pins, currentCmd, ready, acceptTimer, processed>>
    /\ UNCHANGED <<strayTimers, checkTimer, received, incoming, silence>>

(* _on_check_comms *)
OnCheckComms ==
    /\ pending["check"] # <<>>
    /\ pending["traffic"] = <<>>
    /\ pending' = Popped("check")
    /\ IF ~received
       THEN Process(Idle) /\ currentCmd' = Idle
       ELSE UNCHANGED <<pins, currentCmd, ready, acceptTimer, processed>>
    /\ received' = FALSE
    /\ UNCHANGED <<strayTimers, checkTimer, incoming, silence>>

(* Mutant: the instance is reset and the flag is not *)
OnAcceptNotReady ==
    /\ pending["accept"] # <<>>
    /\ pending["traffic"] = <<>>
    /\ pending' = Popped("accept")
    /\ strayTimers' = strayTimers \cup ({acceptTimer} \ {0})
    /\ acceptTimer' = 0
    /\ UNCHANGED <<pins, currentCmd, ready, checkTimer, received, incoming, ages>>

(* _on_accept_command_again: the variable forgets the instance it names,   *)
(* armed or not                                                            *)
OnAcceptCommandAgain ==
    /\ pending["accept"] # <<>>
    /\ pending["traffic"] = <<>>
    /\ pending' = Popped("accept")
    /\ ready' = TRUE
    /\ strayTimers' = strayTimers \cup ({acceptTimer} \ {0})
    /\ acceptTimer' = 0
    /\ UNCHANGED <<pins, currentCmd, checkTimer, received, incoming, ages>>

(* The interrupt of the i2c notifies protocol_handle_traffic, whose queue  *)
(* keeps the last byte.                                                    *)
Receive(byte) ==
    /\ pending' = Notifying("traffic", byte)
    /\ incoming' = byte
    /\ UNCHANGED <<pins, currentCmd, ready, acceptTimer, strayTimers, checkTimer,
                   received, ages>>

(* Half a second, at the end of which the timers that reach zero notify.   *)
Pass ==
    /\ Quiet
    /\ acceptTimer' = IF acceptTimer = 0 THEN 0 ELSE acceptTimer - 1
    /\ strayTimers' = {t - 1 : t \in strayTimers \ {1}}
    /\ checkTimer' = IF checkTimer = 1 THEN Check ELSE checkTimer - 1
    /\ pending' = [h \in Handlers |->
          IF \/ h = "accept" /\ (acceptTimer = 1 \/ 1 \in strayTimers)
             \/ h = "check" /\ checkTimer = 1
          THEN <<NoArgument>> ELSE pending[h]]
    /\ processed' = Older(processed)
    /\ silence' = Older(silence)
    /\ UNCHANGED <<pins, currentCmd, ready, received, incoming>>

Handle == HandleTraffic \/ OnCheckComms \/ OnAcceptCommandAgain

HubNext ==
    \/ \E byte \in Commands \cup {Garbage} : Receive(byte)
    \/ Handle
    \/ Pass

HubSpec == HubInit /\ [][HubNext]_hubVars

(* The handlers of lower priority are called and time passes, because ten  *)
(* commands a second leave the processor idle most of the time; and the    *)
(* controller keeps sending its command.                                   *)
HubFairSpec ==
    /\ HubSpec
    /\ WF_hubVars(HandleTraffic)
    /\ SF_hubVars(OnCheckComms)
    /\ SF_hubVars(OnAcceptCommandAgain)
    /\ SF_hubVars(Pass)
    /\ WF_hubVars(Receive(incoming))

-----------------------------------------------------------------------------
(* Every variable keeps its range. *)
HubTypeOK ==
    /\ pins \in SUBSET Valves
    /\ currentCmd \in Commands
    /\ ready \in BOOLEAN
    /\ acceptTimer \in 0..Grace
    /\ strayTimers \in SUBSET (1..Grace)
    /\ checkTimer \in Nat \ {0}
    /\ received \in BOOLEAN
    /\ pending \in [Handlers -> Seq(Commands \cup {Garbage, NoArgument})]
    /\ incoming \in Commands \cup {Garbage}
    /\ processed \in 0..MaxAge
    /\ silence \in 0..MaxAge

(* The valves are those of the current command, and so at most one is on:  *)
(* neither a command nor a failed check leaves one of the others on.       *)
ValvesMatchCommand == pins = {ValveOf[c] : c \in {currentCmd} \cap DOMAIN ValveOf}

(* protocol.c:56, "to avoid fast switching of the valves": the valves stay *)
(* as they are during a grace period, although a failed check turns them   *)
(* off without asking, and a timer may have expired when it is cancelled.  *)
NoFastSwitching == [][pins' # pins => processed >= Grace]_hubVars

(* The valves are off when no valid command came in for the first check    *)
(* and one period, whatever else comes in.                                 *)
FailSafe == Quiet /\ silence >= FirstCheck + Check => pins = {}

(* A controller that at last asks for one command, and never stays silent  *)
(* for the period of the check, gets it, although a command that comes     *)
(* during a grace period is dropped.                                       *)
EventuallyApplied ==
    \A c \in Commands :
        <>[](incoming = c /\ silence < Check) => <>[](currentCmd = c)
=============================================================================
