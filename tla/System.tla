-------------------------------- MODULE System --------------------------------
(***************************************************************************)
(* The two boards and the bus between them: the controller sends the       *)
(* command it wants again and again (main.cpp), a disturbance may lose or  *)
(* spoil a frame or restart either board, the controller may end the       *)
(* transmission, and the hub is that of HubProtocol, whose unit of time    *)
(* must divide its periods: seconds here.                                  *)
(*                                                                         *)
(* A frame is one step, as it takes 300 us.  In a unit in which the        *)
(* controller transmits at all, at least one frame is sent (ten are).      *)
(***************************************************************************)
EXTENDS HubProtocol

VARIABLES
    wanted,         \* current_command of the controller
    sending,        \* ~stop_transmit
    disturbed,      \* whether frames are lost and boards restart now
    sent,           \* a frame was sent since the last unit passed
    wishes,         \* the commands wanted since the last unit passed
    unwanted,       \* units since the hub's command was last wanted
    steady          \* ends of a unit, with frames sent and not disturbed,
                    \* since the controller wants its command

hub == <<pins, currentCmd, ready, acceptTimer, strayTimers, checkTimer,
         received, pending, incoming, processed, silence>>
controller == <<wanted, sending, sent, wishes>>
system == <<hub, controller, disturbed, unwanted, steady>>

SystemInit ==
    /\ HubInit
    /\ wanted = Idle
    /\ sending = TRUE
    /\ disturbed = TRUE
    /\ sent = FALSE
    /\ wishes = {Idle}
    /\ unwanted = 0
    /\ steady = 0

(* refresh_opcode, for any reason; the transmission it brings forward is   *)
(* one of those of the unit                                                *)
Wish(c) ==
    /\ wanted' = c
    /\ wishes' = wishes \cup {c}
    /\ unwanted' = IF c = currentCmd THEN 0 ELSE unwanted
    /\ steady' = IF c = wanted THEN steady ELSE 0
    /\ UNCHANGED <<hub, sending, sent, disturbed>>

(* on_send_i2c_command: the frame reaches the hub, or, disturbed, it is    *)
(* lost; so is one that is spoilt, as it is no command to the hub (Comms)  *)
Send ==
    /\ sending
    /\ sent' = TRUE
    /\ \/ Receive(wanted)
       \/ disturbed /\ UNCHANGED hub
    /\ UNCHANGED <<wanted, sending, wishes, disturbed, unwanted, steady>>

(* on_i2c_error at its limit: stop_transmit *)
StopTransmit ==
    /\ sending
    /\ disturbed
    /\ sending' = FALSE
    /\ UNCHANGED <<hub, wanted, sent, wishes, disturbed, unwanted, steady>>

(* the controller is reset by its watchdog, or turned off and on *)
ControllerRestart ==
    /\ disturbed
    /\ wanted' = Idle
    /\ sending' = TRUE
    /\ wishes' = wishes \cup {Idle}
    /\ unwanted' = IF currentCmd = Idle THEN 0 ELSE unwanted
    /\ UNCHANGED <<hub, sent, disturbed, steady>>

(* the hub is reset: the pins of an AVR are inputs, the valves close *)
HubRestart ==
    /\ disturbed
    /\ pins' = {}
    /\ currentCmd' = Idle
    /\ ready' = TRUE
    /\ acceptTimer' = 0
    /\ strayTimers' = {}
    /\ checkTimer' = FirstCheck
    /\ received' = FALSE
    /\ pending' = [h \in Handlers |-> <<>>]
    /\ incoming' = Garbage
    /\ processed' = MaxAge
    /\ silence' = 0
    /\ unwanted' = IF Idle \in wishes THEN 0 ELSE MaxAge
    /\ UNCHANGED <<controller, disturbed, steady>>

(* a step of the hub's handlers; a command that is applied was wanted just *)
(* now or it was not wanted for long                                       *)
HubHandles ==
    /\ Handle
    /\ unwanted' = IF currentCmd' = currentCmd THEN unwanted
                   ELSE IF currentCmd' \in wishes THEN 0 ELSE MaxAge
    /\ UNCHANGED <<controller, disturbed, steady>>

(* a unit passes *)
UnitPasses ==
    /\ sending => sent
    /\ Pass
    /\ sent' = FALSE
    /\ wishes' = {wanted}
    /\ unwanted' = IF wanted = currentCmd THEN 0 ELSE Older(unwanted)
    /\ steady' = IF sending /\ ~disturbed THEN Older(steady) ELSE 0
    /\ UNCHANGED <<wanted, sending, disturbed>>

(* from now on no frame is lost and no board restarts *)
Calm ==
    /\ disturbed
    /\ disturbed' = FALSE
    /\ UNCHANGED <<hub, controller, unwanted, steady>>

SystemNext ==
    \/ \E c \in Commands : Wish(c)
    \/ Send \/ StopTransmit \/ ControllerRestart
    \/ HubHandles \/ HubRestart
    \/ UnitPasses
    \/ Calm

SystemSpec == SystemInit /\ [][SystemNext]_system

(* The controller goes on sending, the hub's handlers are called and time  *)
(* passes: the processors are idle most of a unit.                         *)
SystemFairSpec ==
    /\ SystemSpec
    /\ WF_system(Send)
    /\ WF_system(HubHandles)
    /\ SF_system(HubHandles /\ pending["check"] # <<>> /\ pending["check"]' = <<>>)
    /\ SF_system(HubHandles /\ pending["accept"] # <<>> /\ pending["accept"]' = <<>>)
    /\ SF_system(UnitPasses)

-----------------------------------------------------------------------------
(* Every variable keeps its range; a command that is wanted is a wish.     *)
SystemTypeOK ==
    /\ HubTypeOK
    /\ wanted \in Commands
    /\ sending \in BOOLEAN
    /\ disturbed \in BOOLEAN
    /\ sent \in BOOLEAN
    /\ wishes \in SUBSET Commands
    /\ wanted \in wishes
    /\ unwanted \in 0..MaxAge
    /\ steady \in 0..MaxAge

(* No valve stays on for long after the controller last wanted it, though  *)
(* frames are lost or spoilt, the hub drops commands in a grace period,    *)
(* and the controller stops or restarts: a valve that is on was wanted     *)
(* within the first check and one period.                                  *)
ValveNotOutlivesWish ==
    Quiet /\ unwanted >= FirstCheck + Check => pins = {}

(* What WishApplied promises takes no longer than the grace period and     *)
(* three units: a command that was wanted at as many ends of a unit,       *)
(* undisturbed, is the hub's, although it is dropped in a grace period,    *)
(* and a check that finds no frame begins another.                         *)
AppliedInTime == steady >= Grace + 3 => currentCmd = wanted

(* A command the controller at last wants for good is applied for good,    *)
(* once the disturbances are over: no wish is lost in a grace period and   *)
(* no check turns the valve off again.                                     *)
WishApplied ==
    \A c \in Commands :
        <>[](wanted = c /\ sending /\ ~disturbed) => <>[](currentCmd = c)
=============================================================================
