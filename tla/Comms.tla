-------------------------------- MODULE Comms --------------------------------
(***************************************************************************)
(* The link between the boards as the controller supervises it: the frames *)
(* of i2c.c and twim.c on one side, twis.c and i2c_slave.c on the other,   *)
(* the op-codes, and in main.cpp the periodic transmission, the count of   *)
(* errors and the fail safe, in a release build (NDEBUG).                  *)
(*                                                                         *)
(* A frame is the command's byte to the hub, then the reply's byte back.   *)
(* A byte is the set of the positions of its 1 bits.  One thing may go     *)
(* wrong in a frame: a bit is flipped on the wire, or the hub stops or     *)
(* restarts.  A byte may also not be acknowledged, and the bus may hang.   *)
(* Timers are not timed: an armed one may expire at any time.              *)
(***************************************************************************)
EXTENDS Integers, QueueOps, FiniteSetsExt

CONSTANTS
    Wanted,     \* the commands the controller may want
    Limit       \* COMMS_TOO_MANY_ERRORS

VARIABLES
    command,        \* current_command
    lastSent,       \* last_sent in i2c.c
    bus,            \* the frame: idle, its command or its reply is next
    sendData,       \* slave.sendData[0] of the hub
    pressure,       \* the filtered pressure input of the hub
    hubUp,          \* the hub runs
    pending,        \* what the queues of the handlers hold
    transmitTimer,  \* the timer of the next transmission is armed
    graceTimer,     \* the timer of the grace period is armed
    errorCount,     \* comms_error_count
    inGracePeriod,  \* comms_in_error_grace_period_active
    stopTransmit,   \* stop_transmit
    chuckReleased,  \* the pin OC_CHUCK_RELEASED
    delivered,      \* the byte the hub received in this frame, and
    answered        \* the pressure it answered with

controller == <<command, lastSent, transmitTimer, graceTimer, errorCount,
                inGracePeriod, stopTransmit, chuckReleased>>
hub == <<sendData, pressure, hubUp, delivered, answered>>
vars == <<controller, hub, bus, pending>>

-----------------------------------------------------------------------------
(* Mutant: the values of the comments *)
OpCodeOfComments ==
    [idle |-> {0, 1, 2, 3, 6}, push_door |-> {0, 4, 5, 6}, pull_door |-> {0, 3},
     blast_toolsetter |-> {0, 2, 4, 5, 6}, blast_spindle |-> {3, 6},
     unclamp_chuck |-> {1, 2, 7}, reserved0 |-> {0, 3, 6, 7},
     reserved1 |-> {4, 5, 7}]

(* opcodes_cmd_t *)
OpCode ==
    [idle |-> {0, 1, 2, 3, 6}, push_door |-> {0, 4, 5, 6}, pull_door |-> {1, 3},
     blast_toolsetter |-> {1, 3, 4, 5, 6}, blast_spindle |-> {3, 6},
     unclamp_chuck |-> {1, 2, 7}, reserved0 |-> {0, 3, 6, 7},
     reserved1 |-> {4, 5, 7}]
Commands == DOMAIN OpCode
Byte == SUBSET (0..7)

ASSUME CommsAssumption == Wanted \subseteq Commands /\ Limit \in 1..255

(* opcodes_check_cmd_valid *)
IsCommand(byte) == \E c \in Commands : OpCode[c] = byte

OnMask == {0, 2, 5, 7}
OffMask == {1, 3, 4, 6}

(* opcodes_encode_reply: the bits of the mask are complemented *)
EncodeReply(on, byte) == SymDiff(byte, IF on THEN OnMask ELSE OffMask)

(* Mutant: what is not on is off *)
DecodeReplyLoosely(cmd, byte) ==
    IF byte = SymDiff(OpCode[cmd], OnMask) THEN "on" ELSE "off"

(* opcodes_decode_reply *)
DecodeReply(cmd, byte) ==
    IF byte = SymDiff(OpCode[cmd], OnMask) THEN "on"
    ELSE IF byte = SymDiff(OpCode[cmd], OffMask) THEN "off"
    ELSE "error"

(* what becomes of a byte on the wire *)
Flipped(byte) == {SymDiff(byte, {bit}) : bit \in 0..7}

-----------------------------------------------------------------------------
(* The handlers that take part.  Timers and interrupts notify them; the    *)
(* reactor calls one when none of a higher priority is pending.            *)
Priority == [i2c_command |-> 130, i2c_read |-> 130, i2c_error |-> 80,
             comms_grace_over |-> 30]
Handlers == DOMAIN Priority
QueueSize == [h \in Handlers |-> IF h = "i2c_command" THEN 2 ELSE 1]

Notified(h, arg) == [pending EXCEPT ![h] = PushedRing(@, arg, QueueSize[h])]
Popped(h) == [pending EXCEPT ![h] = Tail(@)]
NoneAbove(prio) == \A g \in Handlers : Priority[g] > prio => pending[g] = <<>>
Called(h) == pending[h] # <<>> /\ NoneAbove(Priority[h])

(* main calls reactor_run *)
Init ==
    /\ command = "idle"
    /\ lastSent = "idle"
    /\ bus = "idle"
    /\ sendData = {}
    /\ pressure \in BOOLEAN
    /\ hubUp \in BOOLEAN
    /\ pending = [h \in Handlers |-> <<>>]
    /\ transmitTimer = TRUE
    /\ graceTimer = TRUE
    /\ errorCount = 0
    /\ inGracePeriod = TRUE
    /\ stopTransmit = FALSE
    /\ chuckReleased = FALSE
    /\ delivered = {}
    /\ answered = FALSE

-----------------------------------------------------------------------------
(* the controller *)

(* on_i2c_error: errors count twice, but not in the grace period *)
CountError ==
    /\ errorCount' = IF inGracePeriod THEN errorCount ELSE (errorCount + 2) % 256
    /\ IF errorCount' >= Limit
       THEN chuckReleased' = FALSE /\ stopTransmit' = TRUE
       ELSE UNCHANGED <<chuckReleased, stopTransmit>>

OnError ==
    /\ Called("i2c_error")
    /\ pending' = Popped("i2c_error")
    /\ CountError
    /\ UNCHANGED <<command, lastSent, transmitTimer, graceTimer, inGracePeriod,
                   hub, bus>>

(* Mutant: the pin is turned on only *)
OnReadLatches ==
    /\ Called("i2c_read")
    /\ pending' = Popped("i2c_read")
    /\ errorCount' = IF errorCount > 0 THEN errorCount - 1 ELSE 0
    /\ chuckReleased' = (chuckReleased \/ Head(pending["i2c_read"]))
    /\ UNCHANGED <<command, lastSent, transmitTimer, graceTimer, inGracePeriod,
                   stopTransmit, hub, bus>>

(* on_i2c_read *)
OnRead ==
    /\ Called("i2c_read")
    /\ pending' = Popped("i2c_read")
    /\ errorCount' = IF errorCount > 0 THEN errorCount - 1 ELSE 0
    /\ chuckReleased' = Head(pending["i2c_read"])
    /\ UNCHANGED <<command, lastSent, transmitTimer, graceTimer, inGracePeriod,
                   stopTransmit, hub, bus>>

OnGraceOver ==
    /\ Called("comms_grace_over")
    /\ pending' = Popped("comms_grace_over")
    /\ inGracePeriod' = FALSE
    /\ UNCHANGED <<command, lastSent, transmitTimer, graceTimer, errorCount,
                   stopTransmit, chuckReleased, hub, bus>>

(* Mutant: the transmission goes on after too many errors *)
OnSendForEver ==
    /\ Called("i2c_command")
    /\ pending' = Popped("i2c_command")
    /\ transmitTimer' = TRUE
    /\ \/ /\ bus # "idle"
          /\ CountError
          /\ UNCHANGED <<lastSent, bus>>
       \/ /\ bus = "idle"
          /\ lastSent' = command
          /\ bus' = "command"
          /\ UNCHANGED <<errorCount, chuckReleased, stopTransmit>>
    /\ UNCHANGED <<command, graceTimer, inGracePeriod, hub>>

(* Mutant: a busy bus ends the chain of transmissions *)
OnSendOnce ==
    /\ Called("i2c_command")
    /\ pending' = Popped("i2c_command")
    /\ \/ /\ stopTransmit
          /\ UNCHANGED <<controller, bus>>
       \/ /\ ~stopTransmit
          /\ bus # "idle"
          /\ CountError
          /\ UNCHANGED <<command, lastSent, transmitTimer, graceTimer,
                         inGracePeriod, bus>>
       \/ /\ ~stopTransmit
          /\ bus = "idle"
          /\ lastSent' = command
          /\ bus' = "command"
          /\ transmitTimer' = TRUE
          /\ UNCHANGED <<command, graceTimer, errorCount, inGracePeriod,
                         stopTransmit, chuckReleased>>
    /\ UNCHANGED hub

(* on_send_i2c_command, i2c_master_send *)
OnSend ==
    /\ Called("i2c_command")
    /\ pending' = Popped("i2c_command")
    /\ \/ /\ stopTransmit
          /\ UNCHANGED <<controller, bus>>
       \/ /\ ~stopTransmit
          /\ bus # "idle"
          /\ CountError
          /\ transmitTimer' = TRUE
          /\ UNCHANGED <<command, lastSent, graceTimer, inGracePeriod, bus>>
       \/ /\ ~stopTransmit
          /\ bus = "idle"
          /\ lastSent' = command
          /\ bus' = "command"
          /\ transmitTimer' = TRUE
          /\ UNCHANGED <<command, graceTimer, errorCount, inGracePeriod,
                         stopTransmit, chuckReleased>>
    /\ UNCHANGED hub

(* refresh_opcode, by the handlers of inputs, door and timeouts: all have  *)
(* a priority lower than the transmission.                                 *)
ChangeCommand(cmd) ==
    /\ NoneAbove(80)
    /\ cmd # command
    /\ command' = cmd
    /\ transmitTimer' = TRUE
    /\ UNCHANGED <<lastSent, graceTimer, errorCount, inGracePeriod,
                   stopTransmit, chuckReleased, hub, bus, pending>>

ExpireTransmit ==
    /\ transmitTimer
    /\ transmitTimer' = FALSE
    /\ pending' = Notified("i2c_command", FALSE)
    /\ UNCHANGED <<command, lastSent, graceTimer, errorCount, inGracePeriod,
                   stopTransmit, chuckReleased, hub, bus>>

ExpireGrace ==
    /\ graceTimer
    /\ graceTimer' = FALSE
    /\ pending' = Notified("comms_grace_over", FALSE)
    /\ UNCHANGED <<command, lastSent, transmitTimer, errorCount, inGracePeriod,
                   stopTransmit, chuckReleased, hub, bus>>

-----------------------------------------------------------------------------
(* the frame *)

(* twis.c, slave_process: the reply is ready before the byte is            *)
(* acknowledged                                                            *)
HubReceives(byte) ==
    /\ bus = "command"
    /\ hubUp
    /\ bus' = "reply"
    /\ delivered' = byte
    /\ answered' = pressure
    /\ sendData' = EncodeReply(pressure, byte)
    /\ UNCHANGED <<controller, pressure, hubUp, pending>>

(* When the frame is over nothing reads what the hub kept of it.           *)
FrameEnds ==
    /\ bus' = "idle"
    /\ sendData' = {}
    /\ delivered' = {}
    /\ answered' = FALSE
    /\ UNCHANGED <<controller, pressure, hubUp>>

(* _i2c_on_complete, with a byte read *)
MasterReads(byte) ==
    /\ bus = "reply"
    /\ LET reply == DecodeReply(lastSent, byte)
       IN  pending' = IF reply = "error" THEN Notified("i2c_error", FALSE)
                      ELSE Notified("i2c_read", reply = "on")
    /\ FrameEnds

(* _i2c_on_complete, after a missing acknowledge or a bus error *)
Fault ==
    /\ bus # "idle"
    /\ pending' = Notified("i2c_error", FALSE)
    /\ FrameEnds

(* The byte the master sees: nobody drives the lines of a hub that stopped *)
Driven == IF hubUp THEN sendData ELSE 0..7

(* nothing went wrong in this frame so far *)
Undisturbed ==
    delivered = OpCode[lastSent] /\ Driven = EncodeReply(answered, delivered)

Transfer ==
    \/ \E byte \in {OpCode[lastSent]} \cup Flipped(OpCode[lastSent]) :
          HubReceives(byte)
    \/ MasterReads(Driven)
    \/ /\ Undisturbed
       /\ \E byte \in Flipped(Driven) : MasterReads(byte)
    \/ Fault

(* the hub *)
PressureChanges ==
    /\ hubUp
    /\ pressure' = ~pressure
    /\ UNCHANGED <<controller, sendData, hubUp, delivered, answered, bus, pending>>

HubFails ==
    /\ hubUp
    /\ hubUp' = FALSE
    /\ UNCHANGED <<controller, sendData, pressure, delivered, answered, bus, pending>>

(* After a reset the buffer is zero, and the filter of the pressure input  *)
(* says off until it has samples.                                          *)
HubStarts ==
    /\ ~hubUp
    /\ hubUp' = TRUE
    /\ sendData' = {}
    /\ pressure' = FALSE
    /\ UNCHANGED <<controller, delivered, answered, bus, pending>>

Handle == OnSend \/ OnRead \/ OnError \/ OnGraceOver

Next ==
    \/ Handle
    \/ ExpireTransmit \/ ExpireGrace
    \/ \E cmd \in Wanted : ChangeCommand(cmd)
    \/ Transfer
    \/ PressureChanges \/ HubFails \/ HubStarts

Spec == Init /\ [][Next]_vars

(* Timers expire and pending handlers are called, those of low priority    *)
(* too, since a transmission takes 300 us of every 100 ms.  Nothing is     *)
(* assumed of the bus or the hub.                                          *)
FairSpec ==
    /\ Spec
    /\ WF_vars(ExpireTransmit) /\ WF_vars(ExpireGrace)
    /\ WF_vars(OnSend) /\ WF_vars(OnRead)
    /\ SF_vars(OnError) /\ SF_vars(OnGraceOver)

-----------------------------------------------------------------------------
(* Every variable keeps its range, and every queue its size.  The count of *)
(* errors, a byte that goes up by two with the errors still on their way   *)
(* when the transmission stops, stays close to its limit and never wraps.  *)
TypeOK ==
    /\ command \in Wanted \cup {"idle"}
    /\ lastSent \in Wanted \cup {"idle"}
    /\ bus \in {"idle", "command", "reply"}
    /\ sendData \in Byte
    /\ pressure \in BOOLEAN
    /\ hubUp \in BOOLEAN
    /\ pending \in [Handlers -> Seq(BOOLEAN)]
    /\ \A h \in Handlers : Len(pending[h]) <= QueueSize[h]
    /\ transmitTimer \in BOOLEAN
    /\ graceTimer \in BOOLEAN
    /\ errorCount \in 0..(Limit + 5)
    /\ inGracePeriod \in BOOLEAN
    /\ stopTransmit \in BOOLEAN
    /\ chuckReleased \in BOOLEAN
    /\ delivered \in Byte
    /\ answered \in BOOLEAN

(* op_codes.h: a reply the controller accepts says that the hub received   *)
(* the command that was sent, and carries the pressure it had then,        *)
(* whatever bit was flipped on the way and whenever the hub restarted.     *)
ReplyMatchesCommand ==
    [][/\ bus = "reply" /\ bus' = "idle"
       /\ \/ pending'["i2c_error"] = <<>>
          \/ pending'["i2c_read"] # pending["i2c_read"]
       =>
          /\ delivered = OpCode[lastSent]
          /\ pending'["i2c_read"] = <<answered>>]_vars

(* op_codes.h:21, "using the highest hamming distance": the hub never      *)
(* takes a command that was not sent for a valid one.                      *)
NoWrongCommand ==
    bus = "reply" /\ IsCommand(delivered) => delivered = OpCode[lastSent]

(* main.cpp:321-322, "The system will stop if the slave fails to answer or *)
(* if too many consecutive errors are detected": when at last no reply is  *)
(* accepted, because the hub is off, the bus hangs or every frame fails,   *)
(* the transmission ends.                                                  *)
DeadLinkStops == <>[](pending["i2c_read"] = <<>>) => <>stopTransmit

(* main.cpp:375: the pin that reports the pressure follows the hub's       *)
(* input, as long as replies are accepted.                                 *)
PressureFollows ==
    \A p \in BOOLEAN :
        <>[](pressure = p /\ hubUp) /\ []<>(pending["i2c_read"] # <<>>)
            => <>[](chuckReleased = p)

(* main.cpp:341, "Turn off the pressure input as a fail safe": after too   *)
(* many errors the pin stays off.                                          *)
StoppedIsSafe == stopTransmit => ~chuckReleased
=============================================================================
