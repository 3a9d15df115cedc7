------------------------------ MODULE DirectInput ------------------------------
(***************************************************************************)
(* The direct inputs of asx/src/digital_input.c: the interrupt of a port   *)
(* turns off the pins that caused it and leaves them to a handler, which   *)
(* tells the program and acknowledges the pin, at once or, with a filter,  *)
(* when a timer expires.                                                   *)
(*                                                                         *)
(* The pins are those of one port.  _clear_interrupt opens with sei and    *)
(* closes with cli: the mask is read and written back with the interrupts  *)
(* on, in two steps here.  The value sent along is left out; the code      *)
(* sends whether any pin of the port is high.                              *)
(***************************************************************************)
EXTENDS Integers, QueueOps

CONSTANTS
    Pins,       \* the chain that starts at _first_direct
    Filtered    \* those of them with a filter

ASSUME DirectAssumption == Pins \subseteq 0..7 /\ Filtered \subseteq Pins

VARIABLES
    intFlags,   \* INTFLAGS of the port
    sensed,     \* the pins whose sense mode is on
    isrMask,    \* _isr_bit_mask
    inIsr,      \* the interrupt is between its loop and the reset of the flags
    changed,    \* the queue of _react_direct_handler
    ackTimers,  \* the pins whose timer of the filter is armed
    acks,       \* the queue of _react_ack_it
    clearing    \* _clear_interrupt's pin, and the mask as it was read

directVars == <<intFlags, sensed, isrMask, inIsr, changed, ackTimers, acks, clearing>>

(* digital_input, for each pin, then digital_input_init *)
DirectInit ==
    /\ intFlags = {}
    /\ sensed = Pins
    /\ isrMask = {}
    /\ inIsr = FALSE
    /\ changed = <<>>
    /\ ackTimers = {}
    /\ acks = <<>>
    /\ clearing = <<>>

(* the pin changes: the port sets its flag, during the interrupt too *)
Edge(p) ==
    /\ p \in sensed
    /\ p \notin intFlags
    /\ intFlags' = intFlags \cup {p}
    /\ UNCHANGED <<sensed, isrMask, inIsr, changed, ackTimers, acks, clearing>>

(* the pins that caused the interrupt and are not being processed *)
Causes == intFlags \ isrMask

(* They notify in the order of the bits, and the queue of one keeps the    *)
(* last.                                                                   *)
LastOf(pins, q) ==
    IF pins = {} THEN q
    ELSE PushedRing(q, CHOOSE p \in pins : \A r \in pins : r <= p, 1)

(* Mutant: the pins go on causing interrupts *)
PinChangeIsrSensing ==
    /\ ~inIsr
    /\ intFlags # {}
    /\ inIsr' = TRUE
    /\ isrMask' = isrMask \cup Causes
    /\ changed' = LastOf(Causes, changed)
    /\ UNCHANGED <<intFlags, sensed, ackTimers, acks, clearing>>

(* _handle_pin_change_isr *)
PinChangeIsr ==
    /\ ~inIsr
    /\ intFlags # {}
    /\ inIsr' = TRUE
    /\ isrMask' = isrMask \cup Causes
    /\ sensed' = sensed \ Causes
    /\ changed' = LastOf(Causes, changed)
    /\ UNCHANGED <<intFlags, ackTimers, acks, clearing>>

(* the interrupt resets all the flags that are set by now *)
IsrReturn ==
    /\ inIsr
    /\ inIsr' = FALSE
    /\ intFlags' = {}
    /\ UNCHANGED <<sensed, isrMask, changed, ackTimers, acks, clearing>>

(* the reactor runs: no interrupt, no handler on its way *)
BetweenCalls == ~inIsr /\ clearing = <<>>

(* Mutant: a pin without a filter is not acknowledged *)
DirectHandlerFilterOnly ==
    /\ BetweenCalls
    /\ changed # <<>>
    /\ changed' = Tail(changed)
    /\ ackTimers' = ackTimers \cup ({Head(changed)} \cap Filtered)
    /\ UNCHANGED <<intFlags, sensed, isrMask, inIsr, acks, clearing>>

(* _digital_input_direct_handler: a pin without a filter goes on to        *)
(* _clear_interrupt, which reads the mask.                                 *)
DirectHandler ==
    /\ BetweenCalls
    /\ changed # <<>>
    /\ changed' = Tail(changed)
    /\ LET pin == Head(changed)
       IN  IF pin \in Filtered
           THEN /\ ackTimers' = ackTimers \cup {pin}
                /\ UNCHANGED clearing
           ELSE /\ clearing' = <<[pin |-> pin, mask |-> isrMask]>>
                /\ UNCHANGED ackTimers
    /\ UNCHANGED <<intFlags, sensed, isrMask, inIsr, acks>>

(* timer_dispatch *)
FilterExpires(p) ==
    /\ BetweenCalls
    /\ p \in ackTimers
    /\ ackTimers' = ackTimers \ {p}
    /\ acks' = PushedRing(acks, p, 1)
    /\ UNCHANGED <<intFlags, sensed, isrMask, inIsr, changed, clearing>>

(* _clear_interrupt, called by the reactor, reads the mask *)
AckHandler ==
    /\ BetweenCalls
    /\ acks # <<>>
    /\ acks' = Tail(acks)
    /\ clearing' = <<[pin |-> Head(acks), mask |-> isrMask]>>
    /\ UNCHANGED <<intFlags, sensed, isrMask, inIsr, changed, ackTimers>>

(* _clear_interrupt writes the mask back and turns the pin on again *)
ClearInterrupt ==
    /\ ~inIsr
    /\ clearing # <<>>
    /\ clearing' = <<>>
    /\ LET c == Head(clearing)
       IN  /\ isrMask' = c.mask \ {c.pin}
           /\ sensed' = sensed \cup {c.pin}
    /\ UNCHANGED <<intFlags, inIsr, changed, ackTimers, acks>>

DirectNext ==
    \/ \E p \in Pins : Edge(p) \/ FilterExpires(p)
    \/ PinChangeIsr \/ IsrReturn
    \/ DirectHandler \/ AckHandler \/ ClearInterrupt

DirectSpec == DirectInit /\ [][DirectNext]_directVars

(* Interrupts come and return, timers expire and handlers are called. *)
DirectFairness ==
    /\ WF_directVars(PinChangeIsr) /\ WF_directVars(IsrReturn)
    /\ WF_directVars(DirectHandler) /\ WF_directVars(AckHandler)
    /\ WF_directVars(ClearInterrupt)
    /\ \A p \in Pins : WF_directVars(FilterExpires(p))

-----------------------------------------------------------------------------
(* The changes that were not acknowledged yet. *)
OnTheirWay ==
    Range(changed) \cup ackTimers \cup Range(acks) \cup {c.pin : c \in Range(clearing)}

(* digital_input.c:71, "Mask of bits which are being processed": a pin     *)
(* does not notify again before its last change was acknowledged, although *)
(* an interrupt that comes while another pin is acknowledged loses its bit *)
(* in the mask.                                                            *)
OncePerAck ==
    [][PinChangeIsr => Causes \cap OnTheirWay = {}]_directVars

(* A pin that was turned off by its interrupt is sensed again, as long as  *)
(* it is the only one to change: of two that change together one stays off *)
(* for ever, since the queues of the handlers keep one pin.                *)
LonePinSensed ==
    \A p \in Pins : [](isrMask \subseteq {p}) => []<>(p \in sensed)
=============================================================================
