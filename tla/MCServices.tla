------------------------------ MODULE MCServices ------------------------------
(***************************************************************************)
(* TLC instance of the parts that need a small one only: the queue, the    *)
(* inputs, the outputs, the sounds and the memory of asx, and the hub's    *)
(* protocol: two commands with a valve, idle, and one that is valid and    *)
(* has none, with the periods of the code in half seconds.  They share no  *)
(* state: a behaviour is one of the part that part names, and the others   *)
(* keep their initial state.                                               *)
(***************************************************************************)
EXTENDS Queue, DigitalInput, DirectInput, DigitalOutput, Piezzo, Memory, HubProtocol

CONSTANTS
    d1, d2, b4, c4,
    idle, pull_door, push_door, reserved0, pull_pin, push_pin

VARIABLE part

MCData == {d1, d2}

(* a flash, a blink, and one with a gap at its end *)
Blink(timed, repeat) ==
    [items |-> IF timed THEN <<"on", "off", "same">> ELSE <<"on", "off">>,
     timed |-> timed, repeat |-> repeat]
MCSequences == {Blink(FALSE, FALSE), Blink(FALSE, TRUE), Blink(TRUE, FALSE)}

(* the beep, and a tune with a slur and a rest at its end *)
Note(pitch, slur) == [pitch |-> pitch, slur |-> slur]
MCTunes == {<<Note(b4, FALSE)>>,
            <<Note(c4, TRUE), Note(c4, FALSE), Note(Off, FALSE)>>}

(* of the hub *)
MCCommands == {idle, pull_door, push_door, reserved0}
MCValves == {pull_pin, push_pin}
MCValveOf == pull_door :> pull_pin @@ push_door :> push_pin

servicesVars ==
    <<part, vars, inputVars, directVars, outputVars, soundVars, memoryVars,
      hubVars>>

ServicesInit ==
    /\ part \in {"queue", "input", "direct", "output", "sound", "memory", "hub"}
    /\ Init /\ InputInit /\ DirectInit /\ OutputInit /\ SoundInit /\ MemoryInit /\ HubInit

ServicesNext ==
    \/ /\ part = "queue" /\ Next
       /\ UNCHANGED <<part, inputVars, directVars, outputVars,
                      soundVars, memoryVars, hubVars>>
    \/ /\ part = "input" /\ InputNext
       /\ UNCHANGED <<part, vars, directVars, outputVars,
                      soundVars, memoryVars, hubVars>>
    \/ /\ part = "direct" /\ DirectNext
       /\ UNCHANGED <<part, vars, inputVars, outputVars,
                      soundVars, memoryVars, hubVars>>
    \/ /\ part = "output" /\ OutputNext
       /\ UNCHANGED <<part, vars, inputVars, directVars,
                      soundVars, memoryVars, hubVars>>
    \/ /\ part = "sound" /\ SoundNext
       /\ UNCHANGED <<part, vars, inputVars, directVars,
                      outputVars, memoryVars, hubVars>>
    \/ /\ part = "memory" /\ MemoryNext
       /\ UNCHANGED <<part, vars, inputVars, directVars,
                      outputVars, soundVars, hubVars>>
    \/ /\ part = "hub" /\ HubNext
       /\ UNCHANGED <<part, vars, inputVars, directVars,
                      outputVars, soundVars, memoryVars>>

(* The fairness of HubProtocol, in the behaviours that are the hub's: its  *)
(* initial state is one in which bytes may come and time may pass.         *)
HubFairness ==
    /\ WF_hubVars(part = "hub" /\ HandleTraffic)
    /\ SF_hubVars(part = "hub" /\ OnCheckComms)
    /\ SF_hubVars(part = "hub" /\ OnAcceptCommandAgain)
    /\ SF_hubVars(part = "hub" /\ Pass)
    /\ WF_hubVars(part = "hub" /\ Receive(incoming))

(* Of the others, a part that part does not name has nothing fair to do in *)
(* its initial state.                                                      *)
ServicesSpec ==
    /\ ServicesInit
    /\ [][ServicesNext]_servicesVars
    /\ DirectFairness /\ OutputFairness /\ SoundFairness /\ HubFairness
=============================================================================
