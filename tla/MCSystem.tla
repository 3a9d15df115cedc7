------------------------------- MODULE MCSystem -------------------------------
(***************************************************************************)
(* TLC instance of System: the two commands of the door, whose valves are  *)
(* opposed, and idle, with the periods of the code in seconds.             *)
(***************************************************************************)
EXTENDS System, TLC

CONSTANTS idle, pull_door, push_door, pull_pin, push_pin

MCCommands == {idle, pull_door, push_door}
MCValves == {pull_pin, push_pin}
MCValveOf == pull_door :> pull_pin @@ push_door :> push_pin
=============================================================================
