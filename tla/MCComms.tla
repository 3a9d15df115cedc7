------------------------------- MODULE MCComms -------------------------------
(* TLC instance of Comms: the limit of errors is reached after a few. *)
EXTENDS Comms
=============================================================================
