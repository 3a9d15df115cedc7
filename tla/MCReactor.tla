------------------------------ MODULE MCReactor ------------------------------
(***************************************************************************)
(* TLC instances of Reactor.  Queues of one and two elements make a        *)
(* notification overwrite another or wait behind it; two priorities give   *)
(* ties and a sorted order that differs from the order of registration.    *)
(***************************************************************************)
EXTENDS Reactor

CONSTANT d1

MCData == {d1}
=============================================================================
