----------------------------- MODULE MCController -----------------------------
(***************************************************************************)
(* TLC instances of Controller.  Each takes the inputs its question is     *)
(* about: the door and one more output compete for the command, the three  *)
(* outputs for a queue.                                                    *)
(***************************************************************************)
EXTENDS Controller
=============================================================================
