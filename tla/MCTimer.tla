------------------------------- MODULE MCTimer -------------------------------
(***************************************************************************)
(* TLC instances of Timer.  In one the list fills up and the counter does  *)
(* not wrap: the case the theorems of TimerProofs assume.  In the other    *)
(* the counter wraps.  The delays make ties, past deadlines and            *)
(* overtaking, and the active slot goes round the list.                    *)
(***************************************************************************)
EXTENDS Timer

CONSTANT a1

MCArgs == {a1}
=============================================================================
