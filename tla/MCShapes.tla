------------------------------ MODULE MCShapes ------------------------------
(* Two threads that set two names, on objects whose slots start at one, so *)
(* that a second name makes them grow.                                     *)
EXTENDS ShapeTree, TLC

CONSTANTS t1, t2

MCThread == {t1, t2}
MCKeyCells == t1 :> 2 @@ t2 :> 1
=============================================================================
