--------------------------------- MODULE Clock --------------------------------
(***************************************************************************)
(* The monotonic clock that every task reads (Instant::now), in steps of   *)
(* the smallest duration that matters.                                     *)
(***************************************************************************)
EXTENDS Naturals

CONSTANT MaxTime  \* bound: the clock

VARIABLE now

Advance == now < MaxTime /\ now' = now + 1

===============================================================================
