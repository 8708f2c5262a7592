----------------------------- MODULE ServiceClock -----------------------------
(***************************************************************************)
(* The clock the caches of the data services read with Date.now(), in      *)
(* steps as long as the shortest of their times to live.                   *)
(***************************************************************************)
EXTENDS Naturals

CONSTANT MaxTime    \* bound of the exploration

ASSUME ClockAssumption == MaxTime \in Nat

VARIABLE now

ClockTicks == now < MaxTime /\ now' = now + 1
===============================================================================
