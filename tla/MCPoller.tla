------------------------------- MODULE MCPoller -------------------------------
(***************************************************************************)
(* Poller on a small clock, with the inductive invariant of its proofs in   *)
(* sight of TLC. The configurations keep the order of the code's constants: *)
(* the refresh floor is shorter than the cadence, the cadence than           *)
(* DegradedInterval, and that than MaxBackoff. A request may take as long as *)
(* the floor, which only the reading of credentials can make it do.          *)
(***************************************************************************)
EXTENDS PollerProofs

===============================================================================
