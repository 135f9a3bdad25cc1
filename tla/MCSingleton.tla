----------------------------- MODULE MCSingleton -----------------------------
(***************************************************************************)
(* Singleton with three starts: one runs, one is refused, and a third comes  *)
(* while either is on its way out.                                           *)
(***************************************************************************)
EXTENDS SingletonProofs

===============================================================================
