-------------------------------- MODULE MCTray --------------------------------
(***************************************************************************)
(* Tray with the two providers of main.go, of which only the first has local *)
(* documents. Every source changes once before the loop, at each of its      *)
(* steps and after it; what it then says is one value, and ScreenCurrent     *)
(* holds for all of them.                                                    *)
(***************************************************************************)
EXTENDS TrayProofs

===============================================================================
