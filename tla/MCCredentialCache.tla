--------------------------- MODULE MCCredentialCache ---------------------------
(***************************************************************************)
(* CredentialCache with one file on this machine and one inside WSL. A path  *)
(* may be configured or left to discovery.                                   *)
(***************************************************************************)
EXTENDS CredentialCache

CONSTANTS Home, Wsl

MCPaths == {Home, Wsl}
MCConfigured == {Wsl, NoPath}
MCNative == <<Home>>
MCDistros == <<Wsl>>

===============================================================================
