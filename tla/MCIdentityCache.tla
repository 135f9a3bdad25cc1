---------------------------- MODULE MCIdentityCache ----------------------------
(***************************************************************************)
(* IdentityCache with one installation on this machine's file system and     *)
(* one inside WSL, and documents that say something or cannot be read.       *)
(***************************************************************************)
EXTENDS IdentityCache

CONSTANTS Home, Wsl

MCPaths == {Home, Wsl}
MCRemote == {Wsl}
MCVersions == {"someone", "unreadable"}
MCUnreadable == {"unreadable"}
MCFirstVersions == {"someone"}

===============================================================================
