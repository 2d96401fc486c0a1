---------------------------- MODULE MCVaultSync -----------------------------
(* TLC instances of VaultSync. *)
EXTENDS VaultSync, TLC

CONSTANTS mac, pc2, app, far, s1, s2, e1, k1

TwoMachines == {mac, pc2}
OneProcEach == {app, far}
HomeOneEach == (app :> mac) @@ (far :> pc2)
OneMachine == {mac}
OneProc == {app}
HomeOne == (app :> mac)
=============================================================================
