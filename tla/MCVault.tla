------------------------------ MODULE MCVault -------------------------------
(* The desktop program, with its window and a worker thread, and omvault,   *)
(* over one file that may hold a default login.                             *)
EXTENDS Vault, TLC

CONSTANTS gui, shell, window, worker, omvault, oldPass, newPass, lab, LAB, core

SomeVaultOf == window :> gui @@ worker :> gui @@ omvault :> shell
FoldCase == lab :> lab @@ LAB :> lab @@ core :> core

Login(n, d) == [name |-> n, snmp |-> FALSE, def |-> d]
Community(n) == [name |-> n, snmp |-> TRUE, def |-> FALSE]

AnyMaster == Permutations(Masters)

SomeInputs == {Login(core, TRUE), Login(LAB, FALSE), Community(LAB)}
SomeFiles == {1 :> For(1, Login(lab, TRUE))}
=============================================================================
