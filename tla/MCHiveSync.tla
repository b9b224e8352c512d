----------------------------- MODULE MCHiveSync -----------------------------
(***************************************************************************)
(* Small instances of HiveSync: who runs a sync of which device.           *)
(***************************************************************************)
EXTENDS HiveSync

CONSTANTS e1, a, b

OneSessionEach == [s \in Session |-> s]
=============================================================================
