---------------------------- MODULE MCSairiShell ----------------------------
(***************************************************************************)
(* Small instances of SairiShell: the bounds are in the configurations.    *)
(***************************************************************************)
EXTENDS SairiShell
=============================================================================
