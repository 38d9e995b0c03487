------------------------------ MODULE MCReplay ------------------------------
(***************************************************************************)
(* Small instances of ReplayExport, with the processes and requests of     *)
(* MCDurable and the session s1 exported.                                  *)
(***************************************************************************)
EXTENDS MCDurable, ReplayExport
=============================================================================
