----------------------------- MODULE MCInstaller -----------------------------
(***************************************************************************)
(* Small instances of HookInstaller: one hook event stands for all events  *)
(* of a platform.                                                          *)
(***************************************************************************)
EXTENDS HookInstaller

MCAllDamages == {"config", "runner", "modes"}
=============================================================================
