---------------------------- MODULE MCLifecycle ----------------------------
(***************************************************************************)
(* The lifecycle, its properties and its contract, for TLC.  The model     *)
(* values and bounds of each run are in its .cfg.                          *)
(***************************************************************************)
EXTENDS LifecycleContract
=============================================================================
