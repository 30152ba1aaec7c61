-------------------------- MODULE MCRepositoryLock --------------------------
(***************************************************************************)
(* Processes competing for one repository, for TLC: the model values and   *)
(* bounds are in the .cfg.                                                 *)
(***************************************************************************)
EXTENDS RepositoryLock
=============================================================================
