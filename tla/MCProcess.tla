------------------------------ MODULE MCProcess ------------------------------
(* Instances of ProcessSupervision for TLC: the constants are in the .cfg files. *)
EXTENDS ProcessSupervision
=============================================================================
