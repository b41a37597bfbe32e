---------------------------- MODULE MCSmtService ----------------------------
(* SmtService on small instances: each .cfg chooses the bounds and the      *)
(* faults of its run.                                                       *)
EXTENDS SmtService
=============================================================================
