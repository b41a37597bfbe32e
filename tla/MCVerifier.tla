----------------------------- MODULE MCVerifier -----------------------------
(* Verifier on small instances. *)
EXTENDS Verifier
=============================================================================
