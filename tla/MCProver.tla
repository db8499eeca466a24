------------------------------ MODULE MCProver ------------------------------
(* Instances of Prover for TLC: every constant is given in a cfg.          *)
EXTENDS Prover

=============================================================================
