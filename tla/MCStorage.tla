------------------------------ MODULE MCStorage ------------------------------
(* Instances of Storage for TLC; all constants are given in the cfg files.  *)
EXTENDS Storage
=============================================================================
