------------------------------ MODULE MCConfig ------------------------------
(* Small instances of QuotaConfig for TLC. *)
EXTENDS QuotaConfig
=============================================================================
