----------------------------- MODULE MCReject -----------------------------
(* Small instances of RejectMap for TLC. *)
EXTENDS RejectMap
=============================================================================
