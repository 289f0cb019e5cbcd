---------------------------- MODULE MCMonitored ----------------------------
(* Small instances of MonitoredDB for TLC. *)
EXTENDS MonitoredDB
=============================================================================
