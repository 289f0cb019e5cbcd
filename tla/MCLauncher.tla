----------------------------- MODULE MCLauncher -----------------------------
(***************************************************************************)
(* Launcher for TLC.  Databases are interchangeable; slots and workers are *)
(* numbered and are not.                                                   *)
(***************************************************************************)
EXTENDS Launcher, TLC

DbSymmetry == Permutations(DBs)

\* No step of the launcher or a worker depends on inited or on the contents of
\* the slot's maps, so states that differ only there are explored once.
PoolView == <<dbid, workerId, inUse, due, poolVars, isDynamicWorker, catVars, lauVars, procVars>>
=============================================================================
