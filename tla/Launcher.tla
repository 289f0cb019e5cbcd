------------------------------ MODULE Launcher ------------------------------
(***************************************************************************)
(* The diskquota launcher, the array of monitored databases, the pool of   *)
(* worker entries and the worker processes (src/src/diskquota.c).          *)
(*                                                                         *)
(* One launcher process schedules the monitored databases round robin over *)
(* a fixed pool of worker entries.  A worker entry is bound to a database  *)
(* slot, a background process is forked for it, and the process gives the  *)
(* entry back in its exit hook.  CREATE and DROP EXTENSION requests reach  *)
(* the launcher between two scheduling decisions; they add and release     *)
(* slots while worker processes are running.                               *)
(*                                                                         *)
(* Times are abstracted to "due": next_run_time has been reached.          *)
(***************************************************************************)
EXTENDS Integers, FiniteSets

CONSTANTS
    DBs,            \* oids of databases that may install the extension
    InvalidOid,
    MaxDB,          \* diskquota_max_monitored_databases
    MaxWorkers,     \* diskquota_max_workers
    MayFail,        \* can forks, connections, SQL and refreshes fail?
    EarlyExit,      \* can a process die before it registers its exit hook?
    Shutdown,       \* may the launcher receive SIGTERM?
    MaxCrash,       \* bound: launcher exits by ERROR
    WellFormed      \* do CREATE and DROP requests of a database alternate?

ASSUME LauncherAssumption ==
    /\ MaxDB \in Nat \ {0}
    /\ MaxWorkers \in Nat \ {0}
    /\ InvalidOid \notin DBs
    /\ MaxCrash \in Nat
    /\ {MayFail, EarlyExit, Shutdown, WellFormed} \subseteq BOOLEAN

Slots   == 0 .. MaxDB - 1
Workers == 0 .. MaxWorkers - 1
NoSlot   == -1      \* a NULL DiskquotaDBEntry pointer
NoWorker == -1      \* INVALID_WORKER_ID, a NULL DiskQuotaWorkerEntry pointer
MaxTries == 3       \* try_times at which the launcher gives up on a database

VARIABLES
    \* DiskquotaDBEntry[MaxDB], in shared memory
    dbid, workerId, inited, inUse, due,
    \* DiskQuotaWorkerEntry[MaxWorkers]: entries outside freeWorkers are in
    \* runningWorkers, as a list node is always in exactly one of the two
    freeWorkers, dbEntry,
    isDynamicWorker,
    \* content of the slot's hash maps: whose tables and quotas they hold
    model,
    \* catalogs: databases that exist, rows of diskquota_namespace.database_list
    exists, dbList,
    \* launcher locals
    lpc, curDB, curDBId, advance, tries, numDb, handle, lw, request, todo, crashes,
    \* worker processes: control point, database connected to, got_sigterm
    pc, pdb, sigterm

slotVars   == <<dbid, workerId, inited, inUse, due>>
poolVars   == <<freeWorkers, dbEntry>>
catVars    == <<exists, dbList>>
schedVars  == <<curDB, curDBId, advance, tries>>
procVars   == <<pc, pdb, sigterm>>
lauVars    == <<lpc, schedVars, numDb, handle, lw, request, todo, crashes>>
vars == <<slotVars, poolVars, isDynamicWorker, model, catVars, lauVars, procVars>>

(***************************************************************************)
(* Worker control points.  "forked" is before on_shmem_exit; "exit1" and   *)
(* "exit2" are the two critical sections of FreeWorker in the exit hook;   *)
(* "gone" is after the hook, before the postmaster has reaped the process. *)
(***************************************************************************)
Serving    == {"forked", "init", "loop", "refresh", "refreshed"}
Live(w)    == pc[w] \in Serving \cup {"exit1", "exit2"}
Running(w) == pc[w] \in Serving \cup {"exit1"}

LauncherPc == {"load", "top", "wait", "tx2", "check", "take", "assign", "register",
               "startup", "free1", "free2", "down", "exited"}
Requests   == [cmd : {"create", "drop"}, dbid : DBs]

TypeOK ==
    /\ dbid \in [Slots -> DBs \cup {InvalidOid}]
    /\ workerId \in [Slots -> Workers \cup {NoWorker}]
    /\ inited \in [Slots -> BOOLEAN]
    /\ inUse \in [Slots -> BOOLEAN]
    /\ due \in [Slots -> BOOLEAN]
    /\ freeWorkers \in SUBSET Workers
    /\ dbEntry \in [Workers -> Slots \cup {NoSlot}]
    /\ isDynamicWorker \in BOOLEAN
    /\ model \in [Slots -> SUBSET (DBs \cup {InvalidOid})]
    /\ exists \in SUBSET DBs
    /\ dbList \in SUBSET DBs
    /\ lpc \in LauncherPc
    /\ curDB \in Slots \cup {NoSlot}
    /\ curDBId \in DBs \cup {InvalidOid}
    /\ advance \in BOOLEAN
    /\ tries \in 0 .. MaxTries
    /\ numDb \in 0 .. MaxDB
    /\ handle \in [Workers -> BOOLEAN]
    /\ lw \in Workers \cup {NoWorker}
    /\ request \in Requests \cup {InvalidOid}
    /\ todo \in SUBSET DBs
    /\ crashes \in 0 .. MaxCrash
    /\ pc \in [Workers -> Serving \cup {"exit1", "exit2", "gone", "none"}]
    /\ pdb \in [Workers -> DBs \cup {InvalidOid}]
    /\ sigterm \in [Workers -> BOOLEAN]

Init ==
    /\ dbid = [s \in Slots |-> InvalidOid]
    /\ workerId = [s \in Slots |-> NoWorker]
    /\ inited = [s \in Slots |-> FALSE]
    /\ inUse = [s \in Slots |-> FALSE]
    /\ due = [s \in Slots |-> FALSE]
    /\ freeWorkers = Workers
    /\ dbEntry = [w \in Workers |-> NoSlot]
    /\ isDynamicWorker = FALSE
    /\ model = [s \in Slots |-> {}]
    /\ exists = DBs
    /\ dbList \in {D \in SUBSET DBs : IsFiniteSet(D) /\ Cardinality(D) <= MaxDB}  \* rows added under the limit
    /\ lpc = "load"
    /\ curDB = NoSlot
    /\ curDBId = InvalidOid
    /\ advance = TRUE
    /\ tries = 0
    /\ numDb = 0
    /\ handle = [w \in Workers |-> FALSE]
    /\ lw = NoWorker
    /\ request = InvalidOid
    /\ todo = dbList
    /\ crashes = 0
    /\ pc = [w \in Workers |-> "none"]
    /\ pdb = [w \in Workers |-> InvalidOid]
    /\ sigterm = [w \in Workers |-> FALSE]

-----------------------------------------------------------------------------
(***************************************************************************)
(* Slots.                                                                  *)
(***************************************************************************)
FreeSlots    == {s \in Slots : ~inUse[s]}
SlotsOf(d)   == {s \in Slots : inUse[s] /\ dbid[s] = d}
Lowest(S)    == CHOOSE s \in S : \A t \in S : s <= t

\* add_db_entry: one pass upwards that grabs the first free slot and stops at
\* an entry of the database.  inited and workerId are left as they are.
TakesFreeSlot(d) ==
    /\ FreeSlots # {}
    /\ SlotsOf(d) = {} \/ Lowest(FreeSlots) < Lowest(SlotsOf(d))

AddDbEntry(d) ==
    /\ IF TakesFreeSlot(d)
       THEN LET s == Lowest(FreeSlots) IN
            /\ dbid' = [dbid EXCEPT ![s] = d]
            /\ inUse' = [inUse EXCEPT ![s] = TRUE]
            /\ due' = [due EXCEPT ![s] = FALSE]
       ELSE UNCHANGED <<dbid, inUse, due>>
    /\ UNCHANGED <<workerId, inited>>

\* Mutant: the worker of the released slot is not signalled.
ReleaseSlotSilently(s) ==
    /\ model' = [model EXCEPT ![s] = {}]
    /\ dbid' = [dbid EXCEPT ![s] = InvalidOid]
    /\ inited' = [inited EXCEPT ![s] = FALSE]
    /\ workerId' = [workerId EXCEPT ![s] = NoWorker]
    /\ inUse' = [inUse EXCEPT ![s] = FALSE]
    /\ UNCHANGED sigterm

\* release_db_entry with vacuum_disk_quota_model and vacuum_db_entry: the
\* worker is only signalled, the slot is free at once.
ReleaseSlot(s) ==
    /\ sigterm' = IF workerId[s] = NoWorker \/ pc[workerId[s]] \in {"gone", "none"}
                  THEN sigterm
                  ELSE [sigterm EXCEPT ![workerId[s]] = TRUE]
    /\ model' = [model EXCEPT ![s] = {}]
    /\ dbid' = [dbid EXCEPT ![s] = InvalidOid]
    /\ inited' = [inited EXCEPT ![s] = FALSE]
    /\ workerId' = [workerId EXCEPT ![s] = NoWorker]
    /\ inUse' = [inUse EXCEPT ![s] = FALSE]

\* next_db: the first runnable slot after curDB, cyclically.
Runnable(s) ==
    /\ inUse[s]
    /\ workerId[s] = NoWorker
    /\ dbid[s] \in exists
Distance(s) == IF s > curDB THEN s - curDB ELSE s - curDB + MaxDB
\* Mutant: always from the first slot.
NextDbFromStart ==
    IF \E s \in Slots : Runnable(s) THEN Lowest({s \in Slots : Runnable(s)}) ELSE NoSlot

NextDb ==
    IF \E s \in Slots : Runnable(s)
    THEN CHOOSE s \in Slots : /\ Runnable(s)
                              /\ \A t \in Slots : Runnable(t) => Distance(s) <= Distance(t)
    ELSE NoSlot

(***************************************************************************)
(* FreeWorker, two critical sections: unbind the slot if it is still this  *)
(* worker's, then move the entry to freeWorkers.                           *)
(***************************************************************************)
\* Mutant: next_run_time is set and the slot's workerId forgotten.
UnbindSlotKeepingId(w) ==
    LET s == dbEntry[w] IN
    /\ due' = IF s # NoSlot /\ inUse[s] /\ workerId[s] = w THEN [due EXCEPT ![s] = FALSE] ELSE due
    /\ UNCHANGED <<dbid, workerId, inited, inUse>>

UnbindSlot(w) ==
    LET s == dbEntry[w] IN
    /\ IF s # NoSlot /\ inUse[s] /\ workerId[s] = w
       THEN /\ workerId' = [workerId EXCEPT ![s] = NoWorker]
            /\ due' = [due EXCEPT ![s] = FALSE]
       ELSE UNCHANGED <<workerId, due>>
    /\ UNCHANGED <<dbid, inited, inUse>>

\* Mutant: FreeWorker returns early for a slot that was released.
ReturnEntryIfInUse(w) ==
    IF inUse[dbEntry[w]]
    THEN freeWorkers' = freeWorkers \cup {w} /\ dbEntry' = [dbEntry EXCEPT ![w] = NoSlot]
    ELSE UNCHANGED poolVars

ReturnEntry(w) ==
    /\ freeWorkers' = freeWorkers \cup {w}
    /\ dbEntry' = [dbEntry EXCEPT ![w] = NoSlot]

-----------------------------------------------------------------------------
(***************************************************************************)
(* The launcher.                                                           *)
(***************************************************************************)
\* init_database_list: rows are taken in any order, at most MaxDB of them.
Load(d) ==
    /\ lpc = "load"
    /\ d \in todo
    /\ numDb < MaxDB
    /\ todo' = todo \ {d}
    /\ IF d \in exists
       THEN /\ AddDbEntry(d)
            /\ numDb' = IF TakesFreeSlot(d) \/ SlotsOf(d) # {} THEN numDb + 1 ELSE numDb
       ELSE UNCHANGED <<slotVars, numDb>>
    /\ UNCHANGED <<poolVars, isDynamicWorker, model, catVars, lpc, schedVars, handle,
                   lw, request, crashes, procVars>>

\* Mutant: the scheduling mode is left as it was.
LoadDoneKeepingMode ==
    /\ lpc = "load"
    /\ todo = {} \/ numDb = MaxDB
    /\ lpc' = "top"
    /\ todo' = {}
    /\ UNCHANGED <<slotVars, poolVars, isDynamicWorker, model, catVars, schedVars, numDb,
                   handle, lw, request, crashes, procVars>>

LoadDone ==
    /\ lpc = "load"
    /\ todo = {} \/ numDb = MaxDB
    /\ lpc' = "top"
    /\ todo' = {}
    /\ isDynamicWorker' = (isDynamicWorker \/ numDb > MaxWorkers)
    /\ UNCHANGED <<slotVars, poolVars, model, catVars, schedVars, numDb, handle,
                   lw, request, crashes, procVars>>

\* Top of the main loop.
Pick ==
    /\ lpc = "top"
    /\ lpc' = "wait"
    /\ IF advance
       THEN /\ curDB' = NextDb
            /\ curDBId' = IF NextDb = NoSlot THEN curDBId ELSE dbid[NextDb]
            /\ tries' = 0
            /\ UNCHANGED advance
       ELSE UNCHANGED schedVars
    /\ UNCHANGED <<slotVars, poolVars, isDynamicWorker, model, catVars, numDb, handle,
                   lw, request, todo, crashes, procVars>>

\* process_extension_ddl_message, first transaction: the catalog and num_db.
\* SqlFails is an error of the INSERT or DELETE, caught and answered.
CreateTx1(d) ==
    /\ lpc = "wait"
    /\ WellFormed => d \notin dbList
    /\ \/ /\ numDb < MaxDB
          /\ d \in exists
          /\ dbList' = dbList \cup {d}
          /\ numDb' = numDb + 1
          /\ request' = [cmd |-> "create", dbid |-> d]
          /\ lpc' = "tx2"
       \/ /\ numDb = MaxDB \/ d \notin exists \/ MayFail
          /\ lpc' = "check"
          /\ UNCHANGED <<dbList, numDb, request>>
    /\ UNCHANGED <<slotVars, poolVars, isDynamicWorker, model, exists, schedVars, handle,
                   lw, todo, crashes, procVars>>

DropTx1(d) ==
    /\ lpc = "wait"
    /\ WellFormed => d \in dbList
    /\ \/ /\ d \in exists
          /\ dbList' = dbList \ {d}
          /\ numDb' = IF numDb > 0 THEN numDb - 1 ELSE numDb
          /\ request' = [cmd |-> "drop", dbid |-> d]
          /\ lpc' = "tx2"
       \/ /\ d \notin exists \/ MayFail
          /\ lpc' = "check"
          /\ UNCHANGED <<dbList, numDb, request>>
    /\ UNCHANGED <<slotVars, poolVars, isDynamicWorker, model, exists, schedVars, handle,
                   lw, todo, crashes, procVars>>

\* After the commit: shared memory.
CreateTx2 ==
    /\ lpc = "tx2"
    /\ request.cmd = "create"
    /\ isDynamicWorker' = (isDynamicWorker \/ numDb > MaxWorkers)
    /\ AddDbEntry(request.dbid)
    /\ lpc' = "check"
    /\ request' = InvalidOid
    /\ UNCHANGED <<poolVars, model, catVars, schedVars, numDb, handle, lw, todo,
                   crashes, procVars>>

\* The handle of a registered worker must be known: TerminateBackgroundWorker
\* dereferences it.
ReleaseIsSafe(s) == workerId[s] # NoWorker => handle[workerId[s]]

DropTx2 ==
    /\ lpc = "tx2"
    /\ request.cmd = "drop"
    /\ SlotsOf(request.dbid) # {} => ReleaseIsSafe(Lowest(SlotsOf(request.dbid)))
    /\ isDynamicWorker' = (isDynamicWorker /\ numDb > MaxWorkers)
    /\ IF SlotsOf(request.dbid) # {}
       THEN ReleaseSlot(Lowest(SlotsOf(request.dbid)))
       ELSE UNCHANGED <<sigterm, model, dbid, inited, workerId, inUse>>
    /\ lpc' = "check"
    /\ request' = InvalidOid
    /\ UNCHANGED <<due, poolVars, catVars, schedVars, numDb, handle, lw, todo, crashes,
                   pc, pdb>>

\* curDB is re-validated after the message, then started if it is due.
Check ==
    /\ lpc \in {"wait", "check"}
    /\ IF curDB = NoSlot \/ ~inUse[curDB] \/ dbid[curDB] # curDBId
       THEN /\ advance' = TRUE
            /\ lpc' = "top"
       ELSE IF due[curDB]
       THEN /\ lpc' = "take"
            /\ UNCHANGED advance
       ELSE /\ advance' = FALSE
            /\ lpc' = "top"
    /\ UNCHANGED <<slotVars, poolVars, isDynamicWorker, model, catVars, curDB, curDBId,
                   tries, numDb, handle, lw, request, todo, crashes, procVars>>

\* start_worker, next_worker: NO_FREE_WORKER keeps the database without
\* counting a try.
NoFreeWorker ==
    /\ lpc = "take"
    /\ freeWorkers = {}
    /\ advance' = FALSE
    /\ lpc' = "top"
    /\ UNCHANGED <<slotVars, poolVars, isDynamicWorker, model, catVars, curDB, curDBId,
                   tries, numDb, handle, lw, request, todo, crashes, procVars>>

TakeWorker(w) ==
    /\ lpc = "take"
    /\ w \in freeWorkers
    /\ freeWorkers' = freeWorkers \ {w}
    /\ dbEntry' = [dbEntry EXCEPT ![w] = NoSlot]
    /\ lw' = w
    /\ lpc' = "assign"
    /\ UNCHANGED <<slotVars, isDynamicWorker, model, catVars, schedVars, numDb, handle,
                   request, todo, crashes, procVars>>

\* free_bgworker_handle waits for the entry's previous process when its
\* handle is known; then the entry and the slot are bound to each other.
Assign ==
    /\ lpc = "assign"
    /\ handle[lw] => pc[lw] = "none"
    /\ handle' = [handle EXCEPT ![lw] = FALSE]
    /\ workerId' = [workerId EXCEPT ![curDB] = lw]
    /\ dbEntry' = [dbEntry EXCEPT ![lw] = curDB]
    /\ lpc' = "register"
    /\ UNCHANGED <<dbid, inited, inUse, due, freeWorkers, isDynamicWorker, model, catVars,
                   schedVars, numDb, lw, request, todo, crashes, procVars>>

\* Mutant: one try too many.
AttemptedOnceMore(valid) ==
    /\ tries' = IF valid THEN tries + 1 ELSE tries
    /\ advance' = (~valid \/ tries + 1 > MaxTries)

\* An attempt that failed: try_times is counted unless the database is
\* invalid, in which case the launcher moves on at once.
Attempted(valid) ==
    /\ tries' = IF valid THEN tries + 1 ELSE tries
    /\ advance' = (~valid \/ tries + 1 >= MaxTries)

Register ==
    /\ lpc = "register"
    /\ \/ /\ dbid[curDB] \in exists
          /\ handle' = [handle EXCEPT ![lw] = TRUE]
          /\ pc' = [pc EXCEPT ![lw] = "forked"]
          /\ pdb' = [pdb EXCEPT ![lw] = dbid[curDB]]
          /\ sigterm' = [sigterm EXCEPT ![lw] = FALSE]
          /\ lpc' = "startup"
          /\ UNCHANGED <<tries, advance>>
       \/ /\ dbid[curDB] \notin exists \/ MayFail
          /\ Attempted(dbid[curDB] \in exists)
          /\ lpc' = "free1"
          /\ UNCHANGED <<handle, procVars>>
    /\ UNCHANGED <<slotVars, poolVars, isDynamicWorker, model, catVars, curDB, curDBId,
                   numDb, lw, request, todo, crashes>>

\* Mutant: a process that has not begun to run counts as stopped.
StoppedTooEarly == pc[lw] \in {"none", "forked"}

\* WaitForBackgroundWorkerStartup: STOPPED if the process is already reaped.
Stopped == pc[lw] = "none"

Startup ==
    /\ lpc = "startup"
    /\ IF Stopped
       THEN /\ Attempted(TRUE)
            /\ lpc' = "free1"
            /\ UNCHANGED lw
       ELSE /\ advance' = TRUE
            /\ lpc' = "top"
            /\ lw' = NoWorker
            /\ UNCHANGED tries
    /\ UNCHANGED <<slotVars, poolVars, isDynamicWorker, model, catVars, curDB, curDBId,
                   numDb, handle, request, todo, crashes, procVars>>

\* FreeWorker on start_worker's Failed path.
StartFailed1 ==
    /\ lpc = "free1"
    /\ UnbindSlot(lw)
    /\ lpc' = "free2"
    /\ UNCHANGED <<poolVars, isDynamicWorker, model, catVars, schedVars, numDb, handle, lw,
                   request, todo, crashes, procVars>>

StartFailed2 ==
    /\ lpc = "free2"
    /\ ReturnEntry(lw)
    /\ lpc' = "top"
    /\ lw' = NoWorker
    /\ UNCHANGED <<slotVars, isDynamicWorker, model, catVars, schedVars, numDb, handle,
                   request, todo, crashes, procVars>>

\* Mutant: only workers that have finished a first round are signalled.
TerminableInited(w) == \E s \in Slots : workerId[s] = w /\ inited[s] /\ handle[w] /\ Live(w)

\* SIGTERM: the loop ends, terminate_all_workers signals what it has a handle for.
Terminable(w) == w \notin freeWorkers /\ handle[w] /\ Live(w)

Terminate ==
    /\ Shutdown
    /\ lpc = "top"
    /\ sigterm' = [w \in Workers |-> sigterm[w] \/ Terminable(w)]
    /\ lpc' = "exited"
    /\ UNCHANGED <<slotVars, poolVars, isDynamicWorker, model, catVars, schedVars, numDb,
                   handle, lw, request, todo, crashes, pc, pdb>>

\* The locals of a launcher that is not running.
NoLauncherState ==
    /\ curDB' = NoSlot
    /\ curDBId' = InvalidOid
    /\ advance' = TRUE
    /\ tries' = 0
    /\ numDb' = 0
    /\ handle' = [w \in Workers |-> FALSE]
    /\ lw' = NoWorker
    /\ request' = InvalidOid
    /\ todo' = {}

\* An ERROR nobody catches ends the launcher with exit code 1: shared memory
\* and the workers survive, local variables and handles do not.
LauncherError ==
    /\ lpc \notin {"down", "exited"}
    /\ crashes < MaxCrash
    /\ crashes' = crashes + 1
    /\ lpc' = "down"
    /\ NoLauncherState
    /\ UNCHANGED <<slotVars, poolVars, isDynamicWorker, model, catVars, procVars>>

\* bgw_restart_time: a new launcher reads the list again.
Restart ==
    /\ lpc = "down"
    /\ lpc' = "load"
    /\ todo' = dbList
    /\ UNCHANGED <<slotVars, poolVars, isDynamicWorker, model, catVars, schedVars, numDb,
                   handle, lw, request, crashes, procVars>>

\* Releasing a worker whose handle was lost crashes the launcher; the
\* postmaster kills everything and shared memory is set up again.
PostmasterReset ==
    /\ lpc = "tx2"
    /\ request.cmd = "drop"
    /\ \E s \in SlotsOf(request.dbid) : s = Lowest(SlotsOf(request.dbid)) /\ ~ReleaseIsSafe(s)
    /\ dbid' = [s \in Slots |-> InvalidOid]
    /\ workerId' = [s \in Slots |-> NoWorker]
    /\ inited' = [s \in Slots |-> FALSE]
    /\ inUse' = [s \in Slots |-> FALSE]
    /\ due' = [s \in Slots |-> FALSE]
    /\ freeWorkers' = Workers
    /\ dbEntry' = [w \in Workers |-> NoSlot]
    /\ isDynamicWorker' = FALSE
    /\ model' = [s \in Slots |-> {}]
    /\ pc' = [w \in Workers |-> "none"]
    /\ pdb' = [w \in Workers |-> InvalidOid]
    /\ sigterm' = [w \in Workers |-> FALSE]
    /\ lpc' = "down"
    /\ NoLauncherState
    /\ UNCHANGED <<catVars, crashes>>

-----------------------------------------------------------------------------
(***************************************************************************)
(* Worker processes: disk_quota_worker_main.                               *)
(***************************************************************************)
Goto(w, p) == pc' = [pc EXCEPT ![w] = p]
ProcessOver(w, p) ==
    /\ Goto(w, p)
    /\ pdb' = [pdb EXCEPT ![w] = InvalidOid]
    /\ sigterm' = [sigterm EXCEPT ![w] = FALSE]
OutsideProcs == <<slotVars, poolVars, isDynamicWorker, model, catVars, lauVars>>

DieEarly(w) ==
    /\ EarlyExit
    /\ pc[w] = "forked"
    /\ ProcessOver(w, "none")
    /\ UNCHANGED OutsideProcs

RegisterHook(w) ==
    /\ pc[w] = "forked"
    /\ Goto(w, "init")
    /\ UNCHANGED <<OutsideProcs, pdb, sigterm>>

\* Connection and model set-up, where FATAL leads to the exit hook, then the
\* version and readiness loops, which end by themselves or on SIGTERM.
Connect(w) ==
    /\ pc[w] = "init"
    /\ \/ pdb[w] \in exists /\ Goto(w, "loop")
       \/ (pdb[w] \notin exists \/ MayFail) /\ Goto(w, "exit1")
    /\ UNCHANGED <<OutsideProcs, pdb, sigterm>>

\* The end of a round: in dynamic mode the worker leaves after it.
EndOfRound == IF isDynamicWorker THEN "exit1" ELSE "loop"

\* Mutant: the flag is never looked at.
LoopHeadDeaf(w) ==
    /\ pc[w] = "loop"
    /\ \E p \in {"refresh", EndOfRound} : Goto(w, p)
    /\ UNCHANGED <<OutsideProcs, pdb, sigterm>>

\* Main loop head: SIGTERM is only looked at here.  A paused database has a
\* round without a refresh.
LoopHead(w) ==
    /\ pc[w] = "loop"
    /\ IF sigterm[w]
       THEN Goto(w, "exit1")
       ELSE \E p \in {"refresh", EndOfRound} : Goto(w, p)
    /\ UNCHANGED <<OutsideProcs, pdb, sigterm>>

\* refresh_disk_quota_model writes the maps of the slot the entry points to;
\* an error it does not catch leads to the exit hook.
Refresh(w) ==
    /\ pc[w] = "refresh"
    /\ \/ /\ model' = [model EXCEPT ![dbEntry[w]] = @ \cup {pdb[w]}]
          /\ Goto(w, "refreshed")
       \/ /\ MayFail
          /\ Goto(w, "exit1")
          /\ UNCHANGED model
    /\ UNCHANGED <<slotVars, poolVars, isDynamicWorker, catVars, lauVars, pdb, sigterm>>

SetInited(w) ==
    /\ pc[w] = "refreshed"
    /\ inited' = [inited EXCEPT ![dbEntry[w]] = TRUE]
    /\ Goto(w, EndOfRound)
    /\ UNCHANGED <<dbid, workerId, inUse, due, poolVars, isDynamicWorker, model, catVars,
                   lauVars, pdb, sigterm>>

FreeWorkerOnExit1(w) ==
    /\ pc[w] = "exit1"
    /\ UnbindSlot(w)
    /\ Goto(w, "exit2")
    /\ UNCHANGED <<poolVars, isDynamicWorker, model, catVars, lauVars, pdb, sigterm>>

FreeWorkerOnExit2(w) ==
    /\ pc[w] = "exit2"
    /\ ReturnEntry(w)
    /\ ProcessOver(w, "gone")
    /\ UNCHANGED <<slotVars, isDynamicWorker, model, catVars, lauVars>>

Reap(w) ==
    /\ pc[w] = "gone"
    /\ Goto(w, "none")
    /\ UNCHANGED <<OutsideProcs, pdb, sigterm>>

(***************************************************************************)
(* Environment.                                                            *)
(***************************************************************************)
TimePasses(s) ==
    /\ inUse[s]
    /\ ~due[s]
    /\ due' = [due EXCEPT ![s] = TRUE]
    /\ UNCHANGED <<dbid, workerId, inited, inUse, poolVars, isDynamicWorker, model, catVars,
                   lauVars, procVars>>

\* DROP DATABASE needs that nobody is connected; the launcher is not told.
DropDatabase(d) ==
    /\ MayFail
    /\ d \in exists
    /\ \A w \in Workers : pc[w] \in Serving \ {"forked", "init"} => pdb[w] # d
    /\ exists' = exists \ {d}
    /\ UNCHANGED <<slotVars, poolVars, isDynamicWorker, model, dbList, lauVars, procVars>>

LauncherStep ==
    \/ \E d \in DBs : Load(d)
    \/ LoadDone \/ Pick \/ CreateTx2 \/ DropTx2 \/ Check \/ NoFreeWorker
    \/ \E w \in Workers : TakeWorker(w)
    \/ Assign \/ Register \/ Startup \/ StartFailed1 \/ StartFailed2 \/ Restart

Message == \E d \in DBs : CreateTx1(d) \/ DropTx1(d)

WorkerStep(w) ==
    \/ RegisterHook(w) \/ Connect(w) \/ LoopHead(w) \/ Refresh(w)
    \/ SetInited(w) \/ FreeWorkerOnExit1(w) \/ FreeWorkerOnExit2(w) \/ Reap(w)

Next ==
    \/ LauncherStep
    \/ Message
    \/ Terminate
    \/ LauncherError
    \/ PostmasterReset
    \/ \E w \in Workers : WorkerStep(w) \/ DieEarly(w)
    \/ \E s \in Slots : TimePasses(s)
    \/ \E d \in DBs : DropDatabase(d)

Spec == Init /\ [][Next]_vars

-----------------------------------------------------------------------------
(***************************************************************************)
(* Fairness: the launcher and every worker process keep running, and time  *)
(* passes.  Requests, failures and signals are never forced.               *)
(***************************************************************************)
Fairness ==
    /\ WF_vars(LauncherStep)
    /\ \A w \in Workers : WF_vars(WorkerStep(w))
    /\ \A s \in Slots : WF_vars(TimePasses(s))

FairSpec == Spec /\ Fairness

-----------------------------------------------------------------------------
(***************************************************************************)
(* Safety.                                                                 *)
(***************************************************************************)
\* A worker process that has not been told to stop is the registered worker of
\* a slot in use for the very database it is connected to.  So the launcher
\* finds it when the extension is dropped, and never starts a second one for
\* the slot.  FreeWorker's test of in_use and workerId, and the signal sent by
\* release_db_entry, are what keeps this true when slots are reused.
WorkerIsRegistered ==
    \A w \in Workers : Running(w) /\ ~sigterm[w] =>
        /\ dbEntry[w] # NoSlot
        /\ inUse[dbEntry[w]]
        /\ workerId[dbEntry[w]] = w
        /\ dbid[dbEntry[w]] = pdb[w]

\* A slot that names a worker is in use, the worker's entry is in runningWorkers
\* and points back to the slot: next_db never skips a slot on behalf of an
\* entry that is free or serves another slot.
SlotNamesItsWorker ==
    \A s \in Slots : workerId[s] # NoWorker =>
        /\ inUse[s]
        /\ workerId[s] \notin freeWorkers
        /\ dbEntry[workerId[s]] = s

\* A live process has its entry outside freeWorkers and a non-NULL dbEntry,
\* which disk_quota_worker_main dereferences all the time: neither next_worker
\* nor the Failed path of start_worker takes an entry away from a process.
LiveWorkerKeepsEntry ==
    \A w \in Workers : Live(w) => w \notin freeWorkers /\ dbEntry[w] # NoSlot

\* No entry leaks: an entry in runningWorkers has a process that will return
\* it, or is in the launcher's hands (no early death, no launcher error).
NoEntryLeaks ==
    \A w \in Workers \ freeWorkers : Live(w) \/ (lw = w /\ lpc \in LauncherPc \ {"down", "exited"})

\* With alternating requests and no launcher error, num_db, database_list, the
\* slots in use and the scheduling mode agree whenever no request is half done.
UsedSlots == {s \in Slots : inUse[s]}
BooksAgree ==
    lpc \notin {"load", "tx2"} =>
        /\ {dbid[s] : s \in UsedSlots} = dbList
        /\ Cardinality(UsedSlots) = Cardinality(dbList)
        /\ numDb = Cardinality(dbList)
        /\ isDynamicWorker <=> numDb > MaxWorkers

\* diskquota.c:1834 "if there is already dbEntry's dbid equals dbid, returning
\* the existing one": a database has at most one slot.
UniqueSlot ==
    \A s, t \in UsedSlots : dbid[s] = dbid[t] => s = t

\* diskquota.h:258 "will set to true after the worker finish the frist run": an
\* inited slot has had a refresh of its own database.
InitedAfterFirstRun ==
    \A s \in UsedSlots : inited[s] => dbid[s] \in model[s]

\* diskquota.c:1432 "When launcher exits, it should also terminate all the
\* workers."
ExitStopsWorkers ==
    lpc = "exited" => \A w \in Workers : Live(w) => sigterm[w]

(***************************************************************************)
(* Liveness.                                                               *)
(***************************************************************************)
\* Every database that stays listed is served again and again, also when there
\* are more databases than workers: next_db's round robin, the retry on
\* NO_FREE_WORKER and the one-round workers of dynamic mode together.  Only the
\* end of the launcher stops it.
EveryDbServed ==
    \A d \in DBs : <>[](d \in dbList \cap exists /\ lpc # "exited")
                     => []<>(\E w \in Workers : Running(w) /\ pdb[w] = d)

\* A worker that was told to stop exits and returns its entry.
SignalledWorkerExits ==
    \A w \in Workers : (Live(w) /\ sigterm[w]) ~> ~Live(w)
=============================================================================
