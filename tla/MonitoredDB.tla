---------------------------- MODULE MonitoredDB ----------------------------
(***************************************************************************)
(* The cache of monitored databases (src/src/monitored_db.c), kept on      *)
(* every node, and those who use it: the launcher that adds and removes    *)
(* databases, the workers that check for a pause and count their rounds    *)
(* (epochs), the sessions that pause and resume, and the session that      *)
(* waits for a new epoch.                                                  *)
(*                                                                         *)
(* A worker knows its database twice: as MyDatabaseId, which is fixed, and *)
(* through its slot of dbArray, which the launcher may clear or give to    *)
(* another database while a stopped worker still runs.                     *)
(***************************************************************************)
EXTENDS Integers, FiniteSets, SequencesExt

CONSTANTS
    DBs,            \* databases
    FirstDBs,       \* those on database_list when the server starts
    Segs,           \* segments
    Workers,        \* worker processes
    Sessions,       \* sessions that pause and resume
    MaxDB,          \* diskquota_max_monitored_databases
    EpochMod,       \* 2^32: epoch is an uint32
    MaxRequests,    \* bound: CREATE and DROP EXTENSION requests
    MaxCalls,       \* bound: calls of pause, resume and wait
    MaxFaults       \* bound: failed SQL, lost segments, ends of the launcher

Coord    == "coordinator"
Nodes    == Segs \cup {Coord}
NoDb     == "InvalidOid"
NoWorker == "INVALID_WORKER_ID"
Slots    == 1..MaxDB
Updates  == {"ADD", "REMOVE"}
Toggles  == {"PAUSE", "RESUME"}

ASSUME MonitorAssumption ==
    /\ MaxDB \in Nat \ {0}
    /\ EpochMod \in Nat /\ EpochMod > 2
    /\ {MaxRequests, MaxCalls, MaxFaults} \subseteq Nat
    /\ FirstDBs \subseteq DBs /\ IsFiniteSet(FirstDBs)
    /\ Cardinality(FirstDBs) <= MaxDB
    /\ Coord \notin Segs
    /\ NoDb \notin DBs
    /\ NoWorker \notin Workers

VARIABLES
    \* monitored_dbid_cache: the databases each node has an entry for and,
    \* among them, those whose entry says paused
    cached, paused,
    epoch, status,  \* the other fields, which matter on the coordinator
    \* dbArray: dbid, inited and the worker (workerId) of each slot
    dbid, inited, worker,
    listed,         \* diskquota_namespace.database_list
    ready,          \* databases whose diskquota.state is ready
    \* the launcher: control point, the updates of the cache it has to make,
    \* is the first one done on the segments?, was an error left uncleaned?
    lpc, jobs, onSegs, open,
    wk,             \* worker processes
    ses,            \* sessions in diskquota_pause and diskquota_resume
    wait,           \* the session in wait_for_worker_new_epoch
    requests, calls, faults,
    \* history: entries the last pause was told it has paused; entries a
    \* fault or a stopped worker has put out of step; databases whose status
    \* or inited flag a stopped worker has written
    held, stray, smudged

cacheVars == <<cached, paused, epoch, status>>
slotVars  == <<dbid, inited, worker>>
launVars  == <<lpc, jobs, onSegs, open>>
bounds    == <<requests, calls, faults>>
history   == <<held, stray, smudged>>
vars      == <<cacheVars, slotVars, listed, ready, launVars, wk, ses, wait,
               bounds, history>>

NoProcess   == [pc |-> "none", db |-> NoDb, slot |-> 0, term |-> FALSE,
                told |-> FALSE]
IdleSession == [pc |-> "idle", db |-> NoDb, cmd |-> "PAUSE", hit |-> {},
                alone |-> TRUE]
NoWait      == [pc |-> "idle", db |-> NoDb, epoch |-> 0, since |-> {},
                full |-> FALSE, upset |-> FALSE]

Served == {dbid[i] : i \in Slots} \ {NoDb}

Init ==
    /\ cached = [n \in Nodes |-> {}]
    /\ paused = [n \in Nodes |-> {}]
    /\ epoch  = [d \in DBs |-> 0]
    /\ status = [d \in DBs |-> "INIT"]
    /\ dbid   = [i \in Slots |-> NoDb]
    /\ inited = [i \in Slots |-> FALSE]
    /\ worker = [i \in Slots |-> NoWorker]
    /\ listed = FirstDBs /\ ready = {}
    /\ lpc = "down" /\ jobs = << >> /\ onSegs = FALSE /\ open = FALSE
    /\ wk   = [w \in Workers |-> NoProcess]
    /\ ses  = [s \in Sessions |-> IdleSession]
    /\ wait = NoWait
    /\ requests = 0 /\ calls = 0 /\ faults = 0
    /\ held = {} /\ stray = {} /\ smudged = {}

-----------------------------------------------------------------------------
(* update_monitor_db, on the nodes ns.  ADD writes paused, epoch and       *)
(* status anew even when the entry is there; PAUSE and RESUME look for the *)
(* entry and leave its absence alone.  The epoch and the status of an      *)
(* absent entry are kept at their first values.                            *)

\* mutant: the entry is kept, as PAUSE would keep it
InCacheKept(cmd, c, d) == IF cmd = "ADD" THEN c \cup {d} ELSE c

InCache(cmd, c, d) ==
    CASE cmd = "ADD"    -> c \cup {d}
      [] cmd = "REMOVE" -> c \ {d}
      [] OTHER          -> c

InPaused(cmd, c, p, d) ==
    IF cmd = "PAUSE" THEN p \cup ({d} \cap c) ELSE p \ {d}

UpdateMonitorDb(ns, cmd, d) ==
    /\ cached' = [n \in Nodes |-> IF n \in ns THEN InCache(cmd, cached[n], d)
                                  ELSE cached[n]]
    /\ paused' = [n \in Nodes |-> IF n \in ns
                                  THEN InPaused(cmd, cached[n], paused[n], d)
                                  ELSE paused[n]]
    /\ IF cmd \in Updates /\ Coord \in ns
       THEN /\ epoch'  = [epoch EXCEPT ![d] = 0]
            /\ status' = [status EXCEPT ![d] = "INIT"]
       ELSE UNCHANGED <<epoch, status>>

\* update_monitordb_status: worker w, through its slot
UpdateStatus(w, st) ==
    LET d == dbid[wk[w].slot]
    IN  /\ status'  = IF d \in cached[Coord]
                      THEN [status EXCEPT ![d] = st] ELSE status
        /\ smudged' = IF d \in cached[Coord] /\ wk[w].term
                      THEN smudged \cup {d} ELSE smudged

\* worker_get_epoch: 0, with a warning, when there is no entry
Epoch(d) == IF d \in cached[Coord] THEN epoch[d] ELSE 0

\* the history of the sessions when the entries of d change on nodes ns
Disturb(ns, d) ==
    /\ held' = held \ (ns \X {d})
    /\ ses'  = [s \in Sessions |-> IF ses[s].db = d
                                   THEN [ses[s] EXCEPT !.alone = FALSE]
                                   ELSE ses[s]]

-----------------------------------------------------------------------------
(* The launcher.                                                           *)

\* add_db_entry: the first slot that is free or holds d
AddDbEntry(s, d) ==
    LET fit == {i \in Slots : s[i] \in {NoDb, d}}
    IN  IF fit = {} THEN s ELSE [s EXCEPT ![Min(fit)] = d]

\* do_process_extension_ddl_message, CREATE EXTENSION in d
Create(d) ==
    /\ lpc = "serve" /\ jobs = << >> /\ ~open
    /\ requests < MaxRequests
    /\ d \notin listed /\ Cardinality(listed) < MaxDB
    /\ requests' = requests + 1
    /\ listed'   = listed \cup {d}
    /\ dbid'     = AddDbEntry(dbid, d)
    /\ jobs'     = << [cmd |-> "ADD", db |-> d] >>
    /\ UNCHANGED <<cacheVars, inited, worker, ready, lpc, onSegs, open, wk,
                   ses, wait, calls, faults, history>>

\* ... and DROP EXTENSION: release_db_entry stops the worker and clears the
\* first slot of d before the cache is updated
Drop(d) ==
    /\ lpc = "serve" /\ jobs = << >> /\ ~open
    /\ requests < MaxRequests
    /\ d \in listed
    /\ requests' = requests + 1
    /\ listed'   = listed \ {d}
    /\ ready'    = ready \ {d}
    /\ LET all     == {i \in Slots : dbid[i] = d}
           held_by == {i \in all : \A j \in all : i <= j}
           free(f, v) == [i \in Slots |-> IF i \in held_by THEN v ELSE f[i]]
       IN  /\ wk' = [w \in Workers |->
                       IF \E i \in held_by : worker[i] = w
                       THEN [wk[w] EXCEPT !.term = TRUE] ELSE wk[w]]
           /\ dbid'   = free(dbid, NoDb)
           /\ inited' = free(inited, FALSE)
           /\ worker' = free(worker, NoWorker)
    /\ jobs'    = << [cmd |-> "REMOVE", db |-> d] >>
    /\ smudged' = smudged \ {d}
    /\ UNCHANGED <<cacheVars, lpc, onSegs, open, ses, wait, calls, faults,
                   held, stray>>

\* update_monitor_db_mpp, first the segments, by SQL
LauncherSegs ==
    /\ lpc # "down" /\ jobs # << >> /\ ~onSegs
    /\ LET j == Head(jobs)
       IN  \E ns \in SUBSET Segs :
             /\ UpdateMonitorDb(ns, j.cmd, j.db)
             /\ Disturb(ns, j.db)
             /\ \/ /\ ns = Segs
                   /\ onSegs' = TRUE
                   /\ stray'  = stray \ (Segs \X {j.db})
                   /\ UNCHANGED <<lpc, jobs, open, faults>>
                \* the error ends init_database_list and the launcher with
                \* it; do_process_extension_ddl_message swallows it, but
                \* does not end its transaction
                \/ /\ faults < MaxFaults
                   /\ faults' = faults + 1
                   /\ jobs'   = << >>
                   /\ stray'  = stray \cup
                                  (Nodes \X {jobs[i].db : i \in DOMAIN jobs})
                   /\ lpc'    = IF lpc = "boot" THEN "down" ELSE lpc
                   /\ open'   = (lpc = "serve")
                   /\ UNCHANGED onSegs
    /\ UNCHANGED <<slotVars, listed, ready, wk, wait, requests, calls, smudged>>

\* ... then the coordinator
LauncherCoord ==
    /\ lpc # "down" /\ onSegs
    /\ LET j == Head(jobs)
       IN  /\ UpdateMonitorDb({Coord}, j.cmd, j.db)
           /\ Disturb({Coord}, j.db)
           /\ stray' = stray \ {<<Coord, j.db>>}
           /\ wait'  = IF wait.db = j.db
                       THEN [wait EXCEPT !.upset = TRUE] ELSE wait
    /\ jobs'   = Tail(jobs)
    /\ onSegs' = FALSE
    /\ lpc'    = IF jobs' = << >> THEN "serve" ELSE lpc
    /\ UNCHANGED <<slotVars, listed, ready, open, wk, bounds, smudged>>

\* The launcher ends with an error: at any time, and surely when a request
\* meets the transaction that an earlier error left open.
LauncherError ==
    /\ lpc # "down"
    /\ \/ open /\ UNCHANGED faults
       \/ faults < MaxFaults /\ faults' = faults + 1
    /\ lpc' = "down" /\ jobs' = << >> /\ onSegs' = FALSE /\ open' = FALSE
    /\ stray' = stray \cup (Nodes \X {jobs[i].db : i \in DOMAIN jobs})
    /\ UNCHANGED <<cacheVars, slotVars, listed, ready, wk, ses, wait,
                   requests, calls, held, smudged>>

\* init_database_list: every slot in use is added to the cache again
Restart ==
    /\ lpc = "down"
    /\ \E order \in SetToSeqs(listed) :
         dbid' = FoldLeft(AddDbEntry, dbid, order)
    /\ \E used \in SetToSeqs({i \in Slots : dbid'[i] # NoDb}) :
         /\ \A i, j \in DOMAIN used : i < j => used[i] < used[j]
         /\ jobs' = [i \in DOMAIN used |-> [cmd |-> "ADD", db |-> dbid'[used[i]]]]
    /\ lpc' = IF jobs' = << >> THEN "serve" ELSE "boot"
    /\ UNCHANGED <<cacheVars, inited, worker, listed, ready, onSegs, open, wk,
                   ses, wait, bounds, history>>

\* mutant: the slot is looked at before its database is in the cache
MainLoopEarly == lpc = "serve"

\* the launcher is in its main loop, with no request in hand
MainLoop == lpc = "serve" /\ jobs = << >>

\* it starts a worker for a slot that has none
StartWorker(i) ==
    /\ MainLoop
    /\ dbid[i] # NoDb /\ worker[i] = NoWorker
    /\ \E w \in Workers : wk[w].pc = "none"
    /\ LET w == CHOOSE w \in Workers : wk[w].pc = "none"
       IN  /\ wk' = [wk EXCEPT ![w] = [pc |-> "ready", db |-> dbid[i],
                       slot |-> i, term |-> FALSE, told |-> FALSE]]
           /\ worker' = [worker EXCEPT ![i] = w]
    /\ UNCHANGED <<cacheVars, dbid, inited, listed, ready, launVars, ses,
                   wait, bounds, history>>

\* A crash of a process of the coordinator: the postmaster ends all of them
\* and starts anew with empty shared memory.
PostmasterReset ==
    /\ cached' = [cached EXCEPT ![Coord] = {}]
    /\ paused' = [paused EXCEPT ![Coord] = {}]
    /\ dbid'   = [i \in Slots |-> NoDb]
    /\ inited' = [i \in Slots |-> FALSE]
    /\ worker' = [i \in Slots |-> NoWorker]
    /\ lpc' = "down" /\ jobs' = << >> /\ onSegs' = FALSE /\ open' = FALSE
    /\ wk'   = [w \in Workers |-> NoProcess]
    /\ ses'  = [s \in Sessions |-> IdleSession]
    /\ wait' = NoWait
    /\ held'  = {h \in held : h[1] # Coord}
    /\ stray' = stray \cup (Nodes \X {jobs[i].db : i \in DOMAIN jobs})
    /\ epoch'   = [d \in DBs |-> 0]
    /\ status'  = [d \in DBs |-> "INIT"]
    /\ smudged' = {}
    /\ UNCHANGED <<listed, ready>>

-----------------------------------------------------------------------------
(* A worker, disk_quota_worker_main.                                       *)

Goto(w, pc) == wk' = [wk EXCEPT ![w].pc = pc]

Exit(w) ==
    /\ wk'     = [wk EXCEPT ![w] = NoProcess]
    /\ worker' = [i \in Slots |-> IF worker[i] = w THEN NoWorker
                                  ELSE worker[i]]
    /\ wait'   = [wait EXCEPT !.since = @ \ {w}]

\* the loop that waits for the ready state: its head ...
ReadyLoop(w) ==
    /\ wk[w].pc = "ready"
    /\ Goto(w, IF wk[w].term \/ inited[wk[w].slot] THEN "status" ELSE "check")
    /\ UNCHANGED <<cacheVars, slotVars, listed, ready, launVars, ses, wait,
                   bounds, history>>

\* ... and check_diskquota_state_is_ready.  The first time the answer is no,
\* diskquota_set_readiness_logged writes to the entry of the database
\* without looking whether it was found.
CheckReady(w) ==
    /\ wk[w].pc = "check"
    /\ IF wk[w].db \in ready
       THEN /\ Goto(w, "status")
            /\ UNCHANGED <<status, smudged>>
       ELSE /\ \/ wk[w].db \in cached[Coord]
               \* the extension is gone: the query fails, which is caught
               \/ wk[w].db \notin listed
            /\ wk' = [wk EXCEPT ![w].pc = "ready", ![w].told = TRUE]
            /\ IF wk[w].told THEN UNCHANGED <<status, smudged>>
               ELSE UpdateStatus(w, "UNREADY")
    /\ UNCHANGED <<cached, paused, epoch, slotVars, listed, ready, launVars,
                   ses, wait, bounds, held, stray>>

CheckReadyCrash(w) ==
    /\ wk[w].pc = "check"
    /\ wk[w].db \notin ready \cup cached[Coord]
    /\ PostmasterReset
    /\ UNCHANGED bounds

\* mutant: not after the database was found not to be ready
FirstRunAtOnce(w) == ~inited[wk[w].slot] /\ ~wk[w].told

FirstRun(w) == ~inited[wk[w].slot]

MarkRunning(w) ==
    /\ wk[w].pc = "status"
    /\ wk' = [wk EXCEPT ![w].pc = "top", ![w].told = FALSE]
    /\ IF FirstRun(w) THEN UpdateStatus(w, "RUNNING")
       ELSE UNCHANGED <<status, smudged>>
    /\ UNCHANGED <<cached, paused, epoch, slotVars, listed, ready, launVars,
                   ses, wait, bounds, held, stray>>

\* diskquota_is_paused, of MyDatabaseId
IsPaused(w) == wk[w].db \in cached[Coord] /\ wk[w].db \in paused[Coord]

\* the head of the main loop
LoopTop(w) ==
    /\ wk[w].pc = "top"
    /\ IF wk[w].term
       THEN Exit(w)
       ELSE /\ Goto(w, IF IsPaused(w) THEN "count" ELSE "round")
            /\ wait' = IF wait.pc = "polling" /\ wait.db = wk[w].db
                       THEN [wait EXCEPT !.since = @ \cup {w}] ELSE wait
            /\ UNCHANGED worker
    /\ UNCHANGED <<cacheVars, dbid, inited, listed, ready, launVars, ses,
                   bounds, history>>

\* mutant: an entry that is present is written anew
RefreshCacheAnew(ns, d) ==
    /\ cached' = [n \in Nodes |-> IF n \in ns THEN cached[n] \cup {d}
                                  ELSE cached[n]]
    /\ paused' = [n \in Nodes |-> IF n \in ns THEN paused[n] \ {d}
                                  ELSE paused[n]]

\* mutant: the segments do not refresh their cache
RefreshCacheNever(ns, d) == UNCHANGED <<cached, paused>>

\* refresh_monitored_dbid_cache, on the segments ns: an entry that is absent
\* is added, one that is present is left alone
RefreshCache(ns, d) ==
    /\ cached' = [n \in Nodes |-> IF n \in ns THEN cached[n] \cup {d}
                                  ELSE cached[n]]
    /\ UNCHANGED paused

\* refresh_disk_quota_model.  The first round of a slot reads the table sizes
\* from a table; the later ones ask the segments for their active tables,
\* which makes each of them refresh its cache.  An error is caught.
Round(w) ==
    /\ wk[w].pc = "round"
    /\ \E ns \in SUBSET Segs :
         /\ ns = Segs \/ faults < MaxFaults
         /\ faults' = IF ns = Segs THEN faults ELSE faults + 1
         /\ IF inited[wk[w].slot]
            THEN /\ RefreshCache(ns, wk[w].db)
                 /\ stray' = IF wk[w].db \in Served
                             THEN stray \ (ns \X {wk[w].db})
                             ELSE stray \cup (ns \X {wk[w].db})
            ELSE ns = Segs /\ UNCHANGED <<cached, paused, stray>>
    /\ inited'  = [inited EXCEPT ![wk[w].slot] = TRUE]
    /\ smudged' = IF wk[w].term THEN smudged \cup ({dbid[wk[w].slot]} \ {NoDb})
                  ELSE smudged
    /\ Goto(w, "count")
    /\ UNCHANGED <<epoch, status, dbid, worker, listed, ready, launVars, ses,
                   wait, requests, calls, held>>

NextEpoch(e) == (e + 1) % EpochMod

\* worker_increase_epoch, of the database of the slot; then the end of the
\* iteration, which is the end of the worker when isDynamicWorker
IncreaseEpoch(w) ==
    /\ wk[w].pc = "count"
    /\ LET d   == dbid[wk[w].slot]
           hit == d \in cached[Coord]
           seen == [wait EXCEPT
                      !.full  = @ \/ (w \in wait.since /\ d = wait.db),
                      !.upset = @ \/ (d = wait.db /\ wk[w].term),
                      !.since = @ \ {w}]
       IN  /\ epoch' = IF hit THEN [epoch EXCEPT ![d] = NextEpoch(@)]
                       ELSE epoch
           /\ wait'  = seen
           /\ \/ Goto(w, "top") /\ UNCHANGED worker
              \/ /\ wk'     = [wk EXCEPT ![w] = NoProcess]
                 /\ worker' = [i \in Slots |-> IF worker[i] = w THEN NoWorker
                                               ELSE worker[i]]
    /\ UNCHANGED <<cached, paused, status, dbid, inited, listed, ready,
                   launVars, ses, bounds, history>>

-----------------------------------------------------------------------------
(* Sessions.                                                               *)

\* init_table_size_table, which ends by setting the state
SetReady(d) ==
    /\ d \in listed \ ready
    /\ ready' = ready \cup {d}
    /\ UNCHANGED <<cacheVars, slotVars, listed, launVars, wk, ses, wait,
                   bounds, history>>

\* diskquota_pause and diskquota_resume: update_monitor_db_mpp, which first
\* goes to the segments and may fail on some of them ...
ToggleSegs(s, d, cmd) ==
    /\ ses[s].pc = "idle" /\ d \in listed
    /\ calls < MaxCalls
    /\ calls' = calls + 1
    /\ \E ns \in SUBSET Segs :
         /\ UpdateMonitorDb(ns, cmd, d)
         /\ LET others == {t \in Sessions \ {s} : ses[t].db = d}
                mine   == [pc |-> "coord", db |-> d, cmd |-> cmd,
                           hit |-> {n \in Segs : d \in cached[n]},
                           alone |-> others = {}]
            IN  /\ ses' = [t \in Sessions |->
                     IF t \in others THEN [ses[t] EXCEPT !.alone = FALSE]
                     ELSE IF t = s /\ ns = Segs THEN mine ELSE ses[t]]
                /\ held' = IF cmd = "RESUME" THEN held \ (Nodes \X {d})
                           ELSE held
         /\ ns = Segs \/ faults < MaxFaults
         /\ faults' = IF ns = Segs THEN faults ELSE faults + 1
    /\ UNCHANGED <<slotVars, listed, ready, launVars, wk, wait, requests,
                   stray, smudged>>

\* ... and then to the coordinator
ToggleCoord(s) ==
    /\ ses[s].pc = "coord"
    /\ LET d == ses[s].db
       IN  /\ UpdateMonitorDb({Coord}, ses[s].cmd, d)
           /\ held' = IF ses[s].cmd = "PAUSE" /\ ses[s].alone
                      THEN held \cup ((ses[s].hit \cup
                             {n \in {Coord} : d \in cached[n]}) \X {d})
                      ELSE IF ses[s].cmd = "PAUSE" THEN held
                      ELSE held \ (Nodes \X {d})
    /\ ses' = [ses EXCEPT ![s] = IdleSession]
    /\ UNCHANGED <<slotVars, listed, ready, launVars, wk, wait, bounds, stray,
                   smudged>>

\* wait_for_worker_new_epoch: the first reading ...
WaitStart(d) ==
    /\ wait.pc = "idle" /\ d \in listed
    /\ calls < MaxCalls
    /\ calls' = calls + 1
    /\ wait'  = [NoWait EXCEPT !.pc = "polling", !.db = d, !.epoch = Epoch(d)]
    /\ UNCHANGED <<cacheVars, slotVars, listed, ready, launVars, wk, ses,
                   requests, faults, history>>

\* mutant: one increment is enough
NewEpochAtOnce(new, old) == (new - old) % EpochMod >= 1

\* ... a later one, which ends the wait when the difference, unsigned, is
\* two or more
NewEpoch(new, old) == (new - old) % EpochMod >= 2

WaitPoll ==
    /\ wait.pc = "polling"
    /\ NewEpoch(Epoch(wait.db), wait.epoch)
    /\ wait' = [wait EXCEPT !.pc = "done"]
    /\ UNCHANGED <<cacheVars, slotVars, listed, ready, launVars, wk, ses,
                   bounds, history>>

\* the call has returned, or the user has cancelled it
WaitEnd ==
    /\ wait.pc # "idle"
    /\ wait' = NoWait
    /\ UNCHANGED <<cacheVars, slotVars, listed, ready, launVars, wk, ses,
                   bounds, history>>

\* a segment fails over: the new primary starts with an empty cache
Failover(n) ==
    /\ faults < MaxFaults
    /\ faults' = faults + 1
    /\ cached' = [cached EXCEPT ![n] = {}]
    /\ paused' = [paused EXCEPT ![n] = {}]
    /\ held'   = {h \in held : h[1] # n}
    /\ stray'  = stray \cup ({n} \X cached[n])
    /\ ses'    = [s \in Sessions |-> [ses[s] EXCEPT !.hit = @ \ {n}]]
    /\ UNCHANGED <<epoch, status, slotVars, listed, ready, launVars, wk, wait,
                   requests, calls, smudged>>

-----------------------------------------------------------------------------
WorkerStep(w) ==
    \/ ReadyLoop(w) \/ CheckReady(w) \/ CheckReadyCrash(w) \/ MarkRunning(w)
    \/ LoopTop(w) \/ Round(w) \/ IncreaseEpoch(w)

Next ==
    \/ \E d \in DBs : Create(d) \/ Drop(d) \/ SetReady(d) \/ WaitStart(d)
    \/ LauncherSegs \/ LauncherCoord \/ LauncherError \/ Restart
    \/ \E i \in Slots : StartWorker(i)
    \/ \E w \in Workers : WorkerStep(w)
    \/ \E s \in Sessions : \/ ToggleCoord(s)
                            \/ \E d \in DBs, cmd \in Toggles :
                                 ToggleSegs(s, d, cmd)
    \/ WaitPoll \/ WaitEnd
    \/ \E n \in Segs : Failover(n)

Spec == Init /\ [][Next]_vars

\* The processes run: the workers, and the launcher, which the postmaster
\* starts again when it ends.
Fairness ==
    /\ WF_vars(LauncherSegs \/ LauncherCoord)
    /\ WF_vars(Restart)
    /\ \A i \in Slots : WF_vars(StartWorker(i))
    /\ \A w \in Workers : WF_vars(WorkerStep(w))

FairSpec == Spec /\ Fairness

-----------------------------------------------------------------------------
\* The shapes of the cache, dbArray, the processes and the history.
TypeOK ==
    /\ cached \in [Nodes -> SUBSET DBs]
    /\ paused \in [Nodes -> SUBSET DBs]
    /\ \A n \in Nodes : paused[n] \subseteq cached[n]
    /\ epoch \in [DBs -> 0..(EpochMod - 1)]
    /\ status \in [DBs -> {"INIT", "UNREADY", "RUNNING"}]
    /\ dbid \in [Slots -> DBs \cup {NoDb}]
    /\ inited \in [Slots -> BOOLEAN]
    /\ worker \in [Slots -> Workers \cup {NoWorker}]
    /\ ready \subseteq listed /\ listed \subseteq DBs
    /\ lpc \in {"down", "boot", "serve"}
    /\ \A i \in DOMAIN jobs : jobs[i] \in [cmd : Updates, db : DBs]
    /\ onSegs => jobs # << >>
    /\ \A w \in Workers : wk[w].pc \in {"none", "ready", "check", "status",
                                        "top", "round", "count"}
    /\ held \cup stray \subseteq Nodes \X DBs
    /\ smudged \subseteq DBs

\* No database has two slots.  add_db_entry gives a database a second one when
\* a slot before its own was free as the launcher started again.
UniqueSlots ==
    \A i, j \in Slots : dbid[i] = dbid[j] /\ dbid[i] # NoDb => i = j

\* wait_for_worker_new_epoch returns only when a worker of the database has
\* begun and ended an iteration since the call.  Two increments are needed:
\* the first may end an iteration that had begun before.  Excepted are waits
\* during which the launcher wrote the entry anew or removed it, and those
\* during which a stopped worker, whose slot was given to this database,
\* counted its round here.  UniqueSlots is needed: two live workers of one
\* database count on the same epoch.
WaitSeesFullRound == wait.pc = "done" => wait.full \/ wait.upset

\* What a pause was told it has paused stays paused until someone resumes the
\* database, the launcher adds or removes it, or the node loses its memory:
\* a round that was under way when the pause came, and refreshes the caches
\* of the segments after it, does not undo the pause.
PauseHolds == \A h \in held : h[2] \in paused[h[1]]

\* No worker starts a round of a database whose pause holds on the
\* coordinator, whatever has become of the slot of the worker.
NoRoundWhilePaused ==
    [][\A w \in Workers :
         wk[w].pc = "top" /\ wk'[w].pc = "round"
           => <<Coord, wk[w].db>> \notin held]_vars

\* When the launcher has no update to make, a node has an entry for a
\* database just when the database has a slot, except for entries that a
\* failed update or a lost segment left behind, and the ones that a stopped
\* worker added again on the segments after the launcher had removed them.
\* UniqueSlots is needed: a drop clears only the first slot of a database.
MonitoredIffServed ==
    lpc = "serve" /\ jobs = << >> =>
        \A n \in Nodes, d \in DBs :
            <<n, d>> \in stray \/ (d \in cached[n] <=> d \in Served)

\* The worker that is about to note that its database is not ready, and
\* writes to the entry of the database without a check, finds it, unless the
\* worker has been told to stop or the update that adds it has failed.
LiveWorkerHasEntry ==
    \A w \in Workers :
        wk[w].pc = "check" /\ ~wk[w].term =>
            \/ wk[w].db \in cached[Coord]
            \/ <<Coord, wk[w].db>> \in stray

\* A segment that has lost its entry of a database gets it back from a round
\* of the worker of the database, as long as the database is served, ready
\* and not paused.
LostEntryComesBack ==
    \A n \in Segs, d \in DBs :
        d \in Served \cap ready /\ d \notin cached[n] ~>
            \/ d \in cached[n] \/ d \notin Served \cap ready
            \/ d \in paused[Coord]

\* A database shown as UNREADY does not stay so once its state is ready,
\* unless a stopped worker has written through the slot it had.
UnreadyEnds ==
    \A d \in DBs :
        d \in ready \cap cached[Coord] /\ status[d] = "UNREADY" ~>
            \/ status[d] # "UNREADY"
            \/ d \notin ready \cap cached[Coord]
            \/ d \in smudged
=============================================================================
