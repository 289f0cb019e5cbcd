------------------------------ MODULE RejectMap ------------------------------
(***************************************************************************)
(* The reject maps of one database: the one of the coordinator, by target  *)
(* (soft limit), which the worker writes, and the ones of the segments, by *)
(* file (hard limit), which refresh_rejectmap in src/src/quotamodel.c      *)
(* makes anew from each dispatch of the worker.                            *)
(*                                                                         *)
(* A segment replaces its whole map, but only blocks the tables that were  *)
(* active in the round.  A blocked session reports its table as active     *)
(* before it is refused, and this is what keeps the table blocked, and     *)
(* what sets it free when its quota is no longer exceeded.                 *)
(***************************************************************************)
EXTENDS Integers, FiniteSets

CONSTANTS
    Tables,         \* tables, each with one auxiliary relation (toast)
    Segs,           \* segments
    Roles,          \* owners
    MaxVer,         \* bound: rewrites of a table's files
    MaxToggles,     \* bound: changes of what is exceeded, owned or enabled
    MaxFaults       \* bound: failed dispatches and ends of the worker

Schema == "schema"      \* the schema of all the tables
Parts  == {"main", "aux"}
Keys   == {Schema} \cup Roles

ASSUME RejectAssumption ==
    /\ {MaxVer, MaxToggles, MaxFaults} \subseteq Nat
    /\ Schema \notin Roles

VARIABLES
    \* pg_class: state, owner and version of the files of each table
    state, owner, ver,
    uncommitted,    \* per segment, the relations in relation_cache
    over,           \* targets whose usage exceeds their quota
    hardlimit,      \* diskquota_hardlimit
    reported,       \* per segment, the tables in the active table map
    \* disk_quota_reject_map: targets on the coordinator, files on a segment
    rejected, blocked,
    \* the worker: control point, is_init, got_sigterm, what it has collected
    wpc, init, stop, active, changed,
    \* refresh_rejectmap on each segment: the targets and the tables it was
    \* given, and local_rejectmap
    call,
    ext, swept,     \* DROP EXTENSION: how far it has come, on which segments
    toggles, faults,
    \* history: segments whose map answers to the last change of rejected,
    \* tables whose owner changed since; did a round end after DROP?
    synced, moved, late

catVars    == <<state, owner, ver, uncommitted>>
mapVars    == <<rejected, blocked>>
workerVars == <<wpc, init, stop, active, changed>>
history    == <<synced, moved, late>>
dropVars   == <<ext, swept>>
vars       == <<catVars, over, hardlimit, reported, mapVars, workerVars, call,
                dropVars, toggles, faults, history>>

NoCall == [on |-> FALSE, rows |-> {}, todo |-> {}, files |-> {}]

\* the files of a table and of its auxiliary relation
Files(t, v) == {<<t, p, v>> : p \in Parts}

\* the keys prepare_rejectmap_search_key makes for a table
SearchKeys(t) == {Schema, owner[t]}

Init ==
    /\ state = [t \in Tables |-> "none"]
    /\ owner \in [Tables -> Roles]
    /\ ver   = [t \in Tables |-> 0]
    /\ uncommitted = [n \in Segs |-> {}]
    /\ over = {} /\ hardlimit = TRUE
    /\ reported = [n \in Segs |-> {}]
    /\ rejected = {}
    /\ blocked  = [n \in Segs |-> {}]
    /\ wpc = "top" /\ init = TRUE /\ stop = FALSE
    /\ active = {} /\ changed = FALSE
    /\ call = [n \in Segs |-> NoCall]
    /\ ext = "installed" /\ swept = {}
    /\ toggles = 0 /\ faults = 0
    /\ synced = Segs /\ moved = {} /\ late = FALSE

-----------------------------------------------------------------------------
(* Sessions.                                                               *)

Report(t) == reported' = [n \in Segs |-> reported[n] \cup {t}]

\* CREATE TABLE, in a transaction that stays open: update_relation_cache
\* enters the table and its auxiliary relation, the hook on file creation
\* reports it
CreateTable(t) ==
    /\ state[t] = "none" /\ ver[t] < MaxVer
    /\ state' = [state EXCEPT ![t] = "open"]
    /\ ver'   = [ver EXCEPT ![t] = @ + 1]
    /\ uncommitted' = [n \in Segs |-> uncommitted[n] \cup ({t} \X Parts)]
    /\ Report(t)
    /\ UNCHANGED <<owner, over, hardlimit, mapVars, workerVars, call,
                   dropVars, toggles, faults, history>>

Commit(t) ==
    /\ state[t] = "open"
    /\ state' = [state EXCEPT ![t] = "live"]
    /\ UNCHANGED <<owner, ver, uncommitted, over, hardlimit, reported,
                   mapVars, workerVars, call, dropVars, toggles, faults, history>>

\* The transaction aborts, or a committed table is dropped: the files go one
\* by one, and the hook on unlink removes each from the relation cache.
Abandon(t) ==
    /\ state[t] \in {"open", "live"}
    /\ state' = [state EXCEPT ![t] = "gone"]
    /\ UNCHANGED <<owner, ver, uncommitted, over, hardlimit, reported,
                   mapVars, workerVars, call, dropVars, toggles, faults, history>>

Unlink(n, t, p) ==
    /\ state[t] = "gone"
    /\ <<t, p>> \in uncommitted[n] \/ (p = "main" /\ t \in reported[n])
    /\ uncommitted' = [uncommitted EXCEPT ![n] = @ \ {<<t, p>>}]
    /\ reported'    = IF p = "main"
                      THEN [reported EXCEPT ![n] = @ \ {t}] ELSE reported
    /\ UNCHANGED <<state, owner, ver, over, hardlimit, mapVars, workerVars,
                   call, dropVars, toggles, faults, history>>

\* TRUNCATE and the like give a table new files
Rewrite(t) ==
    /\ state[t] = "live" /\ ver[t] < MaxVer
    /\ ver' = [ver EXCEPT ![t] = @ + 1]
    /\ Report(t)
    /\ UNCHANGED <<state, owner, uncommitted, over, hardlimit, mapVars,
                   workerVars, call, dropVars, toggles, faults, history>>

\* check_rejectmap_by_relfilenode
Refused(n, t, p) == hardlimit /\ <<t, p, ver[t]>> \in blocked[n]

\* mutant: a session that is refused does not report its table
ExtendCheckedFirst(n, t) ==
    /\ state[t] \in {"open", "live"} /\ ~Refused(n, t, "main")
    /\ reported' = [reported EXCEPT ![n] = @ \cup {t}]
    /\ UNCHANGED <<catVars, over, hardlimit, mapVars, workerVars, call,
                   dropVars, toggles, faults, history>>

\* active_table_hook_smgrextend: first the report, then quota_check_common,
\* which refuses (and changes nothing more) if the file is blocked
Extend(n, t) ==
    /\ state[t] \in {"open", "live"}
    /\ reported' = [reported EXCEPT ![n] = @ \cup {t}]
    /\ UNCHANGED <<catVars, over, hardlimit, mapVars, workerVars, call,
                   dropVars, toggles, faults, history>>

ChangeOver(k) ==
    /\ toggles < MaxToggles
    /\ toggles' = toggles + 1
    /\ over' = IF k \in over THEN over \ {k} ELSE over \cup {k}
    /\ UNCHANGED <<catVars, hardlimit, reported, mapVars, workerVars, call,
                   dropVars, faults, history>>

ChangeOwner(t, r) ==
    /\ state[t] = "live" /\ r # owner[t]
    /\ toggles < MaxToggles
    /\ toggles' = toggles + 1
    /\ owner' = [owner EXCEPT ![t] = r]
    /\ moved' = moved \cup {t}
    /\ UNCHANGED <<state, ver, uncommitted, over, hardlimit, reported,
                   mapVars, workerVars, call, dropVars, faults, synced, late>>

\* diskquota.hard_limit is changed and the configuration is loaded again
ChangeHardLimit ==
    /\ toggles < MaxToggles
    /\ toggles' = toggles + 1
    /\ hardlimit' = ~hardlimit
    /\ UNCHANGED <<catVars, over, reported, mapVars, workerVars, call,
                   dropVars, faults, history>>

-----------------------------------------------------------------------------
(* The worker: refresh_disk_quota_usage.                                   *)

\* the tables a segment finds for the files of its active table map
Resolved(n) == {t \in reported[n] : \/ state[t] = "live"
                                     \/ <<t, "main">> \in uncommitted[n]}

\* gp_fetch_active_tables.  The segments forget what they have handed over;
\* a failure of one of them ends the round with that lost.  The first round
\* loads the tables from diskquota.table_size instead.
Collect ==
    /\ wpc = "top" /\ ~stop
    /\ IF init
       THEN /\ active' = {t \in Tables : state[t] = "live"}
            /\ wpc' = "flush"
            /\ UNCHANGED <<reported, uncommitted, faults>>
       ELSE \E ns \in SUBSET Segs :
              /\ ns = Segs \/ faults < MaxFaults
              /\ faults'   = IF ns = Segs THEN faults ELSE faults + 1
              /\ active'   = IF ns = Segs THEN UNION {Resolved(n) : n \in Segs}
                             ELSE {}
              /\ wpc'      = IF ns = Segs THEN "flush" ELSE "top"
              /\ reported' = [n \in Segs |->
                    IF n \in ns THEN reported[n] \ Resolved(n) ELSE reported[n]]
              /\ uncommitted' = [n \in Segs |->
                    IF n \in ns
                    THEN {e \in uncommitted[n] :
                            state[e[1]] # "live" \/ e[1] \notin Resolved(n)}
                    ELSE uncommitted[n]]
    /\ UNCHANGED <<state, owner, ver, over, hardlimit, mapVars, init, stop,
                   changed, call, dropVars, toggles, history>>

\* what comes before, which finds the exceeded targets, is the module
\* QuotaModel; flush_local_reject_map puts them into the shared map
Flush ==
    /\ wpc = "flush"
    /\ rejected' = over
    /\ changed'  = (rejected # over)
    /\ wpc'      = "dispatch"
    /\ late'     = (late \/ stop)
    /\ UNCHANGED <<catVars, over, hardlimit, reported, blocked, init, stop,
                   active, call, dropVars, toggles, faults, synced, moved>>

\* an error on the way there is caught; the round is over
RoundFails ==
    /\ wpc = "flush" /\ faults < MaxFaults
    /\ faults' = faults + 1
    /\ wpc' = "top" /\ init' = FALSE /\ active' = {}
    /\ UNCHANGED <<catVars, over, hardlimit, reported, mapVars, stop, changed,
                   call, dropVars, toggles, history>>

\* mutant: a table that was active is not a reason to dispatch
MustDispatchChanged == init \/ (hardlimit /\ changed)

\* mutant: only the tables that were active are
MustDispatchActive == init \/ (hardlimit /\ active # {})

MustDispatch == init \/ (hardlimit /\ (changed \/ active # {}))

\* dispatch_rejectmap; after the commit of DROP EXTENSION the function it
\* calls does not exist
Dispatch ==
    /\ wpc = "dispatch"
    /\ IF MustDispatch /\ ext # "dropped"
       THEN /\ call' = [n \in Segs |-> [on |-> TRUE, rows |-> rejected,
                                        todo |-> active, files |-> {}]]
            /\ synced' = {} /\ moved' = {}
            /\ wpc' = "wait"
       ELSE /\ synced' = IF changed /\ ~hardlimit THEN {} ELSE synced
            /\ wpc' = "top"
            /\ UNCHANGED <<call, moved>>
    /\ init' = FALSE
    /\ active' = {} /\ changed' = FALSE
    /\ UNCHANGED <<catVars, over, hardlimit, reported, mapVars, stop,
                   dropVars, toggles, faults, late>>

EndRound ==
    /\ wpc = "wait" /\ \A n \in Segs : ~call[n].on
    /\ wpc' = "top"
    /\ UNCHANGED <<catVars, over, hardlimit, reported, mapVars, init, stop,
                   active, changed, call, dropVars, toggles, faults, history>>

Exit ==
    /\ wpc = "top" /\ stop
    /\ wpc' = "exited"
    /\ UNCHANGED <<catVars, over, hardlimit, reported, mapVars, init, stop,
                   active, changed, call, dropVars, toggles, faults, history>>

-----------------------------------------------------------------------------
(* A segment: refresh_rejectmap.                                           *)

\* mutant: the auxiliary relation of a committed table is left out
BlockedFilesOfMain(n, t, rows) ==
    IF SearchKeys(t) \cap rows = {} THEN {}
    ELSE IF state[t] = "live" THEN {<<t, "main", ver[t]>>}
    ELSE {<<t, p, ver[t]>> : p \in {q \in Parts : <<t, q>> \in uncommitted[n]}}

\* The files of an active table, if one of its keys is among the rows.  A
\* table that the catalog does not show is looked for in relation_cache.
BlockedFiles(n, t, rows) ==
    IF SearchKeys(t) \cap rows = {} THEN {}
    ELSE IF state[t] = "live" THEN Files(t, ver[t])
    ELSE IF <<t, "main">> \notin uncommitted[n] THEN {}
    ELSE {<<t, p, ver[t]>> : p \in {q \in Parts : <<t, q>> \in uncommitted[n]}}

\* The loop over the kinds of quota does not stop at the first match for an
\* uncommitted table.  A second match uses the entry found last, which is
\* NULL when the auxiliary relation has gone.
NullEntry(n, t, rows) ==
    /\ state[t] # "live"
    /\ <<t, "main">> \in uncommitted[n] /\ <<t, "aux">> \notin uncommitted[n]
    /\ Cardinality(SearchKeys(t) \cap rows) > 1

Expand(n, t) ==
    /\ call[n].on /\ t \in call[n].todo
    /\ ~NullEntry(n, t, call[n].rows)
    /\ call' = [call EXCEPT ![n].todo = @ \ {t},
                            ![n].files = @ \cup BlockedFiles(n, t, call[n].rows)]
    /\ UNCHANGED <<catVars, over, hardlimit, reported, mapVars, workerVars,
                   dropVars, toggles, faults, history>>

\* the entries of this database are removed and the new ones put in
Replace(n) ==
    /\ call[n].on /\ call[n].todo = {}
    /\ blocked' = [blocked EXCEPT ![n] = call[n].files]
    /\ call'    = [call EXCEPT ![n] = NoCall]
    /\ synced'  = synced \cup {n}
    /\ late'    = (late \/ n \in swept)
    /\ UNCHANGED <<catVars, over, hardlimit, reported, rejected, workerVars,
                   dropVars, toggles, faults, moved>>

\* the query on a segment fails, which ends the round once the others answer
CallFails(n) ==
    /\ call[n].on /\ faults < MaxFaults
    /\ faults' = faults + 1
    /\ call'   = [call EXCEPT ![n] = NoCall]
    /\ UNCHANGED <<catVars, over, hardlimit, reported, mapVars, workerVars,
                   dropVars, toggles, history>>

\* A segment goes down, for any reason or by the NULL entry, and comes back
\* with empty shared memory; the transactions open there are aborted.
SegmentReset(n) ==
    /\ \/ /\ faults < MaxFaults
          /\ faults' = faults + 1
       \/ /\ \E t \in call[n].todo : NullEntry(n, t, call[n].rows)
          /\ UNCHANGED faults
    /\ state' = [t \in Tables |-> IF state[t] = "open" THEN "gone" ELSE state[t]]
    /\ uncommitted' = [uncommitted EXCEPT ![n] = {}]
    /\ reported'    = [reported EXCEPT ![n] = {}]
    /\ blocked'     = [blocked EXCEPT ![n] = {}]
    /\ call'        = [call EXCEPT ![n] = NoCall]
    /\ UNCHANGED <<owner, ver, over, hardlimit, rejected, workerVars, dropVars,
                   toggles, history>>

-----------------------------------------------------------------------------
(* DROP EXTENSION: the hook on the coordinator clears the map and asks the *)
(* launcher, which stops the worker, without waiting for its end, and      *)
(* clears the map again; then the statement, and its hook, run on the      *)
(* segments.                                                               *)

\* mutant: only entries by target are recognised as the database's
InvalidatedTargets(files) == files

\* invalidate_database_rejectmap on a segment
Invalidated(files) == {}

DropAsks ==
    /\ ext = "installed"
    /\ ext' = "asked"
    /\ rejected' = {}
    /\ UNCHANGED <<catVars, over, hardlimit, reported, blocked, workerVars, call,
                   swept, toggles, faults, history>>

LauncherStops ==
    /\ ext = "asked"
    /\ ext' = "stopped"
    /\ stop' = TRUE
    /\ rejected' = {}
    /\ UNCHANGED <<catVars, over, hardlimit, reported, blocked, wpc, init,
                   active, changed, call, swept, toggles, faults, history>>

InvalidateSeg(n) ==
    /\ ext = "stopped" /\ n \notin swept
    /\ swept'   = swept \cup {n}
    /\ blocked' = [blocked EXCEPT ![n] = Invalidated(@)]
    /\ UNCHANGED <<catVars, over, hardlimit, reported, rejected, workerVars,
                   call, ext, toggles, faults, history>>

DropCommits ==
    /\ ext = "stopped" /\ swept = Segs
    /\ ext' = "dropped"
    /\ UNCHANGED <<catVars, over, hardlimit, reported, mapVars, workerVars,
                   call, swept, toggles, faults, history>>

WorkerStep  == Collect \/ Flush \/ RoundFails \/ Dispatch \/ EndRound \/ Exit
SegStep(n)  == Replace(n) \/ \E t \in Tables : Expand(n, t)
SegFault(n) == CallFails(n) \/ SegmentReset(n)
DropStep    == \/ DropAsks \/ LauncherStops \/ DropCommits
               \/ \E n \in Segs : InvalidateSeg(n)

TableStep(t) ==
    \/ CreateTable(t) \/ Commit(t) \/ Abandon(t) \/ Rewrite(t)
    \/ \E n \in Segs, p \in Parts : Unlink(n, t, p)
    \/ \E r \in Roles : ChangeOwner(t, r)

Next ==
    \/ \E t \in Tables : TableStep(t) \/ \E n \in Segs : Extend(n, t)
    \/ \E k \in Keys : ChangeOver(k)
    \/ ChangeHardLimit
    \/ WorkerStep
    \/ \E n \in Segs : SegStep(n) \/ SegFault(n)
    \/ DropStep

Spec == Init /\ [][Next]_vars

\* The worker and the queries it sends run.  Every table has a session that
\* keeps trying to extend it on every segment: the liveness properties say
\* what becomes of such a session.
Fairness ==
    /\ WF_vars(WorkerStep)
    /\ \A n \in Segs : WF_vars(SegStep(n) \/ SegmentReset(n))
    /\ \A n \in Segs, t \in Tables : WF_vars(Extend(n, t))

FairSpec == Spec /\ Fairness

-----------------------------------------------------------------------------
\* The shapes of the catalog, the maps, the worker and the calls.
TypeOK ==
    /\ state \in [Tables -> {"none", "open", "live", "gone"}]
    /\ owner \in [Tables -> Roles]
    /\ ver \in [Tables -> 0..MaxVer]
    /\ uncommitted \in [Segs -> SUBSET (Tables \X Parts)]
    /\ over \cup rejected \subseteq Keys
    /\ hardlimit \in BOOLEAN
    /\ reported \in [Segs -> SUBSET Tables]
    /\ \A n \in Segs : blocked[n] \subseteq Tables \X Parts \X (1..MaxVer)
    /\ wpc \in {"top", "flush", "dispatch", "wait", "exited"}
    /\ init \in BOOLEAN /\ stop \in BOOLEAN /\ changed \in BOOLEAN
    /\ active \subseteq Tables
    /\ \A n \in Segs : call[n].todo \subseteq Tables /\ call[n].rows \subseteq Keys
    /\ ext \in {"installed", "asked", "stopped", "dropped"}

\* A table is blocked as a whole: a session that may not write to the table
\* may not write to its auxiliary relation either, and the other way round,
\* also when the table was still uncommitted when refresh_rejectmap looked at
\* it and when it has got new files since.
BlockedAsAWhole ==
    \A n \in Segs, t \in Tables :
        state[t] \in {"open", "live"} =>
            (Refused(n, t, "main") <=> Refused(n, t, "aux"))

\* Between rounds, a segment that has answered the last dispatch blocks only
\* tables of which a target is in the coordinator's map, unless the table
\* has got another owner since: what a change of the map set free is free on
\* the segments too, though they are told nothing of single entries.
BlockedOnlyIfRejected ==
    \A n \in synced, t \in Tables \ moved :
        /\ wpc = "top" /\ ext = "installed"
        /\ state[t] = "live" /\ Refused(n, t, "main")
        => SearchKeys(t) \cap rejected # {}

\* DROP EXTENSION leaves nothing in the maps, on any node, unless the worker
\* was in a round when it was told to stop and wrote to them once more.
DropSweepsMaps ==
    ext = "dropped" /\ wpc = "exited" /\ ~late =>
        rejected = {} /\ \A n \in Segs : blocked[n] = {}

Enforced(t) == state[t] = "live" /\ hardlimit /\ ext = "installed"

\* The hard limit bites: a session that keeps extending a table with an
\* exceeded target is refused at last, whatever rounds and dispatches fail.
ExcessIsBlocked ==
    \A n \in Segs, t \in Tables :
        Enforced(t) /\ SearchKeys(t) \cap over # {} ~>
            \/ Refused(n, t, "main")
            \/ ~(Enforced(t) /\ SearchKeys(t) \cap over # {})

\* A session refused by a stale entry, left by a failed dispatch or by a time
\* with the hard limit off, is not refused for ever.
RefusalEnds ==
    \A n \in Segs, t \in Tables :
        Enforced(t) /\ SearchKeys(t) \cap over = {} /\ Refused(n, t, "main") ~>
            \/ ~Refused(n, t, "main")
            \/ ~(Enforced(t) /\ SearchKeys(t) \cap over = {})
=============================================================================
