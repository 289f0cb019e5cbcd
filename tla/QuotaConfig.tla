----------------------------- MODULE QuotaConfig -----------------------------
(***************************************************************************)
(* The configuration tables diskquota.quota_config and diskquota.target of *)
(* one database: the functions that set quotas (src/src/diskquota_         *)
(* utility.c), called by sessions at the same time, and the worker that    *)
(* loads them each round and deletes what belongs to dropped objects       *)
(* (src/src/quotamodel.c).                                                 *)
(*                                                                         *)
(* A call is a transaction of several statements.  The SELECTs of these    *)
(* functions are run read only, so they see the tables as they were when   *)
(* the call began; a statement that writes or locks takes its table lock   *)
(* first and then sees what has been committed meanwhile.  So a call may   *)
(* act on a row that is no longer there, or miss one that is there now.    *)
(*                                                                         *)
(* The server (locks, snapshots, unique keys) is modelled from this use:   *)
(* INSERT takes ROW EXCLUSIVE, UPDATE and DELETE take EXCLUSIVE, as the    *)
(* comment in set_per_segment_quota has it, and FOR SHARE takes ROW SHARE. *)
(***************************************************************************)
EXTENDS Integers, FiniteSets

CONSTANTS
    Primaries,      \* schemas and roles
    Spaces,         \* tablespaces
    Sessions,       \* sessions that call the functions
    Worker,         \* the bgworker of the database
    Limits,         \* limits in MB
    Ratios,         \* per segment ratios
    MaxCalls,       \* bound: calls, and so values of the serial rowId
    MaxEvents       \* bound: dropped objects, calls and loads that fail

ASSUME ConfigAssumption ==
    /\ Limits \subseteq Nat \ {0} /\ Ratios \subseteq Nat \ {0}
    /\ {MaxCalls, MaxEvents} \subseteq Nat
    /\ Worker \notin Sessions
    /\ Limits # {}

Objects == Primaries \cup Spaces
Pairs   == Primaries \X Spaces
Quotas  == Objects \cup Pairs       \* what a call may set: the ratio, if in Spaces
Ids     == 1 .. MaxCalls + 1
Keys    == Objects \cup Ids         \* targetOid in quota_config
Procs   == Sessions \cup {Worker}
Pcs     == {"idle", "lock", "insertT", "deleteT", "share", "insertC", "updateC", "deleteC",
            "spread", "commit", "cleanT", "cleanC"}

Delete  == -1       \* the value that asks to delete
None    == 0        \* INVALID_SEGRATIO, INVALID_QUOTA, no row id
NoRow   == [limit |-> None, ratio |-> None]
Empty   == [k \in {} |-> None]
Rows    == [limit : Limits \cup {None}, ratio : Ratios \cup {None}]

\* the kinds of keys and quotas are told apart (quotatype)
ASSUME KindsAssumption ==
    /\ Primaries \cap Spaces = {}
    /\ Objects \cap Pairs = {}
    /\ Objects \cap ({None} \cup Ids) = {}

VARIABLES
    alive,          \* the objects in the catalogs
    target,         \* rowId of each pair, None if it has no row
    config,         \* the row of each key, NoRow if it has none
    nextId,         \* the sequence of rowId
    limits,         \* the limits and ratios the worker has loaded
    tx,             \* the open transaction of each process
    calls, events,
    \* history: the values a quota may have after the calls that committed;
    \* tablespaces whose last ratio overlapped another one; an empty result
    \* was read (undefined behaviour)
    last, crossed, wild

tables  == <<target, config>>
history == <<last, crossed, wild>>
vars    == <<alive, tables, nextId, limits, tx, calls, events, history>>

Idle == [pc |-> "idle", q |-> None, v |-> None, id |-> None, ratio |-> None,
         snapC |-> Empty, held |-> {},
         newT |-> Empty, newC |-> Empty, others |-> {}]

Init ==
    /\ alive  = Objects
    \* an earlier call may have set the quota of a pair
    /\ \E first \in {{}} \cup {{q} : q \in Pairs} : LET l == CHOOSE l \in Limits : TRUE IN
         /\ target = [q \in Pairs |-> IF q \in first THEN 1 ELSE None]
         /\ config = [k \in Keys |-> IF k = 1 /\ first # {}
                                    THEN [limit |-> l, ratio |-> None] ELSE NoRow]
         /\ last = [q \in Quotas |-> IF q \in first THEN {l} ELSE {None}]
    /\ nextId = 2
    /\ limits = [q \in Quotas |-> NoRow]
    /\ tx = [s \in Procs |-> Idle]
    /\ calls = 0 /\ events = 0
    /\ crossed = {} /\ wild = FALSE

-----------------------------------------------------------------------------
(* The server: table locks, what a statement sees, the end of a call. *)

\* the table lock each statement takes
LockOf == [lock    |-> <<"config", "Exclusive">>,
           insertT |-> <<"target", "RowExclusive">>,
           deleteT |-> <<"target", "Exclusive">>,
           cleanT  |-> <<"target", "Exclusive">>,
           share   |-> <<"config", "RowShare">>,
           insertC |-> <<"config", "RowExclusive">>,
           updateC |-> <<"config", "Exclusive">>,
           deleteC |-> <<"config", "Exclusive">>,
           spread  |-> <<"config", "Exclusive">>,
           cleanC  |-> <<"config", "Exclusive">>]

Conflict(l, m) == l[1] = m[1] /\ "Exclusive" \in {l[2], m[2]}

\* s is granted the lock of its next statement
Acquire(s) ==
    LET t == tx[s]
        l == LockOf[t.pc]
    IN  /\ t.pc \in DOMAIN LockOf
        /\ l \notin t.held
        /\ \A u \in Procs \ {s} : \A m \in tx[u].held : ~Conflict(l, m)
        /\ tx' = [tx EXCEPT ![s].held = @ \cup {l}]
        /\ UNCHANGED <<alive, tables, nextId, limits, calls, events, history>>

\* s may run statement pc
At(s, pc) == tx[s].pc = pc /\ LockOf[pc] \in tx[s].held

\* the changes f over the table g; one row
Over(f, g) == [x \in DOMAIN f \cup DOMAIN g |-> IF x \in DOMAIN f THEN f[x] ELSE g[x]]
One(k, r)  == [x \in {k} |-> r]

\* what a statement of s that is not read only sees
FreshT(s) == Over(tx[s].newT, target)
FreshC(s) == Over(tx[s].newC, config)

\* no other open transaction has a row with this key: else s waits for its end
NoRivalT(s, q) == \A u \in Procs \ {s} : q \notin DOMAIN tx[u].newT
NoRivalC(s, k) == \A u \in Procs \ {s} : k \notin DOMAIN tx[u].newC

Only(t) == tx' = t /\ UNCHANGED <<alive, tables, nextId, limits, calls, events,
                                  history>>

\* transaction t goes on with statement pc; before the commit it forgets what
\* it needs no more
Goto(t, pc) ==
    IF pc = "commit"
    THEN [t EXCEPT !.pc = pc, !.id = None, !.ratio = None, !.snapC = Empty]
    ELSE [t EXCEPT !.pc = pc]

\* the transaction of s is rolled back
RollBack(s) == Only([tx EXCEPT ![s] = Idle])

-----------------------------------------------------------------------------
(* The functions that set a quota, statement by statement. *)

IsPair(q) == q \notin Objects
PartsOf(q) == IF IsPair(q) THEN {q[1], q[2]} ELSE {q}

\* to_delete_quota
ToDelete(v) == v < 0

\* the statement after those of set_quota_config_internal
AfterConfig(q) == IF q \in Spaces THEN "spread" ELSE "commit"

\* set_quota_config_internal: what to do with the row of key k, by the tables
\* as they were when the call began
ConfigPc(q, v, k, snapC) ==
    LET found == k # None /\ snapC[k] # NoRow
    IN  CASE ToDelete(v) /\ found      -> "deleteC"
          [] ToDelete(v) /\ ~found     -> AfterConfig(q)
          [] ~ToDelete(v) /\ found     -> "updateC"
          [] ~ToDelete(v) /\ ~found    -> IF IsPair(q) THEN "share" ELSE "insertC"

\* set_target_internal: the row id of a pair, by the join with quota_config
SelectTarget(q) ==
    IF target[q] # None /\ config[target[q]] # NoRow THEN target[q] ELSE None

\* a session calls set_role_quota or set_schema_quota (q is a primary),
\* set_role_tablespace_quota or set_schema_tablespace_quota (q is a pair),
\* or set_per_segment_quota (q is a tablespace)
Call(s, q, v) ==
    LET id == IF IsPair(q) THEN SelectTarget(q) ELSE None
        pc == CASE q \in Spaces                           -> "lock"
                [] q \in Primaries                        -> ConfigPc(q, v, q, config)
                [] IsPair(q) /\ id = None /\ ~ToDelete(v) -> "insertT"
                [] IsPair(q) /\ id # None /\ ToDelete(v)  -> "deleteT"
                [] OTHER                                  -> ConfigPc(q, v, id, config)
    IN  /\ tx[s].pc = "idle"
        /\ PartsOf(q) \subseteq alive
        /\ calls < MaxCalls
        /\ calls' = calls + 1
        /\ tx' = [tx EXCEPT ![s] = Goto([Idle EXCEPT !.q = q, !.v = v, !.id = id,
                                                     !.snapC = config], pc)]
        /\ UNCHANGED <<alive, tables, nextId, limits, events, history>>

\* set_target_internal, a pair without a quota: INSERT ... RETURNING rowId
InsertTarget(s) ==
    LET t == tx[s] IN
    /\ At(s, "insertT")
    /\ NoRivalT(s, t.q)
    /\ nextId' = nextId + 1
    /\ tx' = [tx EXCEPT ![s] =
                IF FreshT(s)[t.q] # None
                THEN Idle                               \* unique violation
                ELSE Goto([t EXCEPT !.newT = One(t.q, nextId), !.id = nextId],
                          ConfigPc(t.q, t.v, nextId, t.snapC))]
    /\ UNCHANGED <<alive, tables, limits, calls, events, history>>

\* mutant: the row stays
DeleteTargetKept(s) ==
    LET t  == tx[s]
        id == FreshT(s)[t.q]
    IN  /\ At(s, "deleteT")
        /\ id # None
        /\ Only([tx EXCEPT ![s] = Goto([t EXCEPT !.id = id], ConfigPc(t.q, t.v, id, t.snapC))])

\* set_target_internal, deletion: DELETE ... RETURNING rowId
DeleteTarget(s) ==
    LET t  == tx[s]
        id == FreshT(s)[t.q]
    IN  /\ At(s, "deleteT")
        /\ id # None
        /\ Only([tx EXCEPT ![s] = Goto([t EXCEPT !.newT = One(t.q, None), !.id = id],
                                       ConfigPc(t.q, t.v, id, t.snapC))])

\* the same when another call has deleted the row: vals[0] of an empty result
\* is read, which may give any row id or end the server's processes
DeleteNothing(s) ==
    LET t == tx[s] IN
    /\ At(s, "deleteT")
    /\ FreshT(s)[t.q] = None
    /\ wild' = TRUE
    /\ \/ /\ \E id \in {None} \cup Ids :
               tx' = [tx EXCEPT ![s] = Goto([t EXCEPT !.id = id],
                                            ConfigPc(t.q, t.v, id, t.snapC))]
          /\ UNCHANGED limits
       \/ /\ tx' = [u \in Procs |-> Idle]
          /\ limits' = [q \in Quotas |-> NoRow]
    /\ UNCHANGED <<alive, tables, nextId, calls, events, last, crossed>>

\* the key of the row of quota_config that a call sets
KeyOf(t) == IF IsPair(t.q) THEN t.id ELSE t.q

Put(s, row, pc) ==
    LET t == tx[s]
    IN  Only([tx EXCEPT ![s] = Goto([t EXCEPT !.newC = Over(One(KeyOf(t), row), t.newC)], pc)])

\* mutant: the ratio as it was when the call began
RatioOfCall(s, x) == tx[s].snapC[x].ratio

\* the ratio of a tablespace, None if it has no row
RatioOf(s, x) == FreshC(s)[x].ratio

\* get_per_segment_ratio: SELECT ... FOR SHARE
GetRatio(s) ==
    /\ At(s, "share")
    /\ Only([tx EXCEPT ![s].ratio = RatioOf(s, tx[s].q[2]), ![s].pc = "insertC"])

\* set_quota_config_internal: INSERT, a unique violation if the row is there
InsertConfig(s) ==
    LET t == tx[s] IN
    /\ At(s, "insertC")
    /\ NoRivalC(s, KeyOf(t))
    /\ IF FreshC(s)[KeyOf(t)] # NoRow
       THEN RollBack(s)
       ELSE Put(s, IF t.q \in Spaces THEN [limit |-> None, ratio |-> t.v]
                                     ELSE [limit |-> t.v, ratio |-> t.ratio],
                AfterConfig(t.q))

\* mutant: the limit is not among the columns that are set
UpdatedRatioOnly(t, row) ==
    IF t.q \in Spaces THEN [limit |-> None, ratio |-> t.v] ELSE row

\* the columns UPDATE sets: the ratio for a tablespace, else the limit only
Updated(t, row) ==
    IF t.q \in Spaces THEN [limit |-> None, ratio |-> t.v] ELSE [row EXCEPT !.limit = t.v]

\* set_quota_config_internal: UPDATE, of no row if it is gone
UpdateConfig(s) ==
    LET t   == tx[s]
        row == FreshC(s)[KeyOf(t)]
    IN  /\ At(s, "updateC")
        /\ IF row = NoRow
           THEN Only([tx EXCEPT ![s] = Goto(t, AfterConfig(t.q))])
           ELSE Put(s, Updated(t, row), AfterConfig(t.q))

\* set_quota_config_internal: DELETE
DeleteConfig(s) ==
    /\ At(s, "deleteC")
    /\ Put(s, NoRow, AfterConfig(tx[s].q))

\* mutant: the lock is left to the statements that follow
LockTableLate(s) ==
    LET t == tx[s] IN
    /\ t.pc = "lock"
    /\ Only([tx EXCEPT ![s].pc = ConfigPc(t.q, t.v, t.q, t.snapC)])

\* set_per_segment_quota: LOCK TABLE ... IN EXCLUSIVE MODE
LockTable(s) ==
    LET t == tx[s] IN
    /\ At(s, "lock")
    /\ Only([tx EXCEPT ![s].pc = ConfigPc(t.q, t.v, t.q, t.snapC)])

\* the ratio set_per_segment_quota writes into the rows of the tablespace
SpreadRatio(v) == IF ToDelete(v) THEN None ELSE v

\* set_per_segment_quota: UPDATE of the quotas of the tablespace
Spread(s) ==
    LET t    == tx[s]
        cur  == FreshC(s)
        rows == {i \in Ids : /\ cur[i] # NoRow
                             /\ \E p \in Primaries : FreshT(s)[<<p, t.q>>] = i}
    IN  /\ At(s, "spread")
        /\ Only([tx EXCEPT ![s] =
                Goto([t EXCEPT !.newC = Over([i \in rows |-> [cur[i] EXCEPT !.ratio = SpreadRatio(t.v)]],
                                             @)], "commit")])

\* the transaction of the call ends
Commit(s) ==
    LET t  == tx[s]
        vs == {IF ToDelete(t.v) THEN None ELSE t.v} \cup t.others
    IN  /\ t.pc = "commit"
        /\ target' = FreshT(s) /\ config' = FreshC(s)
        /\ last' = [last EXCEPT ![t.q] = vs]
        /\ crossed' = IF t.q \notin Spaces THEN crossed
                      ELSE IF t.others = {} THEN crossed \ {t.q} ELSE crossed \cup {t.q}
        /\ tx' = [u \in Procs |-> IF u = s THEN Idle
                                  ELSE IF u # Worker /\ tx[u].pc # "idle" /\ tx[u].q = t.q
                                  THEN [tx[u] EXCEPT !.others = vs] ELSE tx[u]]
        /\ UNCHANGED <<alive, nextId, limits, calls, events, wild>>

Statement(s) ==
    \/ InsertTarget(s) \/ DeleteTarget(s) \/ DeleteNothing(s)
    \/ LockTable(s) \/ GetRatio(s) \/ InsertConfig(s) \/ UpdateConfig(s) \/ DeleteConfig(s)
    \/ Spread(s) \/ Commit(s)

-----------------------------------------------------------------------------
(* The worker: load_quotas. *)

\* the row of each quota in the join, NoRow if it has none
RowOf(q) ==
    IF ~IsPair(q) THEN config[q]
    ELSE IF target[q] = None THEN NoRow ELSE config[target[q]]

\* mutant: a missing tablespace does not ask for cleaning
StaleIfPrimaryGone(k) ==
    IF k \in Objects THEN k \notin alive
    ELSE \A q \in Pairs : target[q] = k => q[1] \notin alive

\* a row of quota_config that belongs to no object: it asks for cleaning
Stale(k) ==
    IF k \in Objects THEN k \notin alive
    ELSE \A q \in Pairs : target[q] = k => ~(PartsOf(q) \subseteq alive)

\* do_load_quotas: clean_all_quota_limit, then the rows of living objects; if
\* there is nothing to delete the transaction ends
Load ==
    /\ tx[Worker].pc = "idle"
    /\ limits' = [q \in Quotas |-> IF PartsOf(q) \subseteq alive
                                   THEN RowOf(q) ELSE NoRow]
    /\ tx' = [tx EXCEPT ![Worker].pc =
                IF \E k \in Keys : config[k] # NoRow /\ Stale(k)
                THEN "cleanT" ELSE "idle"]
    /\ UNCHANGED <<alive, tables, nextId, calls, events, history>>

\* do_load_quotas: DELETE FROM target
CleanTarget ==
    LET gone == {q \in Pairs : FreshT(Worker)[q] # None /\ ~(PartsOf(q) \subseteq alive)}
    IN  /\ At(Worker, "cleanT")
        /\ Only([tx EXCEPT ![Worker].newT = [q \in gone |-> None], ![Worker].pc = "cleanC"])

\* do_load_quotas: DELETE FROM quota_config
CleanConfig ==
    LET cur  == FreshC(Worker)
        curT == FreshT(Worker)
        gone == {k \in Keys : /\ cur[k] # NoRow
                              /\ IF k \in Objects THEN k \notin alive
                                 ELSE \A q \in Pairs : curT[q] # k}
    IN  /\ At(Worker, "cleanC")
        /\ Only([tx EXCEPT ![Worker].newC = [k \in gone |-> NoRow], ![Worker].pc = "commit"])

\* CommitTransactionCommand
LoadEnds ==
    /\ tx[Worker].pc = "commit"
    /\ target' = FreshT(Worker) /\ config' = FreshC(Worker)
    /\ tx' = [tx EXCEPT ![Worker] = Idle]
    /\ UNCHANGED <<alive, nextId, limits, calls, events, history>>

LoadStep == Load \/ CleanTarget \/ CleanConfig \/ LoadEnds

-----------------------------------------------------------------------------
(* The environment. *)

\* DROP SCHEMA, DROP ROLE, DROP TABLESPACE
Drop(o) ==
    /\ o \in alive /\ events < MaxEvents
    /\ alive' = alive \ {o} /\ events' = events + 1
    /\ UNCHANGED <<tables, nextId, limits, tx, calls, history>>

\* a statement of s fails (a segment is down, the user cancels): its transaction
\* is rolled back, PG_CATCH in load_quotas
Fail(s) ==
    /\ tx[s].pc # "idle" /\ events < MaxEvents
    /\ events' = events + 1
    /\ tx' = [tx EXCEPT ![s] = Idle]
    /\ UNCHANGED <<alive, tables, nextId, limits, calls, history>>

\* the SELECT of do_load_quotas fails, after clean_all_quota_limit
LoadFails ==
    /\ tx[Worker].pc = "idle" /\ events < MaxEvents
    /\ events' = events + 1
    /\ limits' = [q \in Quotas |-> NoRow]
    /\ UNCHANGED <<alive, tables, nextId, tx, calls, history>>

Next ==
    \/ \E s \in Sessions :
         \/ \E q \in Objects \cup Pairs :
              \E v \in {Delete} \cup (IF q \in Spaces THEN Ratios ELSE Limits) : Call(s, q, v)
         \/ Statement(s)
    \/ LoadStep \/ LoadFails
    \/ \E s \in Procs : Acquire(s) \/ Fail(s)
    \/ \E o \in Objects : Drop(o)

Spec == Init /\ [][Next]_vars

\* the sessions and the worker go on, and a lock nobody holds is granted
FairSpec ==
    /\ Spec
    /\ \A s \in Procs : WF_vars(Acquire(s))
    /\ \A s \in Sessions : WF_vars(Statement(s))
    /\ WF_vars(LoadStep)

-----------------------------------------------------------------------------
(* Properties. *)

Values == Limits \cup Ratios \cup {None}
Locks  == {"config", "target"} \X {"Exclusive", "RowExclusive", "RowShare"}
TxRecords(Q, T, C) ==
    [pc : Pcs, q : Q, v : Values \cup {Delete}, id : {None} \cup Ids,
     ratio : Ratios \cup {None}, snapC : {Empty} \cup [Keys -> Rows], held : SUBSET Locks,
     newT : T, newC : C, others : SUBSET Values]

\* What is stored and what is loaded are rows a call may write: no negative
\* limit or ratio gets into the tables (to_delete_quota, set_per_segment_quota).
TypeOK ==
    /\ alive \in SUBSET Objects
    /\ target \in [Pairs -> {None} \cup Ids] /\ config \in [Keys -> Rows]
    /\ limits \in [Quotas -> Rows]
    /\ nextId \in 2 .. MaxCalls + 2
    /\ tx = [s \in Procs |-> tx[s]]
    /\ \A s \in Procs : LET t == tx[s] IN
         /\ DOMAIN t.newT \subseteq Pairs /\ DOMAIN t.newC \subseteq Keys
         /\ t \in TxRecords(IF t.pc = "idle" \/ s = Worker THEN {None} ELSE Quotas,
                           [DOMAIN t.newT -> {None} \cup Ids], [DOMAIN t.newC -> Rows])
    /\ calls \in 0 .. MaxCalls /\ events \in 0 .. MaxEvents
    /\ last \in [Quotas -> SUBSET Values] /\ crossed \in SUBSET Spaces /\ wild \in BOOLEAN

\* A committed row of target has its row in quota_config, however the calls of
\* set_target_internal and set_quota_config_internal overlap each other and the
\* worker's cleaning.  Without it set_target_internal would not find the pair,
\* insert it again and fail on the unique key: the quota could not be set again.
\* Two deletions of one quota at once are left out: the second reads an empty
\* result.
TargetHasConfig ==
    ~wild => \A q \in Pairs : target[q] # None => config[target[q]] # NoRow

\* The quotas of a tablespace have its per segment ratio, whatever order
\* set_per_segment_quota and the first setting of a quota, which reads the ratio
\* FOR SHARE, run in.  Two ratios of one tablespace set at once are left out:
\* each acts on the row as it was when its call began.
RatioFollowsTablespace ==
    \A q \in Pairs :
        /\ q[2] \in alive /\ q[2] \notin crossed
        /\ target[q] # None
        /\ config[target[q]] # NoRow
        => config[target[q]].ratio = config[q[2]].ratio

\* The value of a quota is what the last call set, or what one of the calls
\* set that overlapped it: a call that returned is not undone, nor half done.
QuotaIsAnOutcome ==
    ~wild => \A q \in Quotas : PartsOf(q) \subseteq alive =>
        LET row == RowOf(q)
        IN  (IF q \in Spaces THEN row.ratio ELSE row.limit) \in last[q]

\* s waits for u: for a lock u holds, or for the end of u, which has a row with
\* the key that s inserts
Waits(s, u) ==
    LET t == tx[s] IN
    \/ /\ t.pc \in DOMAIN LockOf /\ LockOf[t.pc] \notin t.held
       /\ \E m \in tx[u].held : Conflict(LockOf[t.pc], m)
    \/ At(s, "insertT") /\ t.q \in DOMAIN tx[u].newT
    \/ At(s, "insertC") /\ KeyOf(t) \in DOMAIN tx[u].newC

\* No transactions wait for each other in a circle: the calls and the worker
\* take the tables in one order, and set_per_segment_quota takes the EXCLUSIVE
\* lock first ("if we don't lock the table in exlusive mode first, deadlock will
\* heappen").
NoWaitCycle ==
    \A ps \in (SUBSET Procs) \ {{}} :
        \E s \in ps : \A u \in ps \ {s} : ~Waits(s, u)

\* Once calls and drops cease, the tables hold no row of a dropped object and
\* no quota without its target, and the worker has loaded the rest.
TablesSettle ==
    <>[](\/ wild
         \/ /\ \A k \in Keys : config[k] # NoRow => ~Stale(k)
            /\ \A q \in Pairs : target[q] # None => PartsOf(q) \subseteq alive
            /\ \A q \in Quotas : limits[q] = RowOf(q))
=============================================================================
