----------------------------- MODULE QuotaModel -----------------------------
(***************************************************************************)
(* The quota model of one database (src/src/quotamodel.c): the rounds of   *)
(* refresh_disk_quota_model while sessions write, alter, drop and          *)
(* configure.                                                              *)
(*                                                                         *)
(* A round pulls the active tables and their sizes, charges every change   *)
(* of a size or of an attribute to the quotas of the table's schema, role  *)
(* and tablespace, recomputes who exceeds a limit, flushes the sizes to    *)
(* diskquota.table_size and the verdicts to the shared reject map, and     *)
(* dispatches that map to the segments.  The maps are in shared memory and *)
(* survive an error; the SQL of a round is one transaction and does not.   *)
(***************************************************************************)
EXTENDS SegmentChunks, FiniteSets, FiniteSetsExt

CONSTANTS
    Tables,         \* oids; an oid is not used again after a drop
    Attrs,          \* records [ns, owner, spc] a table may have
    InvalidOid,
    MasterSize,     \* size of a table's files on the coordinator
    MaxSize,        \* bound: size of a table on a segment
    ConfigKeys,     \* quota keys sessions set a limit for
    Limits,         \* the limits they set
    SegRatio,       \* segratio of quota_config, 0 for none
    MayOverflow,    \* may table_size_map and the reject maps be full?
    MaxChanges,     \* bound: changes made by sessions
    MaxFailures     \* bound: failed rounds and restarts

ASSUME QuotaAssumption ==
    /\ IsFiniteSet(Tables)
    /\ MasterSize \in Nat /\ MaxSize \in Nat /\ SegRatio \in Nat
    /\ Limits \subseteq Nat \ {0}
    /\ MaxChanges \in Nat /\ MaxFailures \in Nat
    /\ MayOverflow \in BOOLEAN

VARIABLES
    \* sessions: pg_class, existing schemas/roles/tablespaces, files, quota_config
    catalog, objects, disk, config, changes,
    dirty,              \* tables reported active and not yet collected
    \* shared memory of the database's model
    table_size_map, quota_info_map, local_reject_map, reject_map, inited,
    seg_reject_map,     \* what the segments received last
    \* diskquota.table_size: committed, and as the open transaction sees it
    rows, txRows,
    \* the round: control point, active_oids, flush_local_reject_map's result
    pc, active, changed, failures,
    full                \* history: some entry did not fit into its map

sessionVars == <<catalog, objects, disk, config, changes>>
modelVars   == <<table_size_map, quota_info_map>>
rejectVars  == <<local_reject_map, reject_map, seg_reject_map>>
rowVars     == <<rows, txRows>>
vars == <<sessionVars, dirty, modelVars, rejectVars, inited, rowVars, pc, active, changed, failures,
          full>>

NoTable == [state |-> "absent"]
NoAttr  == [ns |-> InvalidOid, owner |-> InvalidOid, spc |-> InvalidOid]
Primaries == 0 .. SEGCOUNT - 1

-----------------------------------------------------------------------------
(***************************************************************************)
(* Quota keys.                                                             *)
(***************************************************************************)
QuotaTypes == {"NAMESPACE_QUOTA", "ROLE_QUOTA", "NAMESPACE_TABLESPACE_QUOTA",
               "ROLE_TABLESPACE_QUOTA"}

\* quota_key_num and the key arrays passed to update_size_for_quota.
KeyOf(type, a) ==
    CASE type = "NAMESPACE_QUOTA"            -> [type |-> type, keys |-> <<a.ns>>]
      [] type = "ROLE_QUOTA"                 -> [type |-> type, keys |-> <<a.owner>>]
      [] type = "NAMESPACE_TABLESPACE_QUOTA" -> [type |-> type, keys |-> <<a.ns, a.spc>>]
      [] type = "ROLE_TABLESPACE_QUOTA"      -> [type |-> type, keys |-> <<a.owner, a.spc>>]

\* The SearchSysCache1 calls over quota_key_caches.
KeyExists(k) == \A i \in DOMAIN k.keys : k.keys[i] \in objects

\* update_size_for_quota, for a set of charges [t, seg, key, amt].
Charge(q, C) ==
    LET touched == {[key |-> c.key, segid |-> c.seg] : c \in C}
        old(e)  == IF e \in DOMAIN q THEN q[e] ELSE [size |-> 0, limit |-> -1]
        sum(e)  == SumFunction([c \in {x \in C : x.key = e.key /\ x.seg = e.segid} |-> c.amt])
    IN  [e \in DOMAIN q \cup touched |-> [old(e) EXCEPT !.size = @ + sum(e)]]

\* clean_all_quota_limit, then update_limit_for_quota for every configured key.
LimitFor(cfg, segid) ==
    IF segid = -1 THEN cfg ELSE (cfg \div SEGCOUNT) * SegRatio

\* Mutant: limits that are no longer configured are kept.
LoadedLimitsKeepingOld(q) ==
    LET K  == {k \in DOMAIN config : KeyExists(k)}
        Es == {[key |-> k, segid |-> s] : k \in K, s \in Segids}
    IN  [e \in DOMAIN q \cup Es |->
            [size  |-> IF e \in DOMAIN q THEN q[e].size ELSE 0,
             limit |-> IF e \in Es THEN LimitFor(config[e.key], e.segid) ELSE q[e].limit]]

LoadedLimits(q) ==
    LET K  == {k \in DOMAIN config : KeyExists(k)}
        Es == {[key |-> k, segid |-> s] : k \in K, s \in Segids}
    IN  [e \in DOMAIN q \cup Es |->
            [size  |-> IF e \in DOMAIN q THEN q[e].size ELSE 0,
             limit |-> IF e \in Es THEN LimitFor(config[e.key], e.segid) ELSE -1]]

-----------------------------------------------------------------------------
(***************************************************************************)
(* table_size_map, keyed by <<table, record id>>.                          *)
(***************************************************************************)
EntriesOf(t) == {<<t, id>> : id \in EntryIds}
Live(t)      == catalog[t].state = "live"
LiveTables   == {t \in Tables : Live(t)}

\* get_table_size_map_entry: a new record has no attributes and no sizes.  When
\* the map is full, which entries still fit depends on the order of the pass and
\* on the other databases.
NewEntry(id) == [attr |-> NoAttr, size |-> [s \in SegidsOf(id) |-> 0],
                 flush |-> SegidsOf(id), exist |-> FALSE]
WithEntries(m, E) == [e \in DOMAIN m \cup E |-> IF e \in DOMAIN m THEN m[e] ELSE NewEntry(e[2])]
Admitted(E) == IF MayOverflow THEN SUBSET E ELSE {E}

RecordedSize(m, t, s) ==
    LET e == <<t, TableSizeEntryId(s)>> IN IF e \in DOMAIN m THEN m[e].size[s] ELSE 0

\* calculate_active_table_disk_usage for every <<table, segid>> in DOMAIN sz
\* that has a record in m.
SetSizes(m, sz) ==
    [e \in DOMAIN m |->
        LET S == {s \in SegidsOf(e[2]) : <<e[1], s>> \in DOMAIN sz}
        IN  [m[e] EXCEPT !.size  = [s \in DOMAIN @ |-> IF s \in S THEN sz[<<e[1], s>>] ELSE @[s]],
                         !.flush = @ \cup S]]

SizeCharges(m, sz) ==
    LET P == {p \in DOMAIN sz : <<p[1], TableSizeEntryId(p[2])>> \in DOMAIN m}
        charge(p, type) ==
            [t |-> p[1], seg |-> p[2],
             key |-> KeyOf(type, m[<<p[1], TableSizeEntryId(p[2])>>].attr),
             amt |-> sz[p] - RecordedSize(m, p[1], p[2])]
    IN  {charge(p, type) : p \in P, type \in QuotaTypes}

ApplySizes(sz) ==
    LET needed == {<<p[1], TableSizeEntryId(p[2])>> : p \in DOMAIN sz} \ DOMAIN table_size_map
    IN  \E E \in Admitted(needed) :
          LET m == WithEntries(table_size_map, E) IN
          /\ full' = (full \/ E # needed)
          /\ table_size_map' = SetSizes(m, sz)
          /\ quota_info_map' = Charge(quota_info_map, SizeCharges(m, sz))

\* calculate_table_size on a segment, and what segment -1 is given.
SumOfSegments(f) == SumFunctionOnSet(f, Primaries)
PulledSizes(T) ==
    [p \in T \X Segids |->
        IF p[2] = -1 THEN SumOfSegments(disk[p[1]]) + disk[p[1]][-1] ELSE disk[p[1]][p[2]]]
LoadedSizes ==
    [p \in DOMAIN rows |-> IF p[2] = -1 THEN rows[p] + disk[p[1]][-1] ELSE rows[p]]

-----------------------------------------------------------------------------
Empty == [x \in {} |-> x]
Remove(f, S) == [x \in DOMAIN f \ S |-> f[x]]

\* Some tables exist and have been measured by init_table_size_table.
Init ==
    /\ \E T \in SUBSET Tables, a \in Attrs :
         /\ catalog = [t \in Tables |-> IF t \in T THEN [state |-> "live", attr |-> a] ELSE NoTable]
         /\ disk = [t \in Tables |-> [s \in Segids |->
                       IF t \notin T THEN 0 ELSE IF s = -1 THEN MasterSize ELSE MaxSize]]
         /\ rows = PulledSizes(T)
    /\ objects = UNION {{a.ns, a.owner, a.spc} : a \in Attrs}
    /\ config = Empty
    /\ changes = 0
    /\ dirty = {}
    /\ table_size_map = Empty
    /\ quota_info_map = Empty
    /\ local_reject_map = Empty
    /\ reject_map = Empty
    /\ seg_reject_map = Empty
    /\ inited = FALSE
    /\ txRows = rows
    /\ pc = "idle"
    /\ active = {}
    /\ changed = FALSE
    /\ failures = 0
    /\ full = FALSE

TypeOK ==
    /\ \A t \in Tables : catalog[t].state \in {"absent", "live", "dropped"}
    /\ DOMAIN table_size_map \subseteq Tables \X EntryIds
    /\ \A e \in DOMAIN table_size_map :
         /\ table_size_map[e].size \in [SegidsOf(e[2]) -> Nat]
         /\ table_size_map[e].flush \subseteq SegidsOf(e[2])
    /\ \A e \in DOMAIN quota_info_map :
         quota_info_map[e].size \in Int /\ quota_info_map[e].limit \in Int
    /\ DOMAIN rows \subseteq Tables \X Segids
    /\ dirty \subseteq Tables /\ active \subseteq Tables
    /\ pc \in {"idle", "list", "size", "track", "refresh", "flush", "reject", "dispatch"}
    /\ failures \in 0 .. MaxFailures /\ changes \in 0 .. MaxChanges

-----------------------------------------------------------------------------
(***************************************************************************)
(* Sessions.  A change of a table's files is reported by the smgr hooks.   *)
(***************************************************************************)
Change == changes < MaxChanges /\ changes' = changes + 1 /\ UNCHANGED
    <<modelVars, rejectVars, inited, rowVars, pc, active, changed, failures, full>>

AttrExists(a) == {a.ns, a.owner, a.spc} \subseteq objects
NoFiles       == [s \in Segids |-> 0]

CreateTable(t, a) ==
    /\ Change
    /\ catalog[t].state = "absent" /\ AttrExists(a)
    /\ catalog' = [catalog EXCEPT ![t] = [state |-> "live", attr |-> a]]
    /\ disk' = [disk EXCEPT ![t] = [NoFiles EXCEPT ![-1] = MasterSize]]
    /\ dirty' = dirty \cup {t}
    /\ UNCHANGED <<objects, config>>

\* Insert, truncate or vacuum on one segment.
Write(t, s, n) ==
    /\ Change
    /\ Live(t) /\ disk[t][s] # n
    /\ disk' = [disk EXCEPT ![t][s] = n]
    /\ dirty' = dirty \cup {t}
    /\ UNCHANGED <<catalog, objects, config>>

\* A new tablespace means new files, a new schema or owner does not.
AlterTable(t, a) ==
    /\ Change
    /\ Live(t) /\ AttrExists(a) /\ catalog[t].attr # a
    /\ catalog' = [catalog EXCEPT ![t].attr = a]
    /\ dirty' = IF catalog[t].attr.spc # a.spc THEN dirty \cup {t} ELSE dirty
    /\ UNCHANGED <<objects, disk, config>>

DropTable(t) ==
    /\ Change
    /\ Live(t)
    /\ catalog' = [catalog EXCEPT ![t] = [state |-> "dropped"]]
    /\ disk' = [disk EXCEPT ![t] = NoFiles]
    /\ dirty' = dirty \ {t}
    /\ UNCHANGED <<objects, config>>

DropObject(o) ==
    /\ Change
    /\ \A t \in LiveTables : o \notin {catalog[t].attr.ns, catalog[t].attr.owner, catalog[t].attr.spc}
    /\ objects' = objects \ {o}
    /\ UNCHANGED <<catalog, disk, config, dirty>>

SetQuota(k, l) ==
    /\ Change
    /\ KeyExists(k)
    /\ config' = [x \in DOMAIN config \cup {k} |-> IF x = k THEN l ELSE config[x]]
    /\ UNCHANGED <<catalog, objects, disk, dirty>>

DeleteQuota(k) ==
    /\ Change
    /\ k \in DOMAIN config
    /\ config' = Remove(config, {k})
    /\ UNCHANGED <<catalog, objects, disk, dirty>>

Session ==
    \/ \E t \in Tables, a \in Attrs : CreateTable(t, a) \/ AlterTable(t, a)
    \/ \E t \in Tables, s \in Primaries, n \in 0 .. MaxSize : Write(t, s, n)
    \/ \E t \in Tables : DropTable(t)
    \/ \E o \in objects : DropObject(o)
    \/ \E k \in ConfigKeys : DeleteQuota(k) \/ \E l \in Limits : SetQuota(k, l)

-----------------------------------------------------------------------------
(***************************************************************************)
(* The round of the worker.                                                *)
(***************************************************************************)
\* An error caught by load_quotas or refresh_disk_quota_usage: the transaction
\* is rolled back, and disk_quota_worker_main sets inited all the same.
RoundFails ==
    /\ failures < MaxFailures
    /\ failures' = failures + 1
    /\ pc' = "idle"
    /\ inited' = TRUE
    /\ txRows' = rows
    /\ active' = {}
    /\ changed' = FALSE
    /\ UNCHANGED <<sessionVars, rows>>

\* load_quotas: rows of quota_config whose objects are gone are deleted.
LoadQuotas ==
    /\ pc = "idle"
    /\ quota_info_map' = LoadedLimits(quota_info_map)
    /\ config' = Remove(config, {k \in DOMAIN config : ~KeyExists(k)})
    /\ pc' = "list"
    /\ UNCHANGED <<catalog, objects, disk, changes, dirty, table_size_map, rejectVars, inited,
                   rowVars, active, changed, failures, full>>

\* The limits are cleaned before the query that may fail.
LoadQuotasFails ==
    /\ pc = "idle"
    /\ RoundFails
    /\ quota_info_map' = [e \in DOMAIN quota_info_map |-> [quota_info_map[e] EXCEPT !.limit = -1]]
    /\ UNCHANGED <<dirty, table_size_map, rejectVars, full>>

\* gp_fetch_active_tables(true): load_table_size.
LoadTableSize ==
    /\ pc = "list"
    /\ ~inited
    /\ ApplySizes(LoadedSizes)
    /\ active' = {p[1] : p \in DOMAIN rows}
    /\ pc' = "track"
    /\ UNCHANGED <<sessionVars, dirty, rejectVars, inited, rowVars, changed, failures>>

\* pull_active_list_from_seg: the segments empty their lists.
PullActiveList ==
    /\ pc = "list"
    /\ inited
    /\ active' = dirty
    /\ dirty' = {}
    /\ pc' = "size"
    /\ UNCHANGED <<sessionVars, modelVars, rejectVars, inited, rowVars, changed, failures, full>>

\* Some segments had emptied their lists already.
FetchFails ==
    /\ pc = "list"
    /\ RoundFails
    /\ IF inited THEN \E kept \in SUBSET dirty : dirty' = kept ELSE UNCHANGED dirty
    /\ UNCHANGED <<modelVars, rejectVars, full>>

\* Mutant: the lists are emptied after the sizes have been read.
PullSizesThenForget ==
    /\ pc = "size"
    /\ ApplySizes(PulledSizes(active))
    /\ dirty' = {}
    /\ pc' = "track"
    /\ UNCHANGED <<sessionVars, rejectVars, inited, rowVars, active, changed, failures>>

\* pull_active_table_size_from_seg: every segment, then segment -1.
PullSizes ==
    /\ pc = "size"
    /\ ApplySizes(PulledSizes(active))
    /\ pc' = "track"
    /\ UNCHANGED <<sessionVars, dirty, rejectVars, inited, rowVars, active, changed, failures>>

\* The result of a segment is bad: the ones before it have been counted.
PullSizesFails ==
    /\ pc = "size"
    /\ RoundFails
    /\ \E i \in Primaries : ApplySizes([p \in active \X (0 .. i - 1) |-> disk[p[1]][p[2]]])
    /\ UNCHANGED <<dirty, rejectVars>>

\* Mutant: the tablespace quotas are only transferred when the tablespace changes.
TransferChargesBySpc(m, e, a) ==
    LET types == {type \in QuotaTypes :
                    IF type \in {"NAMESPACE_QUOTA", "ROLE_QUOTA"}
                    THEN KeyOf(type, m[e].attr) # KeyOf(type, a) ELSE m[e].attr.spc # a.spc}
        charge(s, type, attr, n) == [t |-> e[1], seg |-> s, key |-> KeyOf(type, attr), amt |-> n]
    IN  UNION {{charge(s, type, m[e].attr, -m[e].size[s]), charge(s, type, a, m[e].size[s])} :
               s \in SegidsOf(e[2]), type \in types}

\* The charges for moving the sizes of entry e from its attributes to a.
TransferCharges(m, e, a) ==
    LET types == {type \in QuotaTypes : KeyOf(type, m[e].attr) # KeyOf(type, a)}
        charge(s, type, attr, n) == [t |-> e[1], seg |-> s, key |-> KeyOf(type, attr), amt |-> n]
    IN  UNION {{charge(s, type, m[e].attr, -m[e].size[s]), charge(s, type, a, m[e].size[s])} :
               s \in SegidsOf(e[2]), type \in types}

\* The charges for taking the sizes of entry e away.
RemovalCharges(m, e) ==
    {[t |-> e[1], seg |-> s, key |-> KeyOf(type, m[e].attr), amt |-> -m[e].size[s]] :
        s \in SegidsOf(e[2]), type \in QuotaTypes}

\* track_namespace_owner_tablespace_changes.  The pass over a table's segments
\* stops at the first record that cannot be had; records it does not reach are
\* taken for dropped.
Track ==
    /\ pc = "track"
    /\ LET missing == (UNION {EntriesOf(t) : t \in LiveTables}) \ DOMAIN table_size_map IN
       \E E \in Admitted(missing) :
         LET m == WithEntries(table_size_map, E)
             reached(e) == Live(e[1]) /\ \A id \in EntryIds : id <= e[2] => <<e[1], id>> \in DOMAIN m
             found == {e \in DOMAIN m : reached(e)}
         IN
         /\ E \subseteq found
         /\ full' = (full \/ E # missing)
         /\ table_size_map' =
              [e \in DOMAIN m |->
                  IF e \in found
                  THEN [m[e] EXCEPT !.attr = catalog[e[1]].attr, !.exist = TRUE,
                                    !.flush = IF inited THEN @ ELSE {}]
                  ELSE [m[e] EXCEPT !.exist = FALSE]]
         /\ quota_info_map' =
              Charge(quota_info_map,
                     (UNION {TransferCharges(m, e, catalog[e[1]].attr) : e \in found})
                       \cup UNION {RemovalCharges(m, e) : e \in DOMAIN m \ found})
    /\ pc' = "refresh"
    /\ UNCHANGED <<sessionVars, dirty, rejectVars, inited, rowVars, active, changed, failures>>

\* get_rel_oid_list fails, after all records have been marked as dropped.
TrackFails ==
    /\ pc = "track"
    /\ RoundFails
    /\ table_size_map' = [e \in DOMAIN table_size_map |-> [table_size_map[e] EXCEPT !.exist = FALSE]]
    /\ UNCHANGED <<dirty, quota_info_map, rejectVars, full>>

HitsLimit(q) == q.limit > 0 /\ q.size >= q.limit

\* refresh_quota_info_map and add_quota_to_rejectmap: the last entry of a key
\* in hash order decides segexceeded.
RefreshQuotaInfoMap ==
    /\ pc = "refresh"
    /\ LET kept == {e \in DOMAIN quota_info_map : KeyExists(e.key)}
           over == {e \in kept : HitsLimit(quota_info_map[e])}
           X    == {e.key : e \in over}
           needed == X \ DOMAIN local_reject_map
       IN
       /\ quota_info_map' = Remove(quota_info_map, DOMAIN quota_info_map \ kept)
       /\ \E E \in Admitted(needed), last \in [X -> over] :
            /\ \A k \in X : last[k].key = k
            /\ full' = (full \/ E # needed)
            /\ local_reject_map' =
                 [k \in DOMAIN local_reject_map \cup E |->
                     IF k \in X THEN [isexceeded |-> TRUE, segexceeded |-> last[k].segid # -1]
                     ELSE local_reject_map[k]]
    /\ pc' = "flush"
    /\ UNCHANGED <<sessionVars, dirty, table_size_map, reject_map, seg_reject_map, inited, rowVars,
                   active, changed, failures>>

\* flush_to_table_size, the part in memory: flags are reset and dropped tables
\* forgotten before the SQL runs.
Flushed(m) == [e \in {x \in DOMAIN m : m[x].exist} |-> [m[e] EXCEPT !.flush = {}]]

\* Mutant: the rows of dropped tables stay.
FlushedRowsKeepingDropped(m, r) ==
    LET new == {p \in Tables \X Segids : LET e == <<p[1], TableSizeEntryId(p[2])>> IN
                                             e \in DOMAIN m /\ m[e].exist /\ p[2] \in m[e].flush}
    IN  [p \in DOMAIN r \cup new |-> IF p \in new THEN RecordedSize(m, p[1], p[2]) ELSE r[p]]

\* The rows after the deletes and inserts.
FlushedRows(m, r) ==
    LET gone == {p \in Tables \X Segids : LET e == <<p[1], TableSizeEntryId(p[2])>> IN
                                             e \in DOMAIN m /\ ~m[e].exist}
        new  == {p \in Tables \X Segids : LET e == <<p[1], TableSizeEntryId(p[2])>> IN
                                             e \in DOMAIN m /\ m[e].exist /\ p[2] \in m[e].flush}
    IN  [p \in (DOMAIN r \ gone) \cup new |-> IF p \in new THEN RecordedSize(m, p[1], p[2]) ELSE r[p]]

FlushToTableSize ==
    /\ pc = "flush"
    /\ table_size_map' = Flushed(table_size_map)
    /\ txRows' = FlushedRows(table_size_map, txRows)
    /\ pc' = "reject"
    /\ UNCHANGED <<sessionVars, dirty, quota_info_map, rejectVars, inited, rows, active, changed,
                   failures, full>>

FlushFails ==
    /\ pc = "flush"
    /\ RoundFails
    /\ table_size_map' = Flushed(table_size_map)
    /\ UNCHANGED <<dirty, quota_info_map, rejectVars, full>>

\* A local entry whose verdict has been copied counts as exceeded again only if
\* the next round says so.  Mutant: it stays marked.
CopiedEntryStillMarked(l) == l
CopiedEntry(l) == [isexceeded |-> FALSE, segexceeded |-> FALSE]

\* flush_local_reject_map: an entry that does not fit stays marked.
FlushLocalRejectMap ==
    /\ pc = "reject"
    /\ LET X    == {k \in DOMAIN local_reject_map : local_reject_map[k].isexceeded}
           gone == DOMAIN local_reject_map \ X
           needed == X \ DOMAIN reject_map
           verdict(k) == local_reject_map[k].segexceeded
       IN
       \E E \in Admitted(needed) :
         LET placed == (X \cap DOMAIN reject_map) \cup E IN
         /\ full' = (full \/ E # needed)
         /\ reject_map' = [k \in (DOMAIN reject_map \ gone) \cup E |->
                              IF k \in placed THEN verdict(k) ELSE reject_map[k]]
         /\ local_reject_map' = [k \in X |-> IF k \in placed
                                             THEN CopiedEntry(local_reject_map[k])
                                             ELSE local_reject_map[k]]
         /\ changed' = \/ gone # {} \/ E # {}
                       \/ \E k \in X \cap DOMAIN reject_map : reject_map[k] # verdict(k)
    /\ pc' = "dispatch"
    /\ UNCHANGED <<sessionVars, dirty, modelVars, seg_reject_map, inited, rowVars, active, failures>>

\* Mutant: only active tables are a reason to dispatch.
NeedsDispatchForActive == ~inited \/ active # {}
NeedsDispatch == ~inited \/ changed \/ active # {}

\* dispatch_rejectmap if there is news, then the commit.
DispatchRejectmap ==
    /\ pc = "dispatch"
    /\ seg_reject_map' = IF NeedsDispatch THEN reject_map ELSE seg_reject_map
    /\ rows' = txRows
    /\ inited' = TRUE
    /\ active' = {}
    /\ changed' = FALSE
    /\ pc' = "idle"
    /\ UNCHANGED <<sessionVars, dirty, modelVars, local_reject_map, reject_map, txRows, failures, full>>

DispatchFails ==
    /\ pc = "dispatch"
    /\ RoundFails
    /\ UNCHANGED <<dirty, modelVars, rejectVars, full>>

\* A restart of the cluster: only tables survive.
Restart ==
    /\ failures < MaxFailures
    /\ failures' = failures + 1
    /\ dirty' = {} /\ active' = {}
    /\ table_size_map' = Empty /\ quota_info_map' = Empty
    /\ local_reject_map' = Empty /\ reject_map' = Empty /\ seg_reject_map' = Empty
    /\ inited' = FALSE /\ changed' = FALSE
    /\ txRows' = rows
    /\ pc' = "idle"
    /\ UNCHANGED <<sessionVars, rows, full>>

Round ==
    \/ LoadQuotas \/ LoadTableSize \/ PullActiveList \/ PullSizes \/ Track \/ RefreshQuotaInfoMap
    \/ FlushToTableSize \/ FlushLocalRejectMap \/ DispatchRejectmap
Failure ==
    \/ LoadQuotasFails \/ FetchFails \/ PullSizesFails \/ TrackFails \/ FlushFails \/ DispatchFails
    \/ Restart

Next == Session \/ Round \/ Failure

Spec == Init /\ [][Next]_vars /\ WF_vars(Round)

-----------------------------------------------------------------------------
(***************************************************************************)
(* Properties.                                                             *)
(***************************************************************************)
AllKeys == {KeyOf(type, a) : type \in QuotaTypes, a \in Attrs}

\* Between track and flush the dropped tables are in the map but not charged.
Charged == {e \in DOMAIN table_size_map : pc \in {"refresh", "flush"} => table_size_map[e].exist}

ChargedSize(k, s) ==
    LET E == {e \in Charged : s \in SegidsOf(e[2]) /\ KeyOf(k.type, table_size_map[e].attr) = k}
    IN  SumFunction([e \in E |-> table_size_map[e].size[s]])

\* The usage of a quota is the sum of the recorded sizes of the tables that
\* belong to it, on every segment and in total, at every point of a round and
\* whatever failed before.  The code only ever adds differences, so one missed
\* or doubled transfer would stay forever.
UsageIsSum ==
    \A k \in AllKeys, s \in Segids : KeyExists(k) =>
        LET e == [key |-> k, segid |-> s]
        IN  (IF e \in DOMAIN quota_info_map THEN quota_info_map[e].size ELSE 0) = ChargedSize(k, s)

Exceeds(k) ==
    \E s \in Segids : LET e == [key |-> k, segid |-> s] IN
        /\ e \in DOMAIN quota_info_map
        /\ quota_info_map[e].limit > 0
        /\ ChargedSize(k, s) >= quota_info_map[e].limit

\* After flush_local_reject_map a key is rejected exactly if its tables exceed
\* the limit in force, in total or on a segment, provided no map was full: no
\* verdict of an earlier round survives.  Failed rounds may leave a verdict
\* standing, but they hide no excess.
RejectedIffExceeded ==
    pc = "dispatch" /\ ~full =>
        \A k \in AllKeys : KeyExists(k) =>
            /\ Exceeds(k) => k \in DOMAIN reject_map
            /\ failures = 0 /\ k \in DOMAIN reject_map => Exceeds(k)

\* Between rounds the recorded sizes of every table that is not reported active
\* are the sizes of its files; segment -1 has the total.  The list is taken
\* before the sizes are read, so a write in between is not lost.
DiskTotal(t) == SumOfSegments(disk[t]) + disk[t][-1]
SizesAreCurrent ==
    pc = "idle" /\ inited /\ failures = 0 /\ ~full =>
        \A t \in LiveTables \ dirty :
            /\ \A s \in Primaries : RecordedSize(table_size_map, t, s) = disk[t][s]
            /\ RecordedSize(table_size_map, t, -1) = DiskTotal(t)

\* Between rounds diskquota.table_size has the recorded sizes of all tables,
\* so that a restart loads what the model knew (quotamodel.c:1320, "Flush the
\* table_size_map to user table diskquota.table_size").
RowsMatchMap ==
    pc = "idle" /\ inited /\ ~full =>
        \A t \in Tables, s \in Segids :
            (IF <<t, s>> \in DOMAIN rows THEN rows[<<t, s>>] ELSE 0) = RecordedSize(table_size_map, t, s)
RowsMatchMapUnlessFailed == failures = 0 => RowsMatchMap

\* Between rounds the segments have the reject map of the coordinator: skipping
\* the dispatch when nothing changed is safe as long as no dispatch failed.
SegmentsUpToDate ==
    pc = "idle" /\ inited /\ failures = 0 => seg_reject_map = reject_map

\* quotamodel.c:1081 "when segid is -1, the size is the sum of size of master
\* and all segments".
TotalIsSum ==
    pc = "track" /\ ~full =>
        \A t \in (LiveTables \cap active) \ dirty : RecordedSize(table_size_map, t, -1) = DiskTotal(t)

\* quotamodel.c:949 "diskquota worker process should tolerate this kind of errors
\* and continue to check at the next loop": whatever failed, the recorded sizes
\* are those of the files again in the end.
ErrorsAreTolerated ==
    <>[](pc = "idle" => \A t \in LiveTables : RecordedSize(table_size_map, t, -1) = DiskTotal(t))

\* A key that stays above its limit is rejected in the end, a key that stays
\* below is let go, once rounds stop failing.
KeyUsage(k) ==
    LET T == {t \in LiveTables : KeyOf(k.type, catalog[t].attr) = k}
    IN  SumFunction([t \in T |-> DiskTotal(t)])
OverLimit(k)  == k \in DOMAIN config /\ KeyExists(k) /\ KeyUsage(k) >= config[k]
VerdictFollows ==
    \A k \in ConfigKeys :
        /\ <>[](OverLimit(k) /\ failures = 0 /\ ~full) => <>[](k \in DOMAIN reject_map)
        /\ <>[](k \notin DOMAIN config /\ failures = 0 /\ ~full) => <>[](k \notin DOMAIN reject_map)
=============================================================================
