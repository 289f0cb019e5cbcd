---------------------------- MODULE ActiveTables ----------------------------
(***************************************************************************)
(* Active tables of one database on one segment: the hooks of sessions     *)
(* (src/src/gp_activetable.c), the relation cache for tables whose         *)
(* transaction is open (src/src/relation_cache.c), and the collector,      *)
(* get_active_tables_oid, with the measurement of what it returns.         *)
(*                                                                         *)
(* The hooks see relfilenodes; the collector turns them into tables.  It   *)
(* holds no relation lock and moves the shared map to a local one, so a    *)
(* transaction may commit, abort or unlink a file at any of its steps.     *)
(* Auxiliary relations are counted with their primary table.               *)
(***************************************************************************)
EXTENDS Naturals, FiniteSets

CONSTANTS
    Rels,           \* oids; not used again
    Files,          \* relfilenodes; not used again
    NoRel, NoFile,  \* InvalidOid
    MaxSize,        \* bound: size of a file
    MaxActive,      \* diskquota_max_active_tables
    MaxWrites       \* bound: changes of a file's size

ASSUME ActiveAssumption ==
    /\ NoRel \notin Rels /\ NoFile \notin Files
    /\ MaxSize \in Nat /\ MaxActive \in Nat /\ MaxWrites \in Nat

VARIABLES
    \* catalog as committed; files on disk and their sizes; oids and relfilenodes
    \* never used; open transactions; changed files not yet reported by a hook
    pg_class, onDisk, size, freshRels, fresh, tx, unreported, writes,
    \* shared memory
    active_tables_map, altered_reloid_cache, relation_cache, relid_cache,
    \* the collector: entries to look up, entries to put back, entry in hand,
    \* tables found, local_altered_reloid_cache, sizes it reported
    pc, todo, kept, hand, stats, localAltered, measured,
    \* history: an entry did not fit; alterations dropped without being read;
    \* files unlinked while the collector had their entries
    full, unread, outlived

diskVars  == <<pg_class, onDisk, size, freshRels, fresh>>
sessVars  == <<diskVars, tx, unreported, writes>>
cacheVars == <<relation_cache, relid_cache>>
collVars  == <<pc, todo, kept, hand, stats, localAltered, measured>>
vars == <<sessVars, active_tables_map, altered_reloid_cache, cacheVars, collVars, full, unread, outlived>>

NoTx   == [stage |-> "none", kind |-> "none", file |-> NoFile, via |-> NoRel, garbage |-> NoFile,
           created |-> FALSE, altered |-> FALSE]
NoHand == [file |-> NoFile, rel |-> NoRel]
Empty(S, x) == [s \in S |-> x]

\* One table with an empty file, measured.
Init ==
    /\ \E r \in Rels, f \in Files :
         /\ pg_class = [Empty(Rels, NoFile) EXCEPT ![r] = f]
         /\ onDisk = {f}
         /\ freshRels = Rels \ {r} /\ fresh = Files \ {f}
    /\ size = Empty(Files, 0)
    /\ tx = Empty(Rels, NoTx)
    /\ unreported = {} /\ writes = 0
    /\ active_tables_map = {} /\ altered_reloid_cache = {}
    /\ relation_cache = Empty(Rels, NoFile)
    /\ relid_cache = Empty(Files, NoRel)
    /\ pc = "idle"
    /\ todo = {} /\ kept = {} /\ hand = NoHand /\ stats = {} /\ localAltered = {}
    /\ measured = Empty(Rels, 0)
    /\ full = FALSE /\ unread = {} /\ outlived = {}

Stages == {"none", "open", "ending", "unlink", "forget"}
Kinds  == {"none", "create", "rewrite", "swap", "drop"}
TypeOK ==
    /\ pg_class \in [Rels -> Files \cup {NoFile}]
    /\ onDisk \in SUBSET Files /\ unreported \in SUBSET Files
    /\ size \in [Files -> 0 .. MaxSize]
    /\ freshRels \in SUBSET Rels /\ fresh \in SUBSET Files
    /\ tx \in [Rels -> [stage : Stages, kind : Kinds, file : Files \cup {NoFile},
                        via : Rels \cup {NoRel}, garbage : Files \cup {NoFile},
                        created : BOOLEAN, altered : BOOLEAN]]
    /\ writes \in 0 .. MaxWrites
    /\ active_tables_map \in SUBSET Files
    /\ altered_reloid_cache \in SUBSET Rels /\ localAltered \in SUBSET Rels
    /\ relation_cache \in [Rels -> Files \cup {NoFile}]
    /\ relid_cache \in [Files -> Rels \cup {NoRel}]
    /\ pc \in {"idle", "clean", "map", "copy", "test", "remove", "again", "measure"}
    /\ todo \in SUBSET Files /\ kept \in SUBSET Files
    /\ hand \in [file : Files \cup {NoFile}, rel : Rels \cup {NoRel}]
    /\ stats \in SUBSET Rels
    /\ measured \in [Rels -> 0 .. MaxSize]
    /\ full \in BOOLEAN /\ unread \in SUBSET Rels /\ outlived \in SUBSET Files

-----------------------------------------------------------------------------
\* A transaction on r locks r and, when it swaps files, the transient table.
Locked(r) == \E s \in Rels : tx[s].stage \in {"open", "ending"} /\ r \in {s, tx[s].via}

\* RelidByRelfilenode: committed tables only.
Committed(f) == {r \in Rels : pg_class[r] = f}

\* Mutant: the entry of relation_cache stays behind.
ForgetFilesByNode(F) ==
    /\ relid_cache' = [f \in Files |-> IF f \in F THEN NoRel ELSE relid_cache[f]]
    /\ UNCHANGED relation_cache

\* remove_cache_entry(InvalidOid, f) for the relfilenodes F.
ForgetFiles(F) ==
    /\ relation_cache' = [r \in Rels |-> IF \E f \in F : relid_cache[f] = r THEN NoFile
                                         ELSE relation_cache[r]]
    /\ relid_cache' = [f \in Files |-> IF f \in F THEN NoRel ELSE relid_cache[f]]

\* remove_cache_entry(r, InvalidOid).
ForgetRel(r) ==
    /\ relid_cache' = [f \in Files |-> IF relation_cache[r] = f THEN NoRel ELSE relid_cache[f]]
    /\ relation_cache' = [relation_cache EXCEPT ![r] = NoFile]

\* check_hash_fullness: the new entries of E that a map with content M takes,
\* one after the other until the limit.
Fits(M, E) == {S \in SUBSET (E \ M) : /\ Cardinality(M \cup S) <= MaxActive
                                      /\ S # E \ M => Cardinality(M \cup S) = MaxActive}
CachedRels  == {r \in Rels : relation_cache[r] # NoFile}
CachedFiles == {f \in Files : relid_cache[f] # NoRel}

-----------------------------------------------------------------------------
(***************************************************************************)
(* Sessions.                                                               *)
(***************************************************************************)
SharedUnchanged == UNCHANGED <<active_tables_map, altered_reloid_cache, cacheVars>>
RestUnchanged   == UNCHANGED <<collVars, full, unread, outlived>>

\* smgrcreate of a new file for r; the hook runs afterwards.
NewFile(r, kind, via, f) ==
    /\ tx[r].stage = "none" /\ f \in fresh
    /\ tx' = [tx EXCEPT ![r] = [NoTx EXCEPT !.stage = "open", !.kind = kind, !.file = f, !.via = via]]
    /\ onDisk' = onDisk \cup {f}
    /\ unreported' = unreported \cup {f}
    /\ freshRels' = freshRels \ {r, via}
    /\ fresh' = fresh \ {f}
    /\ UNCHANGED <<pg_class, size, writes>>
    /\ SharedUnchanged /\ RestUnchanged

\* An existing table nobody has locked and nobody is writing to.
Quiet(r) == pg_class[r] # NoFile /\ ~Locked(r) /\ tx[r].stage = "none" /\ pg_class[r] \notin unreported

CreateTable(r, f)    == r \in freshRels /\ NewFile(r, "create", r, f)
RewriteTable(r, f)   == Quiet(r) /\ NewFile(r, "rewrite", r, f)
SwapTable(r, x, f)   == Quiet(r) /\ x \in freshRels /\ NewFile(r, "swap", x, f)
DropTable(r) ==
    /\ Quiet(r)
    /\ tx' = [tx EXCEPT ![r] = [NoTx EXCEPT !.stage = "open", !.kind = "drop", !.via = r]]
    /\ UNCHANGED <<diskVars, unreported, writes>>
    /\ SharedUnchanged /\ RestUnchanged

\* smgrextend or smgrtruncate, by a transaction on its new file or by a writer.
Write(r, f, n) ==
    /\ writes < MaxWrites /\ writes' = writes + 1
    /\ \/ tx[r].stage = "open" /\ tx[r].file = f
       \/ pg_class[r] = f /\ ~Locked(r) /\ tx[r].stage = "none"
    /\ f \in onDisk /\ size[f] # n
    /\ size' = [size EXCEPT ![f] = n]
    /\ unreported' = unreported \cup {f}
    /\ UNCHANGED <<pg_class, onDisk, freshRels, fresh, tx>>
    /\ SharedUnchanged /\ RestUnchanged

\* report_active_table_helper, in the hooks after create, extend and truncate.
Report(f) ==
    /\ f \in unreported
    /\ unreported' = unreported \ {f}
    /\ \E S \in Fits(active_tables_map, {f}) :
         /\ active_tables_map' = active_tables_map \cup S
         /\ full' = (full \/ S # {f} \ active_tables_map)
    /\ UNCHANGED <<diskVars, tx, writes, altered_reloid_cache, cacheVars, collVars, unread, outlived>>

\* OAT_POST_CREATE, after the file was created: update_relation_cache.
PostCreate(r) ==
    LET t == tx[r].via IN
    /\ tx[r].stage = "open" /\ tx[r].kind \in {"create", "swap"}
    /\ tx[r].file \notin unreported /\ ~tx[r].created
    /\ tx' = [tx EXCEPT ![r].created = TRUE]
    /\ LET inRel   == Cardinality(CachedRels) < MaxActive
           inRelid == inRel /\ Cardinality(CachedFiles) < MaxActive
       IN  /\ relation_cache' = IF inRel THEN [relation_cache EXCEPT ![t] = tx[r].file] ELSE relation_cache
           /\ relid_cache' = IF inRelid THEN [relid_cache EXCEPT ![tx[r].file] = t] ELSE relid_cache
           /\ full' = (full \/ ~inRel \/ ~inRelid)
    /\ UNCHANGED <<diskVars, unreported, writes, active_tables_map, altered_reloid_cache, collVars,
                   unread, outlived>>

\* OAT_POST_ALTER: report_altered_reloid.
PostAlter(r) ==
    /\ tx[r].stage = "open" /\ tx[r].kind \in {"rewrite", "swap"} /\ ~tx[r].altered
    /\ tx' = [tx EXCEPT ![r].altered = TRUE]
    /\ \E S \in Fits(altered_reloid_cache, {r}) :
         /\ altered_reloid_cache' = altered_reloid_cache \cup S
         /\ full' = (full \/ S # {r} \ altered_reloid_cache)
    /\ UNCHANGED <<diskVars, unreported, writes, active_tables_map, cacheVars, collVars, unread, outlived>>

\* The outcome becomes visible, then the locks are released, then files are
\* unlinked: the old one after a commit, the new one after an abort.
HooksRun(t) ==
    /\ t.file \notin unreported
    /\ t.kind \in {"create", "swap"} => t.created
    /\ t.kind = "swap" => t.altered

Commit(r) ==
    /\ tx[r].stage = "open" /\ HooksRun(tx[r])
    /\ tx' = [tx EXCEPT ![r].stage = "ending", ![r].garbage = pg_class[r]]
    /\ pg_class' = [pg_class EXCEPT ![r] = tx[r].file]
    /\ UNCHANGED <<onDisk, size, freshRels, fresh, unreported, writes>>
    /\ SharedUnchanged /\ RestUnchanged

Abort(r) ==
    /\ tx[r].stage = "open" /\ tx[r].file \notin unreported
    /\ tx' = [tx EXCEPT ![r].stage = "ending", ![r].garbage = tx[r].file]
    /\ UNCHANGED <<diskVars, unreported, writes>>
    /\ SharedUnchanged /\ RestUnchanged

ReleaseLocks(r) ==
    /\ tx[r].stage = "ending"
    /\ tx' = [tx EXCEPT ![r] = IF @.garbage = NoFile THEN NoTx ELSE [@ EXCEPT !.stage = "unlink"]]
    /\ UNCHANGED <<diskVars, unreported, writes>>
    /\ SharedUnchanged /\ RestUnchanged

\* The entries that the collector holds in its local map or in hand.
InCollector == todo \cup kept \cup ({hand.file} \cap Files)

\* Mutant: the entry stays if the collector is at work.
MapAfterUnlinkIdle(f) == IF pc = "idle" THEN active_tables_map \ {f} ELSE active_tables_map
MapAfterUnlink(f) == active_tables_map \ {f}

\* active_table_hook_smgrunlink: two critical sections.
Unlink(r) ==
    /\ tx[r].stage = "unlink"
    /\ onDisk' = onDisk \ {tx[r].garbage}
    /\ active_tables_map' = MapAfterUnlink(tx[r].garbage)
    /\ outlived' = outlived \cup ({tx[r].garbage} \cap InCollector)
    /\ tx' = [tx EXCEPT ![r].stage = "forget"]
    /\ UNCHANGED <<pg_class, size, freshRels, fresh, unreported, writes, altered_reloid_cache,
                   cacheVars, collVars, full, unread>>

UnlinkForget(r) ==
    /\ tx[r].stage = "forget"
    /\ ForgetFiles({tx[r].garbage})
    /\ tx' = [tx EXCEPT ![r] = NoTx]
    /\ UNCHANGED <<diskVars, unreported, writes, active_tables_map, altered_reloid_cache>>
    /\ RestUnchanged

-----------------------------------------------------------------------------
(***************************************************************************)
(* The collector.                                                          *)
(***************************************************************************)
Collect(from, to) == pc = from /\ pc' = to /\ UNCHANGED sessVars

MoveToLocal ==
    /\ Collect("idle", "clean")
    /\ todo' = active_tables_map
    /\ active_tables_map' = {}
    /\ UNCHANGED <<altered_reloid_cache, cacheVars, kept, hand, stats, localAltered, measured, full,
                   unread, outlived>>

\* remove_committed_relation_from_cache.
RemoveCommitted ==
    /\ Collect("clean", "map")
    /\ ForgetFiles({f \in Files : Committed(f) # {} /\ \E r \in Rels : relation_cache[r] = f})
    /\ UNCHANGED <<active_tables_map, altered_reloid_cache, todo, kept, hand, stats, localAltered,
                   measured, full, unread, outlived>>

\* get_relid_by_relfilenode: the catalog first, the relation cache second.  A
\* relfilenode of no known relation is kept.
Lookup(f) ==
    /\ Collect("map", "map")
    /\ f \in todo /\ hand = NoHand
    /\ todo' = todo \ {f}
    /\ IF Committed(f) # {}
       THEN /\ \E r \in Committed(f) : hand' = [file |-> f, rel |-> r]
            /\ ForgetFiles({f})
            /\ UNCHANGED kept
       ELSE /\ IF relid_cache[f] = NoRel
               THEN kept' = kept \cup {f} /\ UNCHANGED hand
               ELSE hand' = [file |-> f, rel |-> relid_cache[f]] /\ UNCHANGED kept
            /\ UNCHANGED cacheVars
    /\ UNCHANGED <<active_tables_map, altered_reloid_cache, stats, localAltered, measured, full, unread, outlived>>

\* is_cached_relfilenode_stale.
Stale(r, f) == pg_class[r] \notin {NoFile, f}

\* Mutant: nothing is looked at again.
MustKeepNever(r, f) == FALSE
\* "Do NOT remove relation from the active table map if it is being altered".
MustKeep(r, f) == Locked(r) \/ Stale(r, f)

Decide ==
    /\ Collect("map", "map")
    /\ hand # NoHand
    /\ stats' = stats \cup {hand.rel}
    /\ kept' = IF MustKeep(hand.rel, hand.file) THEN kept \cup {hand.file} ELSE kept
    /\ hand' = NoHand
    /\ UNCHANGED <<active_tables_map, altered_reloid_cache, cacheVars, todo, localAltered, measured,
                   full, unread, outlived>>

PutBack(from, to) ==
    /\ Collect(from, to)
    /\ todo = {} /\ hand = NoHand
    /\ \E S \in Fits(active_tables_map, kept) :
         /\ active_tables_map' = active_tables_map \cup S
         /\ full' = (full \/ ~(kept \subseteq active_tables_map \cup S))
    /\ kept' = IF to = "measure" THEN {} ELSE kept
    /\ UNCHANGED <<altered_reloid_cache, cacheVars, todo, hand, stats, localAltered, measured, unread, outlived>>

CopyAltered ==
    /\ Collect("copy", "test")
    /\ stats' = stats \cup altered_reloid_cache
    /\ localAltered' = altered_reloid_cache
    /\ UNCHANGED <<active_tables_map, altered_reloid_cache, cacheVars, todo, kept, hand, measured,
                   full, unread, outlived>>

TestAltered ==
    /\ Collect("test", "remove")
    /\ localAltered' = {r \in localAltered : Locked(r)}
    /\ UNCHANGED <<active_tables_map, altered_reloid_cache, cacheVars, todo, kept, hand, stats, measured,
                   full, unread, outlived>>

\* Everything that is not in the local cache is removed, also what was reported
\* since the copy was made.
RemoveAltered ==
    /\ Collect("remove", "again")
    /\ altered_reloid_cache' = altered_reloid_cache \cap localAltered
    /\ unread' = unread \cup {r \in altered_reloid_cache \ localAltered : Locked(r)}
    /\ localAltered' = {}
    /\ UNCHANGED <<active_tables_map, cacheVars, todo, kept, hand, stats, measured, full, outlived>>

\* calculate_table_size in the second request, for one table.
SizeOf(r) ==
    IF pg_class[r] # NoFile THEN size[pg_class[r]]
    ELSE IF relation_cache[r] # NoFile THEN size[relation_cache[r]] ELSE 0
Measure(r) ==
    /\ Collect("measure", IF stats = {r} THEN "idle" ELSE "measure")
    /\ r \in stats
    /\ stats' = stats \ {r}
    /\ measured' = [measured EXCEPT ![r] = SizeOf(r)]
    /\ IF pg_class[r] # NoFile THEN ForgetRel(r) ELSE UNCHANGED cacheVars
    /\ UNCHANGED <<active_tables_map, altered_reloid_cache, todo, kept, hand, localAltered, full, unread, outlived>>

NothingActive ==
    /\ Collect("measure", "idle")
    /\ stats = {}
    /\ UNCHANGED <<active_tables_map, altered_reloid_cache, cacheVars, todo, kept, hand, stats,
                   localAltered, measured, full, unread, outlived>>

-----------------------------------------------------------------------------
Session ==
    \/ \E r \in Rels, f \in Files :
         \/ CreateTable(r, f) \/ RewriteTable(r, f) \/ \E x \in Rels \ {r} : SwapTable(r, x, f)
         \/ \E n \in 0 .. MaxSize : Write(r, f, n)
    \/ \E f \in Files : Report(f)
    \/ \E r \in Rels : \/ DropTable(r) \/ PostCreate(r) \/ PostAlter(r) \/ Commit(r) \/ Abort(r)
                       \/ ReleaseLocks(r) \/ Unlink(r) \/ UnlinkForget(r)
Collector ==
    \/ MoveToLocal \/ RemoveCommitted \/ Decide \/ CopyAltered \/ TestAltered \/ RemoveAltered
    \/ NothingActive \/ \E f \in Files : Lookup(f)
    \/ PutBack("map", "copy") \/ PutBack("again", "measure")
    \/ \E r \in Rels : Measure(r)
Next == Session \/ Collector

Spec == Init /\ [][Next]_vars

-----------------------------------------------------------------------------
(***************************************************************************)
(* Properties.                                                             *)
(***************************************************************************)
\* The next steps of sessions or of the collector will measure r again.
Known(r) ==
    \/ pg_class[r] \in active_tables_map \cup todo \cup kept \cup unreported \cup {hand.file}
    \/ r \in stats \cup altered_reloid_cache
Differs(r) == pg_class[r] # NoFile /\ measured[r] # size[pg_class[r]]

\* No change is lost: a committed table whose size is not the one reported last
\* is on its way to be measured, whatever commits, aborts, rewrites and swaps
\* happened while get_active_tables_oid was at work.  Two exceptions: a map was
\* full, or the report of the alteration was dropped between the SHARED and the
\* EXCLUSIVE section on altered_reloid_cache.
NoLostChange ==
    ~full => \A r \in Rels \ unread : Differs(r) => Known(r)

\* gp_activetable.c:820 "Do NOT remove relation from the active table map if it
\* is being altered ... so that we can check it again in the next epoch": the
\* same without the second exception.
EveryChangeSeen ==
    ~full => \A r \in Rels : Differs(r) => Known(r)

\* relation_cache and relid_cache stay inverse to each other through insertions
\* when they are full, removal by relation and removal by relfilenode, and an
\* entry has its file: the unlink hook and the collector together leave no
\* entry behind a dropped or aborted table.
CachesPaired ==
    /\ \A r \in Rels, f \in Files : relation_cache[r] = f <=> relid_cache[f] = r
    /\ \A r \in Rels : relation_cache[r] # NoFile =>
           \/ relation_cache[r] \in onDisk
           \/ \E s \in Rels : tx[s].stage = "forget" /\ tx[s].garbage = relation_cache[r]

\* gp_activetable.c:190 "we need to do the cleaning here to avoid memory leak":
\* the map has no entry of a file that is gone, except the ones that the
\* collector had in its local map when active_table_hook_smgrunlink cleaned the
\* shared one.  Those it puts back, and they stay.
NoEntryOfDeadFile ==
    active_tables_map \subseteq onDisk \cup outlived
=============================================================================
