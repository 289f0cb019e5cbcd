------------------------- MODULE ActiveTablesProofs -------------------------
(***************************************************************************)
(* Proofs, for any number of tables and files, any sizes and any limit of  *)
(* the maps, that the collector loses no change, that the two relation     *)
(* caches stay inverse to each other, and that only a file unlinked under  *)
(* the collector leaves an entry behind.                                   *)
(***************************************************************************)
EXTENDS ActiveTables, FiniteSetTheorems, TLAPS

(***************************************************************************)
(* The inductive invariant.  Who owns a file: a table, or the transaction  *)
(* that made it or will unlink it, and never two of them.                  *)
(***************************************************************************)
Ends    == {"ending", "unlink", "forget"}
Held(s) == IF tx[s].stage = "open" THEN tx[s].file ELSE tx[s].garbage

Shape(s) ==
    /\ tx[s].stage = "none" => tx[s] = NoTx
    /\ tx[s].stage = "open" =>
          /\ tx[s].garbage = NoFile /\ tx[s].via \in Rels
          /\ tx[s].kind # "swap" => tx[s].via = s
          /\ tx[s].kind = "drop" \/ tx[s].file \in Files
    /\ tx[s].stage \in {"unlink", "forget"} => tx[s].garbage \in Files

Owned ==
    /\ \A s \in Rels : Shape(s)
    /\ \A r, s \in Rels : pg_class[r] # NoFile /\ pg_class[r] = pg_class[s] => r = s
    /\ \A r, s \in Rels : Held(r) # NoFile /\ Held(r) = Held(s) => r = s
    /\ \A r, s \in Rels : Held(s) # NoFile => pg_class[r] # Held(s)
    /\ \A r \in Rels : pg_class[r] # NoFile => pg_class[r] \in onDisk /\ r \notin freshRels
    /\ \A s \in Rels : Held(s) # NoFile /\ tx[s].stage # "forget" => Held(s) \in onDisk
    /\ \A s \in Rels : Held(s) \notin fresh
    /\ onDisk \cap fresh = {}

\* The relation a transaction inserts into the cache is new, and its own.
Making(s) == tx[s].stage = "open" /\ tx[s].kind \in {"create", "swap"}

NewRels ==
    /\ \A s \in Rels : tx[s].stage = "open" => s \notin freshRels
    /\ \A s \in Rels : Making(s) => tx[s].via \notin freshRels
    /\ \A s, u \in Rels : Making(s) /\ Making(u) /\ tx[s].via = tx[u].via => s = u

\* A file that is given up has been reported.
Reported ==
    /\ unreported \subseteq onDisk
    /\ \A s \in Rels : tx[s].stage = "open" => pg_class[s] \notin unreported
    /\ \A s \in Rels : tx[s].stage \in Ends => tx[s].garbage \notin unreported

\* Entries, also those in the collector's hands, are of files that existed.
Entries ==
    /\ active_tables_map \cup InCollector \subseteq onDisk \cup outlived
    /\ outlived \cap fresh = {}

\* The caches before and after the insertion of a transaction.
Cached ==
    /\ CachesPaired
    /\ IsFiniteSet(CachedRels)
    /\ \A r \in freshRels : relation_cache[r] = NoFile
    /\ \A s \in Rels : Making(s) /\ ~tx[s].created => relation_cache[tx[s].via] = NoFile
    /\ \A s \in Rels : tx[s].stage = "open" /\ tx[s].file # NoFile =>
           relid_cache[tx[s].file] \in {NoRel, tx[s].via}
    /\ \A s \in Rels : tx[s].stage = "open" /\ tx[s].file # NoFile /\ ~tx[s].created =>
           relid_cache[tx[s].file] = NoRel

\* What the collector holds at its control points.
Collecting ==
    /\ pc # "map" => hand = NoHand
    /\ pc \notin {"clean", "map"} => todo = {}
    /\ pc \in {"idle", "clean", "measure"} => kept = {}
    /\ hand # NoHand => hand.file \in Files /\ hand.rel \in Rels

(***************************************************************************)
(* NoLostChange itself is too weak: a table in altered_reloid_cache alone  *)
(* would be lost when RemoveAltered forgets it, and a file in hand alone   *)
(* when it was looked up as the transient table's.  OnItsWay leaves both   *)
(* out, and Tracked says the same of files that are not committed yet.     *)
(***************************************************************************)
OnItsWay(r) ==
    \/ pg_class[r] \in active_tables_map \cup todo \cup kept \cup unreported
    \/ hand.file = pg_class[r] /\ hand.rel = r
    \/ r \in stats
    \/ r \in altered_reloid_cache /\ pc \notin {"test", "remove"}

NewFileTracked(s) ==
    tx[s].stage = "open" /\ tx[s].file # NoFile =>
        \/ tx[s].file \in active_tables_map \cup todo \cup kept \cup unreported
        \/ hand.file = tx[s].file /\ hand.rel = tx[s].via

AlterationTracked(s) ==
    tx[s].stage \in {"open", "ending"} /\ tx[s].altered => s \in altered_reloid_cache \cup unread

Tracked ==
    ~full => /\ \A s \in Rels : NewFileTracked(s) /\ AlterationTracked(s)
             /\ \A r \in Rels \ unread : Differs(r) => OnItsWay(r)

IndInv == TypeOK /\ Owned /\ NewRels /\ Reported /\ Entries /\ Cached /\ Collecting /\ Tracked

-----------------------------------------------------------------------------
(***************************************************************************)
(* What is left alone by a step that does not touch its variables.         *)
(***************************************************************************)
\* Steps of the collector leave files, transactions and reports to sessions.
LEMMA SessionFrame ==
    ASSUME IndInv, UNCHANGED sessVars
    PROVE  Owned' /\ NewRels' /\ Reported'
<1>1. Owned'
  BY Zenon DEF IndInv, Owned, Held, Shape, sessVars, diskVars
<1>2. NewRels'
  BY Zenon DEF IndInv, NewRels, Making, sessVars, diskVars
<1>3. Reported'
  BY Zenon DEF IndInv, Reported, sessVars, diskVars
<1> QED
  BY <1>1, <1>2, <1>3, Zenon

\* The caches depend on files and transactions only.
LEMMA CacheFrame ==
    ASSUME IndInv, UNCHANGED <<cacheVars, onDisk, freshRels, tx>>
    PROVE  Cached'
BY Zenon DEF IndInv, Cached, CachesPaired, CachedRels, Making, cacheVars

\* The entries depend on the files and on the collector's local maps.
LEMMA EntriesFrame ==
    ASSUME IndInv, UNCHANGED <<active_tables_map, todo, kept, hand, onDisk, outlived, fresh>>
    PROVE  Entries'
BY Zenon DEF IndInv, Entries, InCollector

\* The collector's control points.
LEMMA CollectingFrame ==
    ASSUME IndInv, UNCHANGED collVars
    PROVE  Collecting'
BY Zenon DEF IndInv, Collecting, collVars

\* The initial state satisfies the invariant.
LEMMA ActiveInit == Init => IndInv
<1> SUFFICES ASSUME Init PROVE IndInv
  BY Zenon
<1> USE ActiveAssumption
<1> PICK r \in Rels, f \in Files :
         /\ pg_class = [Empty(Rels, NoFile) EXCEPT ![r] = f]
         /\ onDisk = {f}
         /\ freshRels = Rels \ {r} /\ fresh = Files \ {f}
  BY Zenon DEF Init
<1>0. /\ pg_class \in [Rels -> Files \cup {NoFile}]
      /\ \A s \in Rels : pg_class[s] = IF s = r THEN f ELSE NoFile
      /\ \A s \in Rels : tx[s] = NoTx
      /\ NoTx.stage = "none" /\ NoTx.garbage = NoFile
  BY Zenon DEF Init, Empty, NoTx
<1>1. TypeOK
  <2>1. tx \in [Rels -> [stage : Stages, kind : Kinds, file : Files \cup {NoFile},
                        via : Rels \cup {NoRel}, garbage : Files \cup {NoFile},
                        created : BOOLEAN, altered : BOOLEAN]]
    BY Zenon DEF Init, Empty, NoTx, Stages, Kinds
  <2>2. hand \in [file : Files \cup {NoFile}, rel : Rels \cup {NoRel}]
    BY Zenon DEF Init, NoHand
  <2>3. 0 \in 0 .. MaxSize /\ 0 \in 0 .. MaxWrites
    OBVIOUS
  <2>4. /\ size \in [Files -> 0 .. MaxSize] /\ measured \in [Rels -> 0 .. MaxSize]
        /\ relation_cache \in [Rels -> Files \cup {NoFile}]
        /\ relid_cache \in [Files -> Rels \cup {NoRel}]
    BY <2>3, Zenon DEF Init, Empty
  <2> QED
    BY <1>0, <2>1, <2>2, <2>3, <2>4, Zenon DEF Init, TypeOK
<1>2. Owned
  BY <1>0, Zenon DEF Owned, Held, Shape
<1>3. NewRels
  BY <1>0, Zenon DEF NewRels, Making
<1>4. Reported
  BY <1>0, Zenon DEF Reported, Ends, Init
<1>5. Entries
  BY Zenon DEF Entries, InCollector, Init, NoHand
<1>6. Cached
  <2>1. CachedRels = {}
    BY Zenon DEF CachedRels, Init, Empty
  <2> QED
    BY <1>0, <2>1, FS_EmptySet, Zenon DEF Cached, CachesPaired, Making, Init, Empty
<1>7. Collecting
  BY Zenon DEF Collecting, Init
<1>8. Tracked
  BY <1>0, Zenon DEF Tracked, NewFileTracked, AlterationTracked, Differs, Init, Empty
<1> QED
  BY <1>1, <1>2, <1>3, <1>4, <1>5, <1>6, <1>7, <1>8, Zenon DEF IndInv

-----------------------------------------------------------------------------
(***************************************************************************)
(* Sessions.                                                               *)
(***************************************************************************)
TxRecords == [stage : Stages, kind : Kinds, file : Files \cup {NoFile},
              via : Rels \cup {NoRel}, garbage : Files \cup {NoFile},
              created : BOOLEAN, altered : BOOLEAN]

\* A cached file is known to the disk or to a transaction that unlinked it, so
\* a file that was never used is in neither cache.
LEMMA FreshNotCached ==
    ASSUME IndInv, NEW f \in fresh
    PROVE  relid_cache[f] = NoRel
<1> USE ActiveAssumption
<1>1. f \in Files /\ f # NoFile
  BY Zenon DEF IndInv, TypeOK
<1>2. SUFFICES ASSUME relid_cache[f] \in Rels PROVE FALSE
  BY <1>1, Zenon DEF IndInv, TypeOK
<1>3. relation_cache[relid_cache[f]] = f
  BY <1>1, <1>2 DEF IndInv, Cached, CachesPaired
<1>4. \/ f \in onDisk
      \/ \E s \in Rels : tx[s].stage = "forget" /\ tx[s].garbage = f
  BY <1>1, <1>2, <1>3 DEF IndInv, Cached, CachesPaired
<1>5. f \notin onDisk
  BY Zenon DEF IndInv, Owned
<1>6. \A s \in Rels : tx[s].stage = "forget" => tx[s].garbage # f
  BY Zenon DEF IndInv, Owned, Held
<1> QED
  BY <1>4, <1>5, <1>6, Zenon

\* smgrcreate: the file is new to everyone and waits for its hook.
LEMMA NewFileInv ==
    ASSUME IndInv, NEW r \in Rels, NEW via \in Rels, NEW f \in Files,
           NEW kind \in {"create", "rewrite", "swap"}, NewFile(r, kind, via, f),
           kind # "swap" => via = r,
           kind # "rewrite" => via \in freshRels,
           pg_class[r] \notin unreported
    PROVE  IndInv'
<1> USE ActiveAssumption
<1>0. /\ tx' = [tx EXCEPT ![r] = [NoTx EXCEPT !.stage = "open", !.kind = kind,
                                              !.file = f, !.via = via]]
      /\ f \in fresh /\ tx[r].stage = "none"
      /\ onDisk' = onDisk \cup {f} /\ unreported' = unreported \cup {f}
      /\ freshRels' = freshRels \ {r, via} /\ fresh' = fresh \ {f}
      /\ UNCHANGED <<pg_class, size, writes, active_tables_map, altered_reloid_cache,
                     relation_cache, relid_cache, pc, todo, kept, hand, stats, localAltered,
                     measured, full, unread, outlived>>
  BY Zenon DEF NewFile, SharedUnchanged, RestUnchanged, cacheVars, collVars
<1>1. TypeOK'
  <2>1. [NoTx EXCEPT !.stage = "open", !.kind = kind, !.file = f, !.via = via] \in TxRecords
    BY Zenon DEF NoTx, TxRecords, Stages, Kinds
  <2>2. tx' \in [Rels -> TxRecords]
    BY <1>0, <2>1, Zenon DEF IndInv, TypeOK, TxRecords
  <2> QED
    BY <1>0, <2>2 DEF IndInv, TypeOK, TxRecords
<1>2. /\ tx'[r].stage = "open" /\ tx'[r].file = f /\ tx'[r].via = via /\ tx'[r].kind = kind
      /\ tx'[r].garbage = NoFile /\ tx'[r].created = FALSE /\ tx'[r].altered = FALSE
      /\ \A s \in Rels \ {r} : tx'[s] = tx[s]
      /\ tx[r] = NoTx
  BY <1>0 DEF NoTx, IndInv, TypeOK, Owned, Shape
<1>3. f # NoFile /\ f \notin onDisk /\ (\A s \in Rels : pg_class[s] # f /\ Held(s) # f)
  BY <1>0 DEF IndInv, Owned
<1>4. Owned'
  <2>1. Held(r)' = f /\ \A s \in Rels \ {r} : Held(s)' = Held(s)
    BY <1>2, Zenon DEF Held
  <2>2. \A s \in Rels : Shape(s)'
    BY <1>2 DEF Shape, IndInv, Owned
  <2>3. \A s \in Rels : Held(s)' # NoFile /\ tx'[s].stage # "forget" => Held(s)' \in onDisk'
    BY <1>0, <1>2, <2>1 DEF IndInv, Owned
  <2> QED
    BY <1>0, <1>2, <1>3, <2>1, <2>2, <2>3 DEF IndInv, Owned
<1>5. NewRels'
  BY <1>0, <1>2 DEF IndInv, NewRels, Making
<1>6. Reported'
  <2>1. \A s \in Rels : tx'[s].stage \in Ends => tx'[s].garbage # f
    BY <1>2, <1>3, Zenon DEF Held, Ends
  <2> QED
    BY <1>0, <1>2, <1>3, <2>1 DEF IndInv, Reported, Ends
<1>7. Entries'
  BY <1>0, Zenon DEF IndInv, Entries, InCollector
<1>8. Cached'
  <2>1. relid_cache[f] = NoRel
    BY <1>0, FreshNotCached, Zenon
  <2>2. kind # "rewrite" => relation_cache[via] = NoFile
    BY Zenon DEF IndInv, Cached
  <2>3. CachesPaired'
    <3>1. \A s \in Rels : tx[s].stage = "forget" => tx'[s] = tx[s]
      BY <1>0, <1>2, Zenon
    <3> QED
      BY <1>0, <3>1 DEF IndInv, Cached, CachesPaired
  <2> QED
    BY <1>0, <1>2, <2>1, <2>2, <2>3 DEF IndInv, Cached, Making, CachedRels
<1>9. Collecting'
  BY <1>0, Zenon DEF IndInv, Collecting
<1>10. Tracked'
  BY <1>0, <1>2 DEF IndInv, Tracked, NewFileTracked, AlterationTracked, Differs, OnItsWay
<1> QED
  BY <1>1, <1>4, <1>5, <1>6, <1>7, <1>8, <1>9, <1>10, Zenon DEF IndInv

\* CREATE, a rewrite in place, and the transient table of a swap.
LEMMA CreateInv ==
    ASSUME IndInv, NEW r \in Rels, NEW f \in Files,
           \/ CreateTable(r, f) \/ RewriteTable(r, f)
           \/ \E x \in Rels \ {r} : SwapTable(r, x, f)
    PROVE  IndInv'
<1>1. CASE CreateTable(r, f)
  <2>1. pg_class[r] \notin unreported
    BY <1>1, ActiveAssumption DEF CreateTable, IndInv, Owned, TypeOK
  <2> QED
    BY <1>1, <2>1, NewFileInv, Zenon DEF CreateTable
<1>2. CASE RewriteTable(r, f)
  BY <1>2, NewFileInv, Zenon DEF RewriteTable, Quiet
<1>3. ASSUME NEW x \in Rels \ {r}, SwapTable(r, x, f) PROVE IndInv'
  BY <1>3, NewFileInv, Zenon DEF SwapTable, Quiet
<1> QED
  BY <1>1, <1>2, <1>3, Zenon

\* DROP TABLE takes its lock; the file goes with the commit.
LEMMA DropInv ==
    ASSUME IndInv, NEW r \in Rels, DropTable(r)
    PROVE  IndInv'
<1> USE ActiveAssumption
<1>0. /\ tx' = [tx EXCEPT ![r] = [NoTx EXCEPT !.stage = "open", !.kind = "drop", !.via = r]]
      /\ tx[r].stage = "none" /\ pg_class[r] \notin unreported /\ pg_class[r] # NoFile
      /\ UNCHANGED <<pg_class, size, onDisk, freshRels, fresh, unreported, writes,
                     active_tables_map, altered_reloid_cache, relation_cache, relid_cache, pc,
                     todo, kept, hand, stats, localAltered, measured, full, unread, outlived>>
  BY Zenon DEF DropTable, Quiet, SharedUnchanged, RestUnchanged, cacheVars, collVars, diskVars
<1>1. TypeOK'
  <2>1. [NoTx EXCEPT !.stage = "open", !.kind = "drop", !.via = r] \in TxRecords
    BY Zenon DEF NoTx, TxRecords, Stages, Kinds
  <2> QED
    BY <1>0, <2>1, Zenon DEF IndInv, TypeOK, TxRecords
<1>2. /\ tx'[r].stage = "open" /\ tx'[r].file = NoFile /\ tx'[r].via = r /\ tx'[r].kind = "drop"
      /\ tx'[r].garbage = NoFile /\ tx'[r].created = FALSE /\ tx'[r].altered = FALSE
      /\ \A s \in Rels \ {r} : tx'[s] = tx[s]
  BY <1>0, Zenon DEF NoTx, IndInv, TypeOK
<1>3. Owned'
  <2>1. Held(r)' = NoFile /\ \A s \in Rels \ {r} : Held(s)' = Held(s)
    BY <1>2, Zenon DEF Held
  <2>2. \A s \in Rels : Shape(s)'
    BY <1>2 DEF Shape, IndInv, Owned
  <2>3. NoFile \notin fresh
    BY Zenon DEF IndInv, TypeOK
  <2> QED
    BY <1>0, <1>2, <2>1, <2>2, <2>3 DEF IndInv, Owned
<1>4. NewRels'
  BY <1>0, <1>2 DEF IndInv, NewRels, Making, Owned
<1>5. Reported'
  BY <1>0, <1>2 DEF IndInv, Reported, Ends
<1>6. Cached'
  <2>1. CachesPaired'
    <3>1. \A s \in Rels : tx[s].stage = "forget" => tx'[s] = tx[s]
      BY <1>0, <1>2, Zenon
    <3> QED
      BY <1>0, <3>1 DEF IndInv, Cached, CachesPaired
  <2> QED
    BY <1>0, <1>2, <2>1 DEF IndInv, Cached, Making, CachedRels
<1>7. Tracked'
  BY <1>0, <1>2 DEF IndInv, Tracked, NewFileTracked, AlterationTracked, Differs, OnItsWay
<1>8. Entries' /\ Collecting'
  BY <1>0, EntriesFrame, CollectingFrame, Zenon DEF collVars
<1> QED
  BY <1>1, <1>3, <1>4, <1>5, <1>6, <1>7, <1>8, Zenon DEF IndInv

\* A write to a file that exists: only its owner writes, and will report it.
LEMMA WriteInv ==
    ASSUME IndInv, NEW r \in Rels, NEW f \in Files, NEW n \in 0 .. MaxSize, Write(r, f, n)
    PROVE  IndInv'
<1> USE ActiveAssumption
<1>0. /\ writes < MaxWrites /\ writes' = writes + 1
      /\ f \in onDisk
      /\ size' = [size EXCEPT ![f] = n]
      /\ unreported' = unreported \cup {f}
      /\ UNCHANGED <<pg_class, onDisk, freshRels, fresh, tx,
                     active_tables_map, altered_reloid_cache, relation_cache, relid_cache, pc,
                     todo, kept, hand, stats, localAltered, measured, full, unread, outlived>>
  BY Zenon DEF Write, SharedUnchanged, RestUnchanged, cacheVars, collVars
<1>1. TypeOK'
  <2>1. writes' \in 0 .. MaxWrites
    BY <1>0 DEF IndInv, TypeOK
  <2>2. size' \in [Files -> 0 .. MaxSize]
    BY <1>0, Zenon DEF IndInv, TypeOK
  <2> QED
    BY <1>0, <2>1, <2>2, Zenon DEF IndInv, TypeOK
<1>2. Owned' /\ NewRels'
  BY <1>0 DEF IndInv, Owned, Held, Shape, NewRels, Making
<1>3. Reported'
  <2>1. f # NoFile
    BY Zenon
  <2>2. CASE tx[r].stage = "open" /\ tx[r].file = f
    <3>1. Held(r) = f
      BY <2>2, Zenon DEF Held
    <3>2. \A s \in Rels : tx[s].stage \in Ends => tx[s].garbage # f
      BY <2>1, <2>2, <3>1, Zenon DEF IndInv, Owned, Held, Ends
    <3>3. \A s \in Rels : pg_class[s] # f
      BY <2>1, <3>1, Zenon DEF IndInv, Owned
    <3> QED
      BY <1>0, <3>2, <3>3, Zenon DEF IndInv, Reported
  <2>3. CASE pg_class[r] = f /\ tx[r].stage = "none"
    <3>1. \A s \in Rels : tx[s].stage = "open" => pg_class[s] # f
      BY <2>1, <2>3, Zenon DEF IndInv, Owned
    <3>2. \A s \in Rels : tx[s].stage \in Ends => tx[s].garbage # f
      BY <2>1, <2>3, Zenon DEF IndInv, Owned, Held, Ends
    <3> QED
      BY <1>0, <3>1, <3>2, Zenon DEF IndInv, Reported
  <2> QED
    BY <2>2, <2>3, Zenon DEF Write
<1>4. Entries' /\ Collecting' /\ Cached'
  BY <1>0, EntriesFrame, CollectingFrame, CacheFrame, Zenon DEF collVars, cacheVars
<1>5. Tracked'
  <2>1. ASSUME NEW s \in Rels, pg_class[s] # f PROVE Differs(s)' <=> Differs(s)
    <3>1. pg_class[s] # NoFile => size'[pg_class[s]] = size[pg_class[s]]
      BY <1>0, <2>1, Zenon DEF IndInv, TypeOK
    <3> QED
      BY <1>0, <3>1, Zenon DEF Differs
  <2>2. \A s \in Rels : OnItsWay(s) \/ pg_class[s] = f => OnItsWay(s)'
    BY <1>0, Zenon DEF OnItsWay
  <2>3. \A s \in Rels : NewFileTracked(s) /\ AlterationTracked(s)
                            => NewFileTracked(s)' /\ AlterationTracked(s)'
    BY <1>0, Zenon DEF NewFileTracked, AlterationTracked
  <2> QED
    BY <1>0, <2>1, <2>2, <2>3, Zenon DEF IndInv, Tracked
<1> QED
  BY <1>1, <1>2, <1>3, <1>4, <1>5, Zenon DEF IndInv

\* A full map takes none of the new entries, and full says so.
LEMMA FitsOne ==
    ASSUME NEW M, NEW x, NEW S \in Fits(M, {x})
    PROVE  M \cup S \subseteq M \cup {x} /\ (S = {x} \ M => x \in M \cup S)
BY Zenon DEF Fits

\* The hook moves a file from the reports to come to the shared map.
LEMMA ReportInv ==
    ASSUME IndInv, NEW f \in Files, Report(f)
    PROVE  IndInv'
<1> USE ActiveAssumption
<1>0. PICK S \in Fits(active_tables_map, {f}) :
        /\ active_tables_map' = active_tables_map \cup S
        /\ full' = (full \/ S # {f} \ active_tables_map)
  BY Zenon DEF Report
<1>1. /\ f \in unreported /\ unreported' = unreported \ {f}
      /\ UNCHANGED <<pg_class, onDisk, size, freshRels, fresh, tx, writes,
                     altered_reloid_cache, relation_cache, relid_cache, pc,
                     todo, kept, hand, stats, localAltered, measured, unread, outlived>>
  BY Zenon DEF Report, diskVars, cacheVars, collVars
<1>2. /\ active_tables_map' \subseteq active_tables_map \cup {f}
      /\ active_tables_map \subseteq active_tables_map'
      /\ ~full' => ~full /\ f \in active_tables_map'
  BY <1>0, FitsOne, Zenon
<1>3. TypeOK'
  BY <1>0, <1>1, <1>2, Zenon DEF IndInv, TypeOK
<1>4. Owned' /\ NewRels'
  BY <1>1, Zenon DEF IndInv, Owned, Held, Shape, NewRels, Making
<1>5. Reported'
  BY <1>1, Zenon DEF IndInv, Reported
<1>6. Entries'
  BY <1>1, <1>2, Zenon DEF IndInv, Entries, Reported, InCollector
<1>7. Cached' /\ Collecting'
  BY <1>1, CacheFrame, CollectingFrame, Zenon DEF collVars, cacheVars
<1>8. Tracked'
  <2> SUFFICES ASSUME ~full' PROVE Tracked'
    BY Zenon DEF Tracked
  <2>1. \A s \in Rels : OnItsWay(s) => OnItsWay(s)'
    BY <1>1, <1>2, Zenon DEF OnItsWay
  <2>2. \A s \in Rels : NewFileTracked(s) => NewFileTracked(s)'
    BY <1>1, <1>2, Zenon DEF NewFileTracked
  <2>3. \A s \in Rels : AlterationTracked(s) => AlterationTracked(s)'
    BY <1>1, Zenon DEF AlterationTracked
  <2>4. \A s \in Rels : Differs(s)' <=> Differs(s)
    BY <1>1, Zenon DEF Differs
  <2> QED
    BY <1>1, <1>2, <2>1, <2>2, <2>3, <2>4, Zenon DEF IndInv, Tracked
<1> QED
  BY <1>3, <1>4, <1>5, <1>6, <1>7, <1>8, Zenon DEF IndInv

\* Caches that are inverse to each other have the same number of entries, so
\* that an entry fits into both or into none (update_relation_cache).
LEMMA SameFill ==
    ASSUME IndInv
    PROVE  /\ IsFiniteSet(CachedFiles)
           /\ Cardinality(CachedFiles) = Cardinality(CachedRels)
<1> USE ActiveAssumption
<1> DEFINE b == [r \in CachedRels |-> relation_cache[r]]
<1>1. /\ relation_cache \in [Rels -> Files \cup {NoFile}]
      /\ relid_cache \in [Files -> Rels \cup {NoRel}]
      /\ \A r \in Rels, f \in Files : relation_cache[r] = f <=> relid_cache[f] = r
  BY Zenon DEF IndInv, TypeOK, Cached, CachesPaired
<1>2. b \in [CachedRels -> CachedFiles]
  BY <1>1 DEF CachedRels, CachedFiles
<1>3. \A r, s \in CachedRels : b[r] = b[s] => r = s
  BY <1>1 DEF CachedRels
<1>4. \A f \in CachedFiles : relid_cache[f] \in CachedRels /\ b[relid_cache[f]] = f
  BY <1>1 DEF CachedRels, CachedFiles
<1>5. b \in Injection(CachedRels, CachedFiles)
  BY <1>2, <1>3, Zenon DEF Injection, IsInjective
<1>6. b \in Surjection(CachedRels, CachedFiles)
  BY <1>2, <1>4, Zenon DEF Surjection
<1>7. ExistsBijection(CachedRels, CachedFiles)
  BY <1>5, <1>6, Zenon DEF ExistsBijection, Bijection
<1>8. IsFiniteSet(CachedRels)
  BY Zenon DEF IndInv, Cached
<1> QED
  BY <1>7, <1>8, FS_Bijection, Zenon

\* The records of transactions.
LEMMA TxType ==
    ASSUME IndInv, NEW r \in Rels
    PROVE  tx \in [Rels -> TxRecords] /\ tx[r] \in TxRecords
BY Zenon DEF IndInv, TypeOK, TxRecords

\* A step of the transaction on r replaces its record and no other.
LEMMA OneTx ==
    ASSUME IndInv, NEW r \in Rels, NEW v \in TxRecords, tx' = [tx EXCEPT ![r] = v]
    PROVE  /\ tx' \in [Rels -> TxRecords] /\ tx'[r] = v
           /\ \A s \in Rels \ {r} : tx'[s] = tx[s]
BY Zenon DEF IndInv, TypeOK, TxRecords

\* update_relation_cache: both caches take the new relation, or none does.
LEMMA PostCreateInv ==
    ASSUME IndInv, NEW r \in Rels, PostCreate(r)
    PROVE  IndInv'
<1> USE ActiveAssumption
<1> DEFINE t == tx[r].via
           f == tx[r].file
           room == Cardinality(CachedRels) < MaxActive
<1>0. /\ tx[r].stage = "open" /\ tx[r].kind \in {"create", "swap"} /\ ~tx[r].created
      /\ tx' = [tx EXCEPT ![r].created = TRUE]
      /\ full' = (full \/ ~room)
      /\ UNCHANGED <<pg_class, onDisk, size, freshRels, fresh, unreported, writes,
                     active_tables_map, altered_reloid_cache, pc, todo, kept, hand, stats,
                     localAltered, measured, unread, outlived>>
  BY SameFill, Zenon DEF PostCreate, diskVars, collVars
<1>1. /\ relation_cache' = IF room THEN [relation_cache EXCEPT ![t] = f] ELSE relation_cache
      /\ relid_cache' = IF room THEN [relid_cache EXCEPT ![f] = t] ELSE relid_cache
  BY SameFill, Zenon DEF PostCreate
<1>2. t \in Rels /\ t \notin freshRels
  BY <1>0, Zenon DEF IndInv, Owned, Shape, NewRels, Making
<1>3. /\ tx[r] \in TxRecords /\ tx' \in [Rels -> TxRecords]
      /\ tx'[r] = [tx[r] EXCEPT !.created = TRUE]
      /\ \A s \in Rels \ {r} : tx'[s] = tx[s]
  <2>1. tx \in [Rels -> TxRecords] /\ tx[r] \in TxRecords
    BY Zenon DEF IndInv, TypeOK, TxRecords
  <2>2. tx' = [tx EXCEPT ![r] = [tx[r] EXCEPT !.created = TRUE]]
    BY <1>0, <2>1, Zenon
  <2>3. [tx[r] EXCEPT !.created = TRUE] \in TxRecords
    BY <2>1, Zenon DEF TxRecords
  <2> QED
    BY <2>1, <2>2, <2>3, Zenon
<1>4. /\ \A s \in Rels : /\ tx'[s].stage = tx[s].stage /\ tx'[s].kind = tx[s].kind
                         /\ tx'[s].file = tx[s].file /\ tx'[s].via = tx[s].via
                         /\ tx'[s].garbage = tx[s].garbage /\ tx'[s].altered = tx[s].altered
      /\ tx'[r].created = TRUE
  BY <1>3 DEF TxRecords
<1>5. f \in Files /\ f # NoFile /\ f \in onDisk /\ Held(r) = f
  BY <1>0, Zenon DEF IndInv, Owned, Shape, Held
<1>10. Owned'
  <2>1. \A s \in Rels : Held(s)' = Held(s)
    BY <1>4, Zenon DEF Held
  <2>2. \A s \in Rels : Shape(s)'
    <3>1. Shape(r)'
      BY <1>0, <1>4 DEF IndInv, Owned, Shape
    <3> QED
      BY <1>3, <3>1, Zenon DEF IndInv, Owned, Shape
  <2> QED
    BY <1>0, <1>4, <2>1, <2>2 DEF IndInv, Owned
<1>11. NewRels' /\ Reported'
  BY <1>0, <1>4 DEF IndInv, NewRels, Making, Reported
<1>12. Entries' /\ Collecting'
  BY <1>0, EntriesFrame, CollectingFrame, Zenon DEF collVars
<1>13. Tracked'
  <2>1. \A s \in Rels : OnItsWay(s)' <=> OnItsWay(s)
    BY <1>0, Zenon DEF OnItsWay
  <2>2. \A s \in Rels : /\ NewFileTracked(s)' <=> NewFileTracked(s)
                        /\ AlterationTracked(s)' <=> AlterationTracked(s)
    BY <1>0, <1>4 DEF NewFileTracked, AlterationTracked
  <2>3. \A s \in Rels : Differs(s)' <=> Differs(s)
    BY <1>0, Zenon DEF Differs
  <2> QED
    BY <1>0, <2>1, <2>2, <2>3, Zenon DEF IndInv, Tracked
<1>14. TypeOK' /\ Cached'
  <2>1. CASE ~room
    <3>1. UNCHANGED <<relation_cache, relid_cache>>
      BY <1>1, <2>1, Zenon
    <3>2. TypeOK'
      BY <1>0, <1>3, <3>1, Zenon DEF IndInv, TypeOK, TxRecords
    <3>3. CachesPaired' /\ CachedRels' = CachedRels
      BY <1>0, <1>4, <3>1 DEF IndInv, Cached, CachesPaired, CachedRels
    <3>4. \A s \in Rels : tx'[s].stage = "open" /\ ~tx'[s].created => ~tx[s].created
      BY <1>3, <1>4, Zenon
    <3> QED
      BY <1>0, <1>4, <3>1, <3>2, <3>3, <3>4 DEF IndInv, Cached, Making
  <2>2. CASE room
    <3>1. /\ relation_cache' = [relation_cache EXCEPT ![t] = f]
          /\ relid_cache' = [relid_cache EXCEPT ![f] = t]
      BY <1>1, <2>2, Zenon
    <3>2. TypeOK'
      BY <1>0, <1>2, <1>3, <1>5, <3>1, Zenon DEF IndInv, TypeOK, TxRecords
    <3>3. relation_cache[t] = NoFile /\ relid_cache[f] = NoRel /\ t # NoRel
      BY <1>0, <1>2, <1>5, Zenon DEF IndInv, Cached, Making
    <3>4. /\ relation_cache'[t] = f /\ relid_cache'[f] = t
          /\ \A s \in Rels \ {t} : relation_cache'[s] = relation_cache[s]
          /\ \A g \in Files \ {f} : relid_cache'[g] = relid_cache[g]
      BY <1>2, <1>5, <3>1, Zenon DEF IndInv, TypeOK
    <3>5. CachesPaired'
      <4>1. ASSUME NEW s \in Rels, NEW g \in Files
            PROVE  relation_cache'[s] = g <=> relid_cache'[g] = s
        <5>1. relation_cache[s] = g <=> relid_cache[g] = s
          BY Zenon DEF IndInv, Cached, CachesPaired
        <5> QED
          BY <1>2, <1>5, <3>3, <3>4, <5>1, Zenon
      <4>2. ASSUME NEW s \in Rels, relation_cache'[s] # NoFile
            PROVE  \/ relation_cache'[s] \in onDisk'
                   \/ \E u \in Rels : tx'[u].stage = "forget" /\ tx'[u].garbage = relation_cache'[s]
        BY <1>0, <1>4, <1>5, <3>4, <4>2 DEF IndInv, Cached, CachesPaired
      <4> QED
        BY <4>1, <4>2, Zenon DEF CachesPaired
    <3>6. IsFiniteSet(CachedRels)'
      <4>1. CachedRels' \in SUBSET (CachedRels \cup {t})
        BY <3>4, Zenon DEF CachedRels
      <4>2. IsFiniteSet(CachedRels \cup {t})
        BY FS_AddElement, Zenon DEF IndInv, Cached
      <4> QED
        BY <4>1, <4>2, FS_Subset, Zenon
    <3>7. \A s \in Rels : Making(s)' /\ ~tx'[s].created => relation_cache'[tx'[s].via] = NoFile
      <4>1. ASSUME NEW s \in Rels, Making(s)', ~tx'[s].created
            PROVE  relation_cache'[tx'[s].via] = NoFile
        <5>1. s # r /\ Making(s) /\ ~tx[s].created /\ Making(r)
          BY <1>0, <1>3, <1>4, <4>1, Zenon DEF Making
        <5>2. tx[s].via # t /\ tx[s].via \in Rels
          BY <5>1, Zenon DEF IndInv, NewRels, Owned, Shape, Making
        <5>3. relation_cache[tx[s].via] = NoFile
          BY <5>1, Zenon DEF IndInv, Cached
        <5> QED
          BY <1>4, <3>4, <5>2, <5>3
      <4> QED
        BY <4>1, Zenon
    <3>8. ASSUME NEW s \in Rels, tx'[s].stage = "open", tx'[s].file # NoFile
          PROVE  /\ relid_cache'[tx'[s].file] \in {NoRel, tx'[s].via}
                 /\ ~tx'[s].created => relid_cache'[tx'[s].file] = NoRel
      <4>1. CASE s = r
        BY <1>4, <3>4, <4>1, Zenon
      <4>2. CASE s # r
        <5>1. tx'[s] = tx[s] /\ tx[s].file # f /\ tx[s].file \in Files
          BY <1>0, <1>3, <1>5, <3>8, <4>2 DEF IndInv, Owned, Held, TypeOK
        <5> QED
          BY <3>4, <3>8, <5>1 DEF IndInv, Cached
      <4> QED
        BY <4>1, <4>2, Zenon
    <3>9. \A s \in freshRels' : relation_cache'[s] = NoFile
      BY <1>0, <1>2, <3>4, Zenon DEF IndInv, Cached, TypeOK
    <3> QED
      BY <3>2, <3>5, <3>6, <3>7, <3>8, <3>9, Zenon DEF Cached
  <2> QED
    BY <2>1, <2>2, Zenon
<1> QED
  BY <1>10, <1>11, <1>12, <1>13, <1>14, Zenon DEF IndInv

\* report_altered_reloid: the table is in the map, or the map was full.
LEMMA PostAlterInv ==
    ASSUME IndInv, NEW r \in Rels, PostAlter(r)
    PROVE  IndInv'
<1> USE ActiveAssumption
<1>0. PICK S \in Fits(altered_reloid_cache, {r}) :
        /\ altered_reloid_cache' = altered_reloid_cache \cup S
        /\ full' = (full \/ S # {r} \ altered_reloid_cache)
  BY Zenon DEF PostAlter
<1>1. /\ tx[r].stage = "open"
      /\ UNCHANGED <<pg_class, onDisk, size, freshRels, fresh, unreported, writes,
                     active_tables_map, relation_cache, relid_cache, pc,
                     todo, kept, hand, stats, localAltered, measured, unread, outlived>>
  BY Zenon DEF PostAlter, diskVars, cacheVars, collVars
<1>2. /\ altered_reloid_cache' \subseteq altered_reloid_cache \cup {r}
      /\ altered_reloid_cache \subseteq altered_reloid_cache'
      /\ ~full' => ~full /\ r \in altered_reloid_cache'
  BY <1>0, FitsOne, Zenon
<1>3. tx[r] \in TxRecords /\ [tx[r] EXCEPT !.altered = TRUE] \in TxRecords
  BY TxType, Zenon DEF TxRecords
<1>4. tx' = [tx EXCEPT ![r] = [tx[r] EXCEPT !.altered = TRUE]]
  BY <1>3, Zenon DEF PostAlter, IndInv, TypeOK
<1>5. /\ tx' \in [Rels -> TxRecords] /\ tx'[r] = [tx[r] EXCEPT !.altered = TRUE]
      /\ \A s \in Rels \ {r} : tx'[s] = tx[s]
  BY <1>3, <1>4, OneTx, Zenon
<1>6. \A s \in Rels : /\ tx'[s].stage = tx[s].stage /\ tx'[s].kind = tx[s].kind
                      /\ tx'[s].file = tx[s].file /\ tx'[s].via = tx[s].via
                      /\ tx'[s].garbage = tx[s].garbage /\ tx'[s].created = tx[s].created
  BY <1>3, <1>5 DEF TxRecords
<1>10. TypeOK'
  BY <1>0, <1>1, <1>2, <1>5, Zenon DEF IndInv, TypeOK, TxRecords
<1>11. Owned'
  <2>1. \A s \in Rels : Held(s)' = Held(s)
    BY <1>6, Zenon DEF Held
  <2>2. \A s \in Rels : Shape(s)'
    BY <1>1, <1>5, <1>6 DEF IndInv, Owned, Shape
  <2> QED
    BY <1>1, <1>6, <2>1, <2>2 DEF IndInv, Owned
<1>12. NewRels' /\ Reported'
  BY <1>1, <1>6 DEF IndInv, NewRels, Making, Reported
<1>13. Entries' /\ Collecting'
  BY <1>1, EntriesFrame, CollectingFrame, Zenon DEF collVars
<1>14. Cached'
  BY <1>1, <1>6 DEF IndInv, Cached, CachesPaired, CachedRels, Making
<1>15. Tracked'
  <2> SUFFICES ASSUME ~full' PROVE Tracked'
    BY Zenon DEF Tracked
  <2>1. \A s \in Rels : OnItsWay(s) => OnItsWay(s)'
    BY <1>1, <1>2, Zenon DEF OnItsWay
  <2>2. \A s \in Rels : NewFileTracked(s) => NewFileTracked(s)'
    BY <1>1, <1>6, Zenon DEF NewFileTracked
  <2>3. \A s \in Rels : AlterationTracked(s) => AlterationTracked(s)'
    BY <1>1, <1>2, <1>5, Zenon DEF AlterationTracked
  <2>4. \A s \in Rels : Differs(s)' <=> Differs(s)
    BY <1>1, Zenon DEF Differs
  <2> QED
    BY <1>1, <1>2, <2>1, <2>2, <2>3, <2>4, Zenon DEF IndInv, Tracked
<1> QED
  BY <1>10, <1>11, <1>12, <1>13, <1>14, <1>15, Zenon DEF IndInv

\* A commit makes the new file the table's.  It was known as a file of the
\* transaction; in the collector's hands as the transient table's, the table
\* is known as an altered one, for the hooks have run.
LEMMA CommitInv ==
    ASSUME IndInv, NEW r \in Rels, Commit(r)
    PROVE  IndInv'
<1> USE ActiveAssumption
<1> DEFINE f == tx[r].file
           v == [tx[r] EXCEPT !.stage = "ending", !.garbage = pg_class[r]]
<1>1. /\ tx[r].stage = "open" /\ HooksRun(tx[r])
      /\ pg_class' = [pg_class EXCEPT ![r] = f]
      /\ UNCHANGED <<onDisk, size, freshRels, fresh, unreported, writes,
                     active_tables_map, altered_reloid_cache, relation_cache, relid_cache, pc,
                     todo, kept, hand, stats, localAltered, measured, full, unread, outlived>>
  BY Zenon DEF Commit, SharedUnchanged, RestUnchanged, cacheVars, collVars
<1>2. tx[r] \in TxRecords /\ v \in TxRecords
  <2>1. tx[r] \in TxRecords /\ pg_class[r] \in Files \cup {NoFile}
    BY TxType, Zenon DEF IndInv, TypeOK
  <2> QED
    BY <2>1, Zenon DEF TxRecords, Stages
<1>3. tx' = [tx EXCEPT ![r] = v]
  BY <1>2, Zenon DEF Commit, IndInv, TypeOK
<1> HIDE DEF v
<1>4. /\ tx' \in [Rels -> TxRecords] /\ tx'[r] = v
      /\ \A s \in Rels \ {r} : tx'[s] = tx[s]
  BY <1>2, <1>3, OneTx, Zenon
<1>5. /\ tx'[r].stage = "ending" /\ tx'[r].garbage = pg_class[r]
      /\ tx'[r].altered = tx[r].altered
  BY <1>2, <1>4, Zenon DEF TxRecords, v
<1>6. /\ pg_class'[r] = f /\ \A s \in Rels \ {r} : pg_class'[s] = pg_class[s]
      /\ f \in Files \cup {NoFile} /\ f = Held(r) /\ pg_class[r] = Held(r)'
  BY <1>1, <1>2, <1>5, Zenon DEF IndInv, TypeOK, TxRecords, Held
<1>7. \A s \in Rels \ {r} : Held(s)' = Held(s)
  BY <1>4, Zenon DEF Held
<1>10. TypeOK'
  BY <1>1, <1>4, <1>6, Zenon DEF IndInv, TypeOK, TxRecords
<1>11. Owned'
  <2>1. \A s \in Rels : Shape(s)'
    BY <1>4, <1>5 DEF IndInv, Owned, Shape
  <2>2. \A q, s \in Rels : pg_class'[q] # NoFile /\ pg_class'[q] = pg_class'[s] => q = s
    BY <1>6 DEF IndInv, Owned
  <2>3. \A q, s \in Rels : Held(q)' # NoFile /\ Held(q)' = Held(s)' => q = s
    BY <1>6, <1>7 DEF IndInv, Owned
  <2>4. \A q, s \in Rels : Held(s)' # NoFile => pg_class'[q] # Held(s)'
    BY <1>6, <1>7 DEF IndInv, Owned
  <2>5. \A q \in Rels : pg_class'[q] # NoFile => pg_class'[q] \in onDisk' /\ q \notin freshRels'
    BY <1>1, <1>6 DEF IndInv, Owned, NewRels
  <2>6. \A s \in Rels : Held(s)' # NoFile /\ tx'[s].stage # "forget" => Held(s)' \in onDisk'
    BY <1>1, <1>4, <1>6, <1>7 DEF IndInv, Owned
  <2>7. \A s \in Rels : Held(s)' \notin fresh'
    BY <1>1, <1>6, <1>7 DEF IndInv, Owned, TypeOK
  <2> QED
    BY <1>1, <2>1, <2>2, <2>3, <2>4, <2>5, <2>6, <2>7, Zenon DEF IndInv, Owned
<1>12. NewRels'
  BY <1>1, <1>4, <1>5 DEF IndInv, NewRels, Making
<1>13. Reported'
  BY <1>1, <1>4, <1>5, <1>6 DEF IndInv, Reported, Ends
<1>14. Entries' /\ Collecting'
  BY <1>1, EntriesFrame, CollectingFrame, Zenon DEF collVars
<1>15. Cached'
  BY <1>1, <1>4, <1>5 DEF IndInv, Cached, CachesPaired, CachedRels, Making
<1>16. Tracked'
  <2> SUFFICES ASSUME ~full' PROVE Tracked'
    BY Zenon DEF Tracked
  <2>0. Tracked /\ ~full
    BY <1>1, Zenon DEF IndInv
  <2>1. \A s \in Rels : NewFileTracked(s)'
    BY <1>1, <1>4, <1>5, <2>0, Zenon DEF NewFileTracked, Tracked
  <2>2. \A s \in Rels : AlterationTracked(s)'
    BY <1>1, <1>4, <1>5, <2>0, Zenon DEF AlterationTracked, Tracked
  <2>3. \A s \in Rels \ {r} : OnItsWay(s) => OnItsWay(s)'
    BY <1>1, <1>6, Zenon DEF OnItsWay
  <2>4. \A s \in Rels \ {r} : Differs(s)' => Differs(s)
    BY <1>1, <1>6, Zenon DEF Differs
  <2>5. ASSUME f # NoFile, r \notin unread PROVE OnItsWay(r)'
    <3>1. NewFileTracked(r)
      BY <2>0, Zenon DEF Tracked
    <3>2. CASE f \in active_tables_map \cup todo \cup kept \cup unreported
      BY <1>1, <1>6, <3>2, Zenon DEF OnItsWay
    <3>3. CASE hand.file = f /\ hand.rel = tx[r].via /\ tx[r].kind # "swap"
      BY <1>1, <1>6, <3>3, Zenon DEF OnItsWay, IndInv, Owned, Shape
    <3>4. CASE hand.file = f /\ tx[r].kind = "swap"
      <4>1. r \in altered_reloid_cache
        BY <1>1, <2>0, <2>5, <3>4, Zenon DEF Tracked, AlterationTracked, HooksRun
      <4>2. pc = "map"
        BY <2>5, <3>4 DEF IndInv, Collecting, NoHand
      <4> QED
        BY <1>1, <4>1, <4>2, Zenon DEF OnItsWay
    <3> QED
      BY <1>1, <2>5, <3>1, <3>2, <3>3, <3>4, Zenon DEF NewFileTracked
  <2>6. Differs(r)' => f # NoFile
    BY <1>6, Zenon DEF Differs
  <2> QED
    BY <1>1, <2>0, <2>1, <2>2, <2>3, <2>4, <2>5, <2>6, Zenon DEF Tracked
<1> QED
  BY <1>10, <1>11, <1>12, <1>13, <1>14, <1>15, <1>16, Zenon DEF IndInv

\* An abort gives up the new file; the table keeps its own.
LEMMA AbortInv ==
    ASSUME IndInv, NEW r \in Rels, Abort(r)
    PROVE  IndInv'
<1> USE ActiveAssumption
<1> DEFINE v == [tx[r] EXCEPT !.stage = "ending", !.garbage = tx[r].file]
<1>1. /\ tx[r].stage = "open" /\ tx[r].file \notin unreported
      /\ UNCHANGED <<pg_class, onDisk, size, freshRels, fresh, unreported, writes,
                     active_tables_map, altered_reloid_cache, relation_cache, relid_cache, pc,
                     todo, kept, hand, stats, localAltered, measured, full, unread, outlived>>
  BY Zenon DEF Abort, SharedUnchanged, RestUnchanged, diskVars, cacheVars, collVars
<1>2. tx[r] \in TxRecords /\ v \in TxRecords
  BY TxType, Zenon DEF TxRecords, Stages
<1>3. tx' = [tx EXCEPT ![r] = v]
  BY <1>2, TxType, Zenon DEF Abort
<1> HIDE DEF v
<1>4. /\ tx' \in [Rels -> TxRecords] /\ tx'[r] = v
      /\ \A s \in Rels \ {r} : tx'[s] = tx[s]
  BY <1>2, <1>3, OneTx, Zenon
<1>5. /\ tx'[r].stage = "ending" /\ tx'[r].garbage = tx[r].file
      /\ tx'[r].altered = tx[r].altered
  BY <1>2, <1>4, Zenon DEF TxRecords, v
<1>6. \A s \in Rels : Held(s)' = Held(s)
  BY <1>1, <1>4, <1>5, Zenon DEF Held
<1>10. TypeOK'
  BY <1>1, <1>4, Zenon DEF IndInv, TypeOK, TxRecords
<1>11. Owned'
  <2>1. \A s \in Rels : Shape(s)'
    BY <1>4, <1>5 DEF IndInv, Owned, Shape
  <2> QED
    BY <1>1, <1>4, <1>5, <1>6, <2>1 DEF IndInv, Owned
<1>12. NewRels'
  BY <1>1, <1>4, <1>5 DEF IndInv, NewRels, Making
<1>13. Reported'
  BY <1>1, <1>4, <1>5, Zenon DEF IndInv, Reported, Ends
<1>14. Entries' /\ Collecting'
  BY <1>1, EntriesFrame, CollectingFrame, Zenon DEF collVars
<1>15. Cached'
  BY <1>1, <1>4, <1>5 DEF IndInv, Cached, CachesPaired, CachedRels, Making
<1>16. Tracked'
  <2>1. \A s \in Rels : NewFileTracked(s) => NewFileTracked(s)'
    BY <1>1, <1>4, <1>5, Zenon DEF NewFileTracked
  <2>2. \A s \in Rels : AlterationTracked(s) => AlterationTracked(s)'
    BY <1>1, <1>4, <1>5, Zenon DEF AlterationTracked
  <2>3. \A s \in Rels : (OnItsWay(s) => OnItsWay(s)') /\ (Differs(s)' => Differs(s))
    BY <1>1, Zenon DEF OnItsWay, Differs
  <2> QED
    BY <1>1, <2>1, <2>2, <2>3, Zenon DEF Tracked, IndInv
<1> QED
  BY <1>10, <1>11, <1>12, <1>13, <1>14, <1>15, <1>16, Zenon DEF IndInv

\* The locks go; a file given up is unlinked next.
LEMMA ReleaseLocksInv ==
    ASSUME IndInv, NEW r \in Rels, ReleaseLocks(r)
    PROVE  IndInv'
<1> USE ActiveAssumption
<1> DEFINE v == IF tx[r].garbage = NoFile THEN NoTx ELSE [tx[r] EXCEPT !.stage = "unlink"]
<1>1. /\ tx[r].stage = "ending"
      /\ UNCHANGED <<pg_class, onDisk, size, freshRels, fresh, unreported, writes,
                     active_tables_map, altered_reloid_cache, relation_cache, relid_cache, pc,
                     todo, kept, hand, stats, localAltered, measured, full, unread, outlived>>
  BY Zenon DEF ReleaseLocks, SharedUnchanged, RestUnchanged, diskVars, cacheVars, collVars
<1>2. tx[r] \in TxRecords /\ v \in TxRecords
  <2>1. tx[r] \in TxRecords /\ NoTx \in TxRecords
    BY TxType, Zenon DEF TxRecords, NoTx, Stages, Kinds
  <2>2. [tx[r] EXCEPT !.stage = "unlink"] \in TxRecords
    BY <2>1, Zenon DEF TxRecords, Stages
  <2> QED
    BY <2>1, <2>2, Zenon
<1>3. tx' = [tx EXCEPT ![r] = v]
  BY <1>2, TxType, Zenon DEF ReleaseLocks
<1>5. /\ v.garbage = tx[r].garbage
      /\ \/ v.stage = "unlink" /\ v.garbage \in Files
         \/ v.stage = "none" /\ v = NoTx
  <2>1. CASE tx[r].garbage = NoFile
    BY <2>1, Zenon DEF NoTx
  <2>2. CASE tx[r].garbage # NoFile
    BY <1>2, <2>2, Zenon DEF TxRecords
  <2> QED
    BY <2>1, <2>2, Zenon
<1> HIDE DEF v
<1>4. /\ tx' \in [Rels -> TxRecords] /\ tx'[r] = v
      /\ \A s \in Rels \ {r} : tx'[s] = tx[s]
  BY <1>2, <1>3, OneTx, Zenon
<1>6. \A s \in Rels : Held(s)' = Held(s)
  BY <1>1, <1>4, <1>5, Zenon DEF Held
<1>10. TypeOK'
  BY <1>1, <1>4, Zenon DEF IndInv, TypeOK, TxRecords
<1>11. Owned'
  <2>1. \A s \in Rels : Shape(s)'
    BY <1>4, <1>5 DEF IndInv, Owned, Shape
  <2> QED
    BY <1>1, <1>4, <1>5, <1>6, <2>1 DEF IndInv, Owned
<1>12. NewRels'
  BY <1>1, <1>4, <1>5, Zenon DEF IndInv, NewRels, Making
<1>13. Reported'
  BY <1>1, <1>4, <1>5, Zenon DEF IndInv, Reported, Ends
<1>14. Entries' /\ Collecting'
  BY <1>1, EntriesFrame, CollectingFrame, Zenon DEF collVars
<1>15. Cached'
  BY <1>1, <1>4, <1>5 DEF IndInv, Cached, CachesPaired, CachedRels, Making
<1>16. Tracked'
  <2>1. \A s \in Rels : NewFileTracked(s) => NewFileTracked(s)'
    BY <1>1, <1>4, <1>5, Zenon DEF NewFileTracked
  <2>2. \A s \in Rels : AlterationTracked(s) => AlterationTracked(s)'
    BY <1>1, <1>4, <1>5, Zenon DEF AlterationTracked
  <2>3. \A s \in Rels : (OnItsWay(s) => OnItsWay(s)') /\ (Differs(s)' => Differs(s))
    BY <1>1, Zenon DEF OnItsWay, Differs
  <2> QED
    BY <1>1, <2>1, <2>2, <2>3, Zenon DEF Tracked, IndInv
<1> QED
  BY <1>10, <1>11, <1>12, <1>13, <1>14, <1>15, <1>16, Zenon DEF IndInv

\* The first critical section of the unlink hook.  No table and no other
\* transaction has the file; its entry goes, or is in the collector's hands.
LEMMA UnlinkInv ==
    ASSUME IndInv, NEW r \in Rels, Unlink(r)
    PROVE  IndInv'
<1> USE ActiveAssumption
<1> DEFINE g == tx[r].garbage
           v == [tx[r] EXCEPT !.stage = "forget"]
<1>1. /\ tx[r].stage = "unlink"
      /\ onDisk' = onDisk \ {g} /\ active_tables_map' = active_tables_map \ {g}
      /\ outlived' = outlived \cup ({g} \cap InCollector)
      /\ UNCHANGED <<pg_class, size, freshRels, fresh, unreported, writes,
                     altered_reloid_cache, relation_cache, relid_cache, pc,
                     todo, kept, hand, stats, localAltered, measured, full, unread>>
  BY Zenon DEF Unlink, MapAfterUnlink, cacheVars, collVars
<1>2. tx[r] \in TxRecords /\ v \in TxRecords
  BY TxType, Zenon DEF TxRecords, Stages
<1>3. tx' = [tx EXCEPT ![r] = v]
  BY <1>2, TxType, Zenon DEF Unlink
<1> HIDE DEF v
<1>4. /\ tx' \in [Rels -> TxRecords] /\ tx'[r] = v
      /\ \A s \in Rels \ {r} : tx'[s] = tx[s]
  BY <1>2, <1>3, OneTx, Zenon
<1>5. /\ tx'[r].stage = "forget" /\ tx'[r].garbage = g
  BY <1>2, <1>4, Zenon DEF TxRecords, v
<1>6. \A s \in Rels : Held(s)' = Held(s)
  BY <1>1, <1>4, <1>5, Zenon DEF Held
<1>7. /\ g \in Files /\ g # NoFile /\ g = Held(r) /\ g \notin unreported /\ g \notin fresh
      /\ \A s \in Rels : pg_class[s] # g
      /\ \A s \in Rels \ {r} : Held(s) # g
  BY <1>1, Zenon DEF IndInv, Owned, Shape, Held, Reported, Ends
<1>10. TypeOK'
  BY <1>1, <1>4, <1>7, Zenon DEF IndInv, TypeOK, TxRecords
<1>11. Owned'
  <2>1. \A s \in Rels : Shape(s)'
    BY <1>4, <1>5, <1>7 DEF IndInv, Owned, Shape
  <2> QED
    BY <1>1, <1>4, <1>5, <1>6, <1>7, <2>1 DEF IndInv, Owned
<1>12. NewRels'
  BY <1>1, <1>4, <1>5 DEF IndInv, NewRels, Making
<1>13. Reported'
  BY <1>1, <1>4, <1>5, <1>7, Zenon DEF IndInv, Reported, Ends
<1>14. Entries'
  BY <1>1, <1>7, Zenon DEF IndInv, Entries, InCollector
<1>15. Collecting'
  BY <1>1, CollectingFrame, Zenon DEF collVars
<1>16. Cached'
  BY <1>1, <1>4, <1>5 DEF IndInv, Cached, CachesPaired, CachedRels, Making
<1>17. Tracked'
  <2>1. \A s \in Rels : NewFileTracked(s) => NewFileTracked(s)'
    BY <1>1, <1>4, <1>5, <1>7 DEF NewFileTracked, Held
  <2>2. \A s \in Rels : AlterationTracked(s) => AlterationTracked(s)'
    BY <1>1, <1>4, <1>5, Zenon DEF AlterationTracked
  <2>3. \A s \in Rels : (OnItsWay(s) => OnItsWay(s)') /\ (Differs(s)' => Differs(s))
    BY <1>1, <1>7, Zenon DEF OnItsWay, Differs
  <2> QED
    BY <1>1, <2>1, <2>2, <2>3, Zenon DEF Tracked, IndInv
<1> QED
  BY <1>10, <1>11, <1>12, <1>13, <1>14, <1>15, <1>16, <1>17, Zenon DEF IndInv

\* What every removal from the caches does: entries go in pairs.
Forgotten ==
    /\ relation_cache' \in [Rels -> Files \cup {NoFile}]
    /\ relid_cache' \in [Files -> Rels \cup {NoRel}]
    /\ \A r \in Rels, f \in Files : relation_cache'[r] = f <=> relid_cache'[f] = r
    /\ \A r \in Rels : relation_cache'[r] \in {NoFile, relation_cache[r]}
    /\ \A f \in Files : relid_cache'[f] \in {NoRel, relid_cache[f]}

\* remove_cache_entry by relfilenode.
LEMMA ForgetFilesPairs ==
    ASSUME IndInv, NEW F \in SUBSET Files, ForgetFiles(F)
    PROVE  Forgotten /\ \A r \in Rels : relation_cache'[r] \notin F
<1> USE ActiveAssumption
<1>1. /\ relation_cache \in [Rels -> Files \cup {NoFile}]
      /\ relid_cache \in [Files -> Rels \cup {NoRel}]
      /\ \A r \in Rels, f \in Files : relation_cache[r] = f <=> relid_cache[f] = r
  BY Zenon DEF IndInv, TypeOK, Cached, CachesPaired
<1>2. /\ \A r \in Rels : relation_cache'[r] = IF \E f \in F : relid_cache[f] = r THEN NoFile
                                              ELSE relation_cache[r]
      /\ \A f \in Files : relid_cache'[f] = IF f \in F THEN NoRel ELSE relid_cache[f]
  BY Zenon DEF ForgetFiles
<1>3. /\ relation_cache' \in [Rels -> Files \cup {NoFile}]
      /\ relid_cache' \in [Files -> Rels \cup {NoRel}]
  BY <1>1, Zenon DEF ForgetFiles
<1>4. \A r \in Rels, f \in Files : relation_cache'[r] = f <=> relid_cache'[f] = r
  BY <1>1, <1>2
<1>5. \A r \in Rels : relation_cache'[r] \notin F
  BY <1>1, <1>2
<1> QED
  BY <1>2, <1>3, <1>4, <1>5, Zenon DEF Forgotten

\* remove_cache_entry by relation.
LEMMA ForgetRelPairs ==
    ASSUME IndInv, NEW r \in Rels, ForgetRel(r)
    PROVE  Forgotten
<1> USE ActiveAssumption
<1>1. /\ relation_cache \in [Rels -> Files \cup {NoFile}]
      /\ relid_cache \in [Files -> Rels \cup {NoRel}]
      /\ \A s \in Rels, f \in Files : relation_cache[s] = f <=> relid_cache[f] = s
  BY Zenon DEF IndInv, TypeOK, Cached, CachesPaired
<1>2. /\ \A f \in Files : relid_cache'[f] = IF relation_cache[r] = f THEN NoRel ELSE relid_cache[f]
      /\ \A s \in Rels : relation_cache'[s] = IF s = r THEN NoFile ELSE relation_cache[s]
  BY <1>1, Zenon DEF ForgetRel
<1>3. /\ relation_cache' \in [Rels -> Files \cup {NoFile}]
      /\ relid_cache' \in [Files -> Rels \cup {NoRel}]
  BY <1>1, Zenon DEF ForgetRel
<1>4. \A s \in Rels, f \in Files : relation_cache'[s] = f <=> relid_cache'[f] = s
  BY <1>1, <1>2
<1> QED
  BY <1>2, <1>3, <1>4, Zenon DEF Forgotten

\* The caches after a removal, when no transaction opens.
LEMMA ForgottenCached ==
    ASSUME IndInv, Forgotten, freshRels' = freshRels,
           \A s \in Rels : tx'[s].stage = "open" => tx'[s] = tx[s],
           \A s \in Rels : relation_cache'[s] # NoFile =>
               \/ relation_cache'[s] \in onDisk'
               \/ \E u \in Rels : tx'[u].stage = "forget" /\ tx'[u].garbage = relation_cache'[s]
    PROVE  Cached'
<1> USE ActiveAssumption
<1>1. CachesPaired'
  BY Zenon DEF CachesPaired, Forgotten
<1>2. IsFiniteSet(CachedRels)'
  <2>1. CachedRels' \in SUBSET CachedRels
    BY Zenon DEF CachedRels, Forgotten
  <2> QED
    BY <2>1, FS_Subset, Zenon DEF IndInv, Cached
<1>3. \A s \in freshRels' : relation_cache'[s] = NoFile
  BY Zenon DEF IndInv, Cached, Forgotten, TypeOK
<1>4. \A s \in Rels : Making(s)' /\ ~tx'[s].created => relation_cache'[tx'[s].via] = NoFile
  <2>1. \A s \in Rels : Making(s)' => Making(s) /\ tx'[s] = tx[s] /\ tx[s].via \in Rels
    BY Zenon DEF Making, IndInv, Owned, Shape
  <2> QED
    BY <2>1 DEF IndInv, Cached, Forgotten
<1>5. ASSUME NEW s \in Rels, tx'[s].stage = "open", tx'[s].file # NoFile
      PROVE  /\ relid_cache'[tx'[s].file] \in {NoRel, tx'[s].via}
             /\ ~tx'[s].created => relid_cache'[tx'[s].file] = NoRel
  <2>1. tx'[s] = tx[s] /\ tx[s].stage = "open" /\ tx[s].file \in Files
    BY <1>5 DEF IndInv, TypeOK
  <2>2. /\ relid_cache[tx[s].file] \in {NoRel, tx[s].via}
        /\ ~tx[s].created => relid_cache[tx[s].file] = NoRel
    BY <1>5, <2>1, Zenon DEF IndInv, Cached
  <2> QED
    BY <2>1, <2>2 DEF Forgotten
<1> QED
  BY <1>1, <1>2, <1>3, <1>4, <1>5, Zenon DEF Cached

\* The second critical section of the unlink hook: the caches forget the file.
LEMMA UnlinkForgetInv ==
    ASSUME IndInv, NEW r \in Rels, UnlinkForget(r)
    PROVE  IndInv'
<1> USE ActiveAssumption
<1> DEFINE g == tx[r].garbage
<1>1. /\ tx[r].stage = "forget" /\ ForgetFiles({g})
      /\ UNCHANGED <<pg_class, onDisk, size, freshRels, fresh, unreported, writes,
                     active_tables_map, altered_reloid_cache, pc,
                     todo, kept, hand, stats, localAltered, measured, full, unread, outlived>>
  BY Zenon DEF UnlinkForget, RestUnchanged, diskVars, collVars
<1>2. NoTx \in TxRecords /\ tx' = [tx EXCEPT ![r] = NoTx]
  BY Zenon DEF TxRecords, NoTx, Stages, Kinds, UnlinkForget
<1>3. /\ tx' \in [Rels -> TxRecords] /\ tx'[r] = NoTx
      /\ \A s \in Rels \ {r} : tx'[s] = tx[s]
  BY <1>2, OneTx, Zenon
<1>4. tx'[r].stage = "none" /\ tx'[r].garbage = NoFile
  BY <1>3 DEF NoTx
<1>5. Held(r)' = NoFile /\ \A s \in Rels \ {r} : Held(s)' = Held(s)
  BY <1>3, <1>4, Zenon DEF Held
<1>6. g \in Files
  BY <1>1, Zenon DEF IndInv, Owned, Shape
<1>7. Forgotten /\ \A s \in Rels : relation_cache'[s] # g
  BY <1>1, <1>6, ForgetFilesPairs, Zenon
<1>10. TypeOK'
  BY <1>1, <1>3, <1>7, Zenon DEF IndInv, TypeOK, TxRecords, Forgotten
<1>11. Owned'
  <2>1. \A s \in Rels : Shape(s)'
    BY <1>3, <1>4, Zenon DEF IndInv, Owned, Shape
  <2>2. NoFile \notin fresh'
    BY <1>10, Zenon DEF TypeOK
  <2> QED
    BY <1>1, <1>3, <1>5, <2>1, <2>2 DEF IndInv, Owned
<1>12. NewRels'
  BY <1>1, <1>3, <1>4, Zenon DEF IndInv, NewRels, Making
<1>13. Reported'
  BY <1>1, <1>3, <1>4, Zenon DEF IndInv, Reported, Ends
<1>14. Entries' /\ Collecting'
  BY <1>1, EntriesFrame, CollectingFrame, Zenon DEF collVars
<1>15. Cached'
  <2>1. \A s \in Rels : tx'[s].stage = "open" => tx'[s] = tx[s]
    BY <1>3, <1>4, Zenon
  <2>2. ASSUME NEW s \in Rels, relation_cache'[s] # NoFile
        PROVE  \/ relation_cache'[s] \in onDisk'
               \/ \E u \in Rels : tx'[u].stage = "forget" /\ tx'[u].garbage = relation_cache'[s]
    <3>1. relation_cache'[s] = relation_cache[s] /\ relation_cache[s] # g
      BY <1>7, <2>2, Zenon DEF Forgotten
    <3>2. \/ relation_cache[s] \in onDisk
          \/ \E u \in Rels : tx[u].stage = "forget" /\ tx[u].garbage = relation_cache[s]
      BY <2>2, <3>1, Zenon DEF IndInv, Cached, CachesPaired
    <3> QED
      BY <1>1, <1>3, <3>1, <3>2, Zenon
  <2> QED
    BY <1>1, <1>7, <2>1, <2>2, ForgottenCached, Zenon
<1>16. Tracked'
  <2>1. \A s \in Rels : NewFileTracked(s) => NewFileTracked(s)'
    BY <1>1, <1>3, <1>4, Zenon DEF NewFileTracked
  <2>2. \A s \in Rels : AlterationTracked(s) => AlterationTracked(s)'
    BY <1>1, <1>3, <1>4, Zenon DEF AlterationTracked
  <2>3. \A s \in Rels : (OnItsWay(s) => OnItsWay(s)') /\ (Differs(s)' => Differs(s))
    BY <1>1, Zenon DEF OnItsWay, Differs
  <2> QED
    BY <1>1, <2>1, <2>2, <2>3, Zenon DEF Tracked, IndInv
<1> QED
  BY <1>10, <1>11, <1>12, <1>13, <1>14, <1>15, <1>16, Zenon DEF IndInv

-----------------------------------------------------------------------------
(***************************************************************************)
(* The collector.                                                          *)
(***************************************************************************)
\* The caches after a removal by the collector: no transaction and no file
\* changes.
LEMMA CollectorForgets ==
    ASSUME IndInv, Forgotten, UNCHANGED sessVars
    PROVE  Cached'
<1> USE ActiveAssumption
<1>1. UNCHANGED <<onDisk, freshRels, tx>>
  BY Zenon DEF sessVars, diskVars
<1>2. ASSUME NEW s \in Rels, relation_cache'[s] # NoFile
      PROVE  \/ relation_cache'[s] \in onDisk'
             \/ \E u \in Rels : tx'[u].stage = "forget" /\ tx'[u].garbage = relation_cache'[s]
  BY <1>1, <1>2 DEF IndInv, Cached, CachesPaired, Forgotten
<1> QED
  BY <1>1, <1>2, ForgottenCached, Zenon

\* A step of the collector that keeps every change in sight keeps Tracked.
LEMMA StillTracked ==
    ASSUME IndInv, UNCHANGED sessVars, measured' = measured, ~full' => ~full,
           unread \subseteq unread',
           \A s \in Rels : NewFileTracked(s) => NewFileTracked(s)',
           \A s \in Rels : AlterationTracked(s) => AlterationTracked(s)',
           \A s \in Rels \ unread : Differs(s) /\ OnItsWay(s) => OnItsWay(s)'
    PROVE  Tracked'
<1>1. \A s \in Rels : Differs(s)' <=> Differs(s)
  BY Zenon DEF Differs, sessVars, diskVars
<1> QED
  BY <1>1, Zenon DEF IndInv, Tracked

\* The shared map becomes the local one in one critical section.
LEMMA MoveToLocalInv == ASSUME IndInv, MoveToLocal PROVE IndInv'
<1> USE ActiveAssumption
<1>1. /\ pc = "idle" /\ pc' = "clean" /\ UNCHANGED sessVars
      /\ todo' = active_tables_map /\ active_tables_map' = {}
      /\ UNCHANGED <<altered_reloid_cache, relation_cache, relid_cache, kept, hand, stats,
                     localAltered, measured, full, unread, outlived>>
  BY Zenon DEF MoveToLocal, Collect, cacheVars
<1>2. UNCHANGED <<pg_class, onDisk, size, freshRels, fresh, tx, unreported, writes>>
  BY <1>1, Zenon DEF sessVars, diskVars
<1>3. TypeOK'
  BY <1>1, <1>2, Zenon DEF IndInv, TypeOK
<1>4. Cached' /\ Owned' /\ NewRels' /\ Reported'
  BY <1>1, <1>2, CacheFrame, SessionFrame, Zenon DEF cacheVars
<1>5. Entries' /\ Collecting'
  BY <1>1, <1>2, Zenon DEF IndInv, Entries, InCollector, Collecting
<1>6. Tracked'
  <2>0. todo = {}
    BY <1>1, Zenon DEF IndInv, Collecting
  <2>1. \A s \in Rels : NewFileTracked(s) => NewFileTracked(s)'
    BY <1>1, <1>2, <2>0, Zenon DEF NewFileTracked
  <2>2. \A s \in Rels : AlterationTracked(s) => AlterationTracked(s)'
    BY <1>1, <1>2, Zenon DEF AlterationTracked
  <2>3. \A s \in Rels : OnItsWay(s) => OnItsWay(s)'
    BY <1>1, <1>2, <2>0, Zenon DEF OnItsWay
  <2> QED
    BY <1>1, <2>1, <2>2, <2>3, StillTracked, Zenon
<1> QED
  BY <1>3, <1>4, <1>5, <1>6, Zenon DEF IndInv

\* remove_committed_relation_from_cache.
LEMMA RemoveCommittedInv == ASSUME IndInv, RemoveCommitted PROVE IndInv'
<1> USE ActiveAssumption
<1> DEFINE F == {f \in Files : Committed(f) # {} /\ \E r \in Rels : relation_cache[r] = f}
<1>1. /\ pc = "clean" /\ pc' = "map" /\ UNCHANGED sessVars /\ ForgetFiles(F)
      /\ UNCHANGED <<active_tables_map, altered_reloid_cache, todo, kept, hand, stats,
                     localAltered, measured, full, unread, outlived>>
  BY Zenon DEF RemoveCommitted, Collect
<1>2. UNCHANGED <<pg_class, onDisk, size, freshRels, fresh, tx, unreported, writes>>
  BY <1>1, Zenon DEF sessVars, diskVars
<1>3. Forgotten
  <2>1. F \in SUBSET Files
    BY Zenon
  <2> HIDE DEF F
  <2> QED
    BY <1>1, <2>1, ForgetFilesPairs, Zenon
<1>4. TypeOK'
  BY <1>1, <1>2, <1>3, Zenon DEF IndInv, TypeOK, Forgotten
<1>5. Cached' /\ Owned' /\ NewRels' /\ Reported'
  BY <1>1, <1>3, CollectorForgets, SessionFrame, Zenon
<1>6. Entries' /\ Collecting'
  BY <1>1, <1>2, Zenon DEF IndInv, Entries, InCollector, Collecting
<1>7. Tracked'
  <2>1. \A s \in Rels : NewFileTracked(s) => NewFileTracked(s)'
    BY <1>1, <1>2, Zenon DEF NewFileTracked
  <2>2. \A s \in Rels : AlterationTracked(s) => AlterationTracked(s)'
    BY <1>1, <1>2, Zenon DEF AlterationTracked
  <2>3. \A s \in Rels : OnItsWay(s) => OnItsWay(s)'
    BY <1>1, <1>2, Zenon DEF OnItsWay
  <2> QED
    BY <1>1, <2>1, <2>2, <2>3, StillTracked, Zenon
<1> QED
  BY <1>4, <1>5, <1>6, <1>7, Zenon DEF IndInv

\* get_relid_by_relfilenode: an entry passes to the collector's hand under the
\* table that has the file, under the relation whose open transaction made it,
\* or it is kept.
LEMMA LookupInv == ASSUME IndInv, NEW f \in Files, Lookup(f) PROVE IndInv'
<1> USE ActiveAssumption
<1>1. /\ pc = "map" /\ pc' = "map" /\ UNCHANGED sessVars
      /\ f \in todo /\ hand = NoHand /\ todo' = todo \ {f}
      /\ UNCHANGED <<active_tables_map, altered_reloid_cache, stats, localAltered, measured,
                     full, unread, outlived>>
  BY Zenon DEF Lookup, Collect
<1>2. UNCHANGED <<pg_class, onDisk, size, freshRels, fresh, tx, unreported, writes>>
  BY <1>1, Zenon DEF sessVars, diskVars
<1>3. Owned' /\ NewRels' /\ Reported'
  BY <1>1, SessionFrame, Zenon
<1>4. \A s \in Rels : AlterationTracked(s) => AlterationTracked(s)'
  BY <1>1, <1>2, Zenon DEF AlterationTracked
<1>5. hand.file = NoFile /\ hand.rel = NoRel
  BY <1>1, Zenon DEF NoHand
<1>6. CASE Committed(f) # {}
  <2>1. PICK r \in Committed(f) : hand' = [file |-> f, rel |-> r]
    BY <1>6, Zenon DEF Lookup
  <2>2. /\ r \in Rels /\ pg_class[r] = f /\ ForgetFiles({f}) /\ UNCHANGED kept
        /\ hand'.file = f /\ hand'.rel = r
    BY <1>6, <2>1, Zenon DEF Lookup, Committed
  <2>3. Forgotten
    BY <2>2, ForgetFilesPairs, Zenon
  <2>4. TypeOK'
    BY <1>1, <1>2, <2>1, <2>2, <2>3, Zenon DEF IndInv, TypeOK, Forgotten
  <2>5. Cached'
    BY <1>1, <2>3, CollectorForgets, Zenon
  <2>6. Entries' /\ Collecting'
    BY <1>1, <1>2, <2>2, Zenon DEF IndInv, Entries, InCollector, Collecting
  <2>7. \A s \in Rels : NewFileTracked(s) => NewFileTracked(s)'
    <3>1. \A s \in Rels : tx[s].stage = "open" => tx[s].file # f
      BY <2>2 DEF IndInv, Owned, Held
    <3> QED
      BY <1>1, <1>2, <1>5, <2>2, <3>1, Zenon DEF NewFileTracked
  <2>8. \A s \in Rels : Differs(s) /\ OnItsWay(s) => OnItsWay(s)'
    <3>1. \A s \in Rels : pg_class[s] = f => s = r
      BY <2>2, Zenon DEF IndInv, Owned
    <3> QED
      BY <1>1, <1>2, <1>5, <2>2, <3>1, Zenon DEF OnItsWay, Differs
  <2>9. Tracked'
    BY <1>1, <1>4, <2>7, <2>8, StillTracked, Zenon
  <2> QED
    BY <1>3, <2>4, <2>5, <2>6, <2>9, Zenon DEF IndInv
<1>7. CASE Committed(f) = {} /\ relid_cache[f] = NoRel
  <2>1. kept' = kept \cup {f} /\ UNCHANGED <<hand, relation_cache, relid_cache>>
    BY <1>7, Zenon DEF Lookup, cacheVars
  <2>2. TypeOK'
    BY <1>1, <1>2, <2>1, Zenon DEF IndInv, TypeOK
  <2>3. Cached'
    BY <1>2, <2>1, CacheFrame, Zenon DEF cacheVars
  <2>4. Entries' /\ Collecting'
    BY <1>1, <1>2, <2>1 DEF IndInv, Entries, InCollector, Collecting
  <2>5. \A s \in Rels : NewFileTracked(s) => NewFileTracked(s)'
    BY <1>1, <1>2, <2>1, Zenon DEF NewFileTracked
  <2>6. \A s \in Rels : OnItsWay(s) => OnItsWay(s)'
    BY <1>1, <1>2, <2>1, Zenon DEF OnItsWay
  <2>7. Tracked'
    BY <1>1, <1>4, <2>5, <2>6, StillTracked, Zenon
  <2> QED
    BY <1>3, <2>2, <2>3, <2>4, <2>7, Zenon DEF IndInv
<1>8. CASE Committed(f) = {} /\ relid_cache[f] # NoRel
  <2>1. /\ hand' = [file |-> f, rel |-> relid_cache[f]] /\ relid_cache[f] \in Rels
        /\ UNCHANGED <<kept, relation_cache, relid_cache>>
    BY <1>8, Zenon DEF Lookup, cacheVars, IndInv, TypeOK
  <2>2. hand'.file = f /\ hand'.rel = relid_cache[f]
    BY <2>1, Zenon
  <2>3. TypeOK'
    BY <1>1, <1>2, <2>1, Zenon DEF IndInv, TypeOK
  <2>4. Cached'
    BY <1>2, <2>1, CacheFrame, Zenon DEF cacheVars
  <2>5. Entries' /\ Collecting'
    BY <1>1, <1>2, <2>1, <2>2 DEF IndInv, Entries, InCollector, Collecting
  <2>6. \A s \in Rels : NewFileTracked(s) => NewFileTracked(s)'
    <3>1. \A s \in Rels : tx[s].stage = "open" /\ tx[s].file = f => relid_cache[f] = tx[s].via
      BY <1>8, Zenon DEF IndInv, Cached
    <3> QED
      BY <1>1, <1>2, <1>5, <2>1, <2>2, <3>1, Zenon DEF NewFileTracked
  <2>7. \A s \in Rels : Differs(s) /\ OnItsWay(s) => OnItsWay(s)'
    <3>1. \A s \in Rels : pg_class[s] # f
      BY <1>8, Zenon DEF Committed
    <3> QED
      BY <1>1, <1>2, <1>5, <2>1, <2>2, <3>1, Zenon DEF OnItsWay, Differs
  <2>8. Tracked'
    BY <1>1, <1>4, <2>6, <2>7, StillTracked, Zenon
  <2> QED
    BY <1>3, <2>3, <2>4, <2>5, <2>8, Zenon DEF IndInv
<1> QED
  BY <1>6, <1>7, <1>8, Zenon

\* The table of the entry will be measured.  A transaction that has the file
\* still holds its lock, so the entry is kept.
LEMMA DecideInv == ASSUME IndInv, Decide PROVE IndInv'
<1> USE ActiveAssumption
<1>1. /\ pc = "map" /\ pc' = "map" /\ UNCHANGED sessVars
      /\ hand # NoHand /\ hand' = NoHand /\ stats' = stats \cup {hand.rel}
      /\ kept' = IF MustKeep(hand.rel, hand.file) THEN kept \cup {hand.file} ELSE kept
      /\ UNCHANGED <<active_tables_map, altered_reloid_cache, relation_cache, relid_cache, todo,
                     localAltered, measured, full, unread, outlived>>
  BY Zenon DEF Decide, Collect, cacheVars
<1>2. UNCHANGED <<pg_class, onDisk, size, freshRels, fresh, tx, unreported, writes>>
  BY <1>1, Zenon DEF sessVars, diskVars
<1>3. hand.file \in Files /\ hand.rel \in Rels /\ hand'.file = NoFile
  BY <1>1, Zenon DEF IndInv, Collecting, NoHand
<1>4. kept \subseteq kept' /\ kept' \subseteq kept \cup {hand.file}
  BY <1>1, Zenon
<1>5. TypeOK'
  <2>1. hand' \in [file : Files \cup {NoFile}, rel : Rels \cup {NoRel}]
    BY <1>1, Zenon DEF NoHand
  <2> QED
    BY <1>1, <1>2, <1>3, <1>4, <2>1, Zenon DEF IndInv, TypeOK
<1>6. Cached' /\ Owned' /\ NewRels' /\ Reported'
  BY <1>1, <1>2, CacheFrame, SessionFrame, Zenon DEF cacheVars
<1>7. Entries' /\ Collecting'
  BY <1>1, <1>2, <1>3, <1>4 DEF IndInv, Entries, InCollector, Collecting
<1>8. \A s \in Rels : NewFileTracked(s) => NewFileTracked(s)'
  <2>1. ASSUME NEW s \in Rels, tx[s].stage = "open", hand.rel = tx[s].via
        PROVE  hand.file \in kept'
    BY <1>1, <2>1, Zenon DEF MustKeep, Locked
  <2> QED
    BY <1>1, <1>2, <1>4, <2>1, Zenon DEF NewFileTracked
<1>9. \A s \in Rels : AlterationTracked(s) => AlterationTracked(s)'
  BY <1>1, <1>2, Zenon DEF AlterationTracked
<1>10. \A s \in Rels : OnItsWay(s) => OnItsWay(s)'
  BY <1>1, <1>2, <1>4, Zenon DEF OnItsWay
<1>11. Tracked'
  BY <1>1, <1>8, <1>9, <1>10, StillTracked, Zenon
<1> QED
  BY <1>5, <1>6, <1>7, <1>11, Zenon DEF IndInv

\* Kept entries go back to the shared map, or the map was full.
LEMMA PutBackInv ==
    ASSUME IndInv, NEW from, NEW to, PutBack(from, to),
           <<from, to>> \in {<<"map", "copy">>, <<"again", "measure">>}
    PROVE  IndInv'
<1> USE ActiveAssumption
<1>0. PICK S \in Fits(active_tables_map, kept) :
        /\ active_tables_map' = active_tables_map \cup S
        /\ full' = (full \/ ~(kept \subseteq active_tables_map \cup S))
  BY Zenon DEF PutBack
<1>1. /\ pc \in {"map", "again"} /\ pc' = to /\ to \in {"copy", "measure"} /\ UNCHANGED sessVars
      /\ todo = {} /\ hand = NoHand
      /\ kept' = IF to = "measure" THEN {} ELSE kept
      /\ UNCHANGED <<altered_reloid_cache, relation_cache, relid_cache, todo, hand, stats,
                     localAltered, measured, unread, outlived>>
  BY Zenon DEF PutBack, Collect, cacheVars
<1>2. UNCHANGED <<pg_class, onDisk, size, freshRels, fresh, tx, unreported, writes>>
  BY <1>1, Zenon DEF sessVars, diskVars
<1>3. /\ active_tables_map' \subseteq active_tables_map \cup kept /\ kept' \subseteq kept
      /\ active_tables_map \subseteq active_tables_map'
      /\ ~full' => ~full /\ kept \subseteq active_tables_map'
  BY <1>0, <1>1, Zenon DEF Fits
<1>4. TypeOK'
  <2>1. full' \in BOOLEAN
    BY <1>0, Zenon DEF IndInv, TypeOK
  <2> QED
    BY <1>1, <1>2, <1>3, <2>1, Zenon DEF IndInv, TypeOK
<1>5. Cached' /\ Owned' /\ NewRels' /\ Reported'
  BY <1>1, <1>2, CacheFrame, SessionFrame, Zenon DEF cacheVars
<1>6. Entries' /\ Collecting'
  BY <1>1, <1>2, <1>3, Zenon DEF IndInv, Entries, InCollector, Collecting
<1>7. Tracked'
  <2> SUFFICES ASSUME ~full' PROVE Tracked'
    BY Zenon DEF Tracked
  <2>1. \A s \in Rels : NewFileTracked(s) => NewFileTracked(s)'
    BY <1>1, <1>2, <1>3, Zenon DEF NewFileTracked
  <2>2. \A s \in Rels : AlterationTracked(s) => AlterationTracked(s)'
    BY <1>1, <1>2, Zenon DEF AlterationTracked
  <2>3. \A s \in Rels : OnItsWay(s) => OnItsWay(s)'
    BY <1>1, <1>2, <1>3, Zenon DEF OnItsWay
  <2> QED
    BY <1>1, <1>3, <2>1, <2>2, <2>3, StillTracked, Zenon
<1> QED
  BY <1>4, <1>5, <1>6, <1>7, Zenon DEF IndInv

\* What was reported as altered is among the tables to measure from here on.
LEMMA CopyAlteredInv == ASSUME IndInv, CopyAltered PROVE IndInv'
<1> USE ActiveAssumption
<1>1. /\ pc = "copy" /\ pc' = "test" /\ UNCHANGED sessVars
      /\ stats' = stats \cup altered_reloid_cache /\ localAltered' = altered_reloid_cache
      /\ UNCHANGED <<active_tables_map, altered_reloid_cache, relation_cache, relid_cache, todo,
                     kept, hand, measured, full, unread, outlived>>
  BY Zenon DEF CopyAltered, Collect, cacheVars
<1>2. UNCHANGED <<pg_class, onDisk, size, freshRels, fresh, tx, unreported, writes>>
  BY <1>1, Zenon DEF sessVars, diskVars
<1>3. TypeOK'
  BY <1>1, <1>2, Zenon DEF IndInv, TypeOK
<1>4. Cached' /\ Owned' /\ NewRels' /\ Reported'
  BY <1>1, <1>2, CacheFrame, SessionFrame, Zenon DEF cacheVars
<1>5. Entries' /\ Collecting'
  BY <1>1, <1>2, Zenon DEF IndInv, Entries, InCollector, Collecting
<1>6. \A s \in Rels : NewFileTracked(s) => NewFileTracked(s)'
  BY <1>1, <1>2, Zenon DEF NewFileTracked
<1>7. \A s \in Rels : AlterationTracked(s) => AlterationTracked(s)'
  BY <1>1, <1>2, Zenon DEF AlterationTracked
<1>8. \A s \in Rels : OnItsWay(s) => OnItsWay(s)'
  BY <1>1, <1>2, Zenon DEF OnItsWay
<1>9. Tracked'
  BY <1>1, <1>6, <1>7, <1>8, StillTracked, Zenon
<1> QED
  BY <1>3, <1>4, <1>5, <1>9, Zenon DEF IndInv

\* The lock test changes the collector's copy only.
LEMMA TestAlteredInv == ASSUME IndInv, TestAltered PROVE IndInv'
<1> USE ActiveAssumption
<1>1. /\ pc = "test" /\ pc' = "remove" /\ UNCHANGED sessVars
      /\ localAltered' \subseteq localAltered
      /\ UNCHANGED <<active_tables_map, altered_reloid_cache, relation_cache, relid_cache, todo,
                     kept, hand, stats, measured, full, unread, outlived>>
  BY Zenon DEF TestAltered, Collect, cacheVars
<1>2. UNCHANGED <<pg_class, onDisk, size, freshRels, fresh, tx, unreported, writes>>
  BY <1>1, Zenon DEF sessVars, diskVars
<1>3. TypeOK'
  BY <1>1, <1>2, Zenon DEF IndInv, TypeOK
<1>4. Cached' /\ Owned' /\ NewRels' /\ Reported'
  BY <1>1, <1>2, CacheFrame, SessionFrame, Zenon DEF cacheVars
<1>5. Entries' /\ Collecting'
  BY <1>1, <1>2, Zenon DEF IndInv, Entries, InCollector, Collecting
<1>6. \A s \in Rels : NewFileTracked(s) => NewFileTracked(s)'
  BY <1>1, <1>2, Zenon DEF NewFileTracked
<1>7. \A s \in Rels : AlterationTracked(s) => AlterationTracked(s)'
  BY <1>1, <1>2, Zenon DEF AlterationTracked
<1>8. \A s \in Rels : OnItsWay(s) => OnItsWay(s)'
  BY <1>1, <1>2, Zenon DEF OnItsWay
<1>9. Tracked'
  BY <1>1, <1>6, <1>7, <1>8, StillTracked, Zenon
<1> QED
  BY <1>3, <1>4, <1>5, <1>9, Zenon DEF IndInv

\* An alteration that is forgotten has been read, or is counted as unread.
LEMMA RemoveAlteredInv == ASSUME IndInv, RemoveAltered PROVE IndInv'
<1> USE ActiveAssumption
<1>1. /\ pc = "remove" /\ pc' = "again" /\ UNCHANGED sessVars
      /\ altered_reloid_cache' = altered_reloid_cache \cap localAltered
      /\ unread' = unread \cup {r \in altered_reloid_cache \ localAltered : Locked(r)}
      /\ localAltered' = {}
      /\ UNCHANGED <<active_tables_map, relation_cache, relid_cache, todo,
                     kept, hand, stats, measured, full, outlived>>
  BY Zenon DEF RemoveAltered, Collect, cacheVars
<1>2. UNCHANGED <<pg_class, onDisk, size, freshRels, fresh, tx, unreported, writes>>
  BY <1>1, Zenon DEF sessVars, diskVars
<1>3. TypeOK'
  BY <1>1, <1>2, Zenon DEF IndInv, TypeOK
<1>4. Cached' /\ Owned' /\ NewRels' /\ Reported'
  BY <1>1, <1>2, CacheFrame, SessionFrame, Zenon DEF cacheVars
<1>5. Entries' /\ Collecting'
  BY <1>1, <1>2, Zenon DEF IndInv, Entries, InCollector, Collecting
<1>6. \A s \in Rels : NewFileTracked(s) => NewFileTracked(s)'
  BY <1>1, <1>2, Zenon DEF NewFileTracked
<1>7. \A s \in Rels : AlterationTracked(s) => AlterationTracked(s)'
  <2>1. \A s \in Rels : tx[s].stage \in {"open", "ending"} => Locked(s)
    BY Zenon DEF Locked
  <2> QED
    BY <1>1, <1>2, <2>1, Zenon DEF AlterationTracked
<1>8. \A s \in Rels : OnItsWay(s) => OnItsWay(s)'
  BY <1>1, <1>2, Zenon DEF OnItsWay
<1>9. Tracked'
  BY <1>1, <1>6, <1>7, <1>8, StillTracked, Zenon
<1> QED
  BY <1>3, <1>4, <1>5, <1>9, Zenon DEF IndInv

\* A measured table does not differ.
LEMMA MeasureInv == ASSUME IndInv, NEW r \in Rels, Measure(r) PROVE IndInv'
<1> USE ActiveAssumption
<1>1. /\ pc = "measure" /\ pc' \in {"idle", "measure"} /\ UNCHANGED sessVars
      /\ stats' = stats \ {r} /\ measured' = [measured EXCEPT ![r] = SizeOf(r)]
      /\ UNCHANGED <<active_tables_map, altered_reloid_cache, todo, kept, hand, localAltered,
                     full, unread, outlived>>
  BY Zenon DEF Measure, Collect
<1>2. UNCHANGED <<pg_class, onDisk, size, freshRels, fresh, tx, unreported, writes>>
  BY <1>1, Zenon DEF sessVars, diskVars
<1>3. Forgotten
  <2>1. CASE pg_class[r] # NoFile
    BY <2>1, ForgetRelPairs, Zenon DEF Measure
  <2>2. CASE pg_class[r] = NoFile
    BY <2>2 DEF Measure, cacheVars, Forgotten, IndInv, TypeOK, Cached, CachesPaired
  <2> QED
    BY <2>1, <2>2, Zenon
<1>4. TypeOK'
  <2>1. 0 \in 0 .. MaxSize
    BY ActiveAssumption
  <2>2. SizeOf(r) \in 0 .. MaxSize
    BY <2>1, Zenon DEF SizeOf, IndInv, TypeOK
  <2>3. measured' \in [Rels -> 0 .. MaxSize]
    BY <1>1, <2>2, Zenon DEF IndInv, TypeOK
  <2> QED
    BY <1>1, <1>2, <1>3, <2>3, Zenon DEF IndInv, TypeOK, Forgotten
<1>5. Cached' /\ Owned' /\ NewRels' /\ Reported'
  BY <1>1, <1>3, CollectorForgets, SessionFrame, Zenon
<1>6. Entries' /\ Collecting'
  BY <1>1, <1>2, Zenon DEF IndInv, Entries, InCollector, Collecting
<1>7. Tracked'
  <2>1. \A s \in Rels : NewFileTracked(s) => NewFileTracked(s)'
    BY <1>1, <1>2, Zenon DEF NewFileTracked
  <2>2. \A s \in Rels : AlterationTracked(s) => AlterationTracked(s)'
    BY <1>1, <1>2, Zenon DEF AlterationTracked
  <2>3. \A s \in Rels \ {r} : (Differs(s)' => Differs(s)) /\ (OnItsWay(s) => OnItsWay(s)')
    BY <1>1, <1>2, Zenon DEF OnItsWay, Differs, IndInv, TypeOK
  <2>4. ~Differs(r)'
    BY <1>1, <1>2, Zenon DEF Differs, SizeOf, IndInv, TypeOK
  <2> QED
    BY <1>1, <2>1, <2>2, <2>3, <2>4, Zenon DEF IndInv, Tracked
<1> QED
  BY <1>4, <1>5, <1>6, <1>7, Zenon DEF IndInv

\* A round that found nothing.
LEMMA NothingActiveInv == ASSUME IndInv, NothingActive PROVE IndInv'
<1>1. /\ pc = "measure" /\ pc' = "idle" /\ UNCHANGED sessVars
      /\ UNCHANGED <<active_tables_map, altered_reloid_cache, relation_cache, relid_cache, todo,
                     kept, hand, stats, localAltered, measured, full, unread, outlived>>
  BY Zenon DEF NothingActive, Collect, cacheVars
<1>2. UNCHANGED <<pg_class, onDisk, size, freshRels, fresh, tx, unreported, writes>>
  BY <1>1, Zenon DEF sessVars, diskVars
<1>3. TypeOK'
  BY <1>1, <1>2, Zenon DEF IndInv, TypeOK
<1>4. Cached' /\ Owned' /\ NewRels' /\ Reported'
  BY <1>1, <1>2, CacheFrame, SessionFrame, Zenon DEF cacheVars
<1>5. Entries' /\ Collecting'
  BY <1>1, <1>2, Zenon DEF IndInv, Entries, InCollector, Collecting
<1>6. \A s \in Rels : NewFileTracked(s) => NewFileTracked(s)'
  BY <1>1, <1>2, Zenon DEF NewFileTracked
<1>7. \A s \in Rels : AlterationTracked(s) => AlterationTracked(s)'
  BY <1>1, <1>2, Zenon DEF AlterationTracked
<1>8. \A s \in Rels : OnItsWay(s) => OnItsWay(s)'
  BY <1>1, <1>2, Zenon DEF OnItsWay
<1>9. Tracked'
  BY <1>1, <1>6, <1>7, <1>8, StillTracked, Zenon
<1> QED
  BY <1>3, <1>4, <1>5, <1>9, Zenon DEF IndInv

-----------------------------------------------------------------------------
(***************************************************************************)
(* The theorems.                                                           *)
(***************************************************************************)
\* Every step of a session and of the collector keeps the invariant.
LEMMA ActiveStep == IndInv /\ [Next]_vars => IndInv'
<1> SUFFICES ASSUME IndInv, [Next]_vars PROVE IndInv'
  BY Zenon
<1>1. CASE Session
  <2>1. ASSUME NEW r \in Rels, NEW f \in Files,
               \/ CreateTable(r, f) \/ RewriteTable(r, f)
               \/ \E x \in Rels \ {r} : SwapTable(r, x, f)
        PROVE  IndInv'
    BY <2>1, CreateInv, Zenon
  <2>2. ASSUME NEW r \in Rels, NEW f \in Files, NEW n \in 0 .. MaxSize, Write(r, f, n)
        PROVE  IndInv'
    BY <2>2, WriteInv, Zenon
  <2>3. ASSUME NEW f \in Files, Report(f) PROVE IndInv'
    BY <2>3, ReportInv, Zenon
  <2>4. ASSUME NEW r \in Rels,
               \/ DropTable(r) \/ PostCreate(r) \/ PostAlter(r) \/ Commit(r) \/ Abort(r)
               \/ ReleaseLocks(r) \/ Unlink(r) \/ UnlinkForget(r)
        PROVE  IndInv'
    BY <2>4, DropInv, PostCreateInv, PostAlterInv, CommitInv, AbortInv, ReleaseLocksInv, UnlinkInv,
       UnlinkForgetInv, Zenon
  <2> QED
    BY <1>1, <2>1, <2>2, <2>3, <2>4, Zenon DEF Session
<1>2. CASE Collector
  <2>1. ASSUME NEW f \in Files, Lookup(f) PROVE IndInv'
    BY <2>1, LookupInv, Zenon
  <2>2. ASSUME NEW r \in Rels, Measure(r) PROVE IndInv'
    BY <2>2, MeasureInv, Zenon
  <2>3. CASE PutBack("map", "copy") \/ PutBack("again", "measure")
    <3>1. CASE PutBack("map", "copy")
      BY <3>1, PutBackInv, Zenon
    <3>2. CASE PutBack("again", "measure")
      BY <3>2, PutBackInv, Zenon
    <3> QED
      BY <2>3, <3>1, <3>2, Zenon
  <2> QED
    BY <1>2, <2>1, <2>2, <2>3, MoveToLocalInv, RemoveCommittedInv, DecideInv, CopyAlteredInv,
       TestAlteredInv, RemoveAlteredInv, NothingActiveInv, Zenon DEF Collector
<1>3. CASE UNCHANGED vars
  <2>1. /\ UNCHANGED <<pg_class, onDisk, size, freshRels, fresh, tx, unreported, writes, pc,
                       active_tables_map, altered_reloid_cache, relation_cache, relid_cache, todo,
                       kept, hand, stats, localAltered, measured, full, unread, outlived>>
        /\ UNCHANGED sessVars
    BY <1>3, Zenon DEF vars, sessVars, diskVars, cacheVars, collVars
  <2>2. TypeOK'
    BY <2>1, Zenon DEF IndInv, TypeOK
  <2>3. Cached' /\ Owned' /\ NewRels' /\ Reported' /\ Entries' /\ Collecting'
    BY <2>1, CacheFrame, SessionFrame, EntriesFrame, CollectingFrame, Zenon DEF cacheVars, collVars
  <2>4. \A s \in Rels : /\ NewFileTracked(s) => NewFileTracked(s)'
                        /\ AlterationTracked(s) => AlterationTracked(s)'
                        /\ OnItsWay(s) => OnItsWay(s)'
    BY <2>1, Zenon DEF NewFileTracked, AlterationTracked, OnItsWay
  <2>5. Tracked'
    BY <2>1, <2>4, StillTracked, Zenon
  <2> QED
    BY <2>2, <2>3, <2>5, Zenon DEF IndInv
<1> QED
  BY <1>1, <1>2, <1>3, Zenon DEF Next

\* The inductive invariant holds in every reachable state.
THEOREM ActiveInvariant == Spec => []IndInv
BY ActiveInit, ActiveStep, PTL DEF Spec

\* The collector loses no change: a committed table that was written, rewritten
\* or swapped since it was measured is in a map, in the collector's hands or
\* about to be reported by its hook, unless a map was full or its alteration
\* fell between the two sections of get_active_tables_oid.
THEOREM NoLostChangeAlways == Spec => []NoLostChange
<1>1. IndInv => NoLostChange
  BY Zenon DEF IndInv, Tracked, NoLostChange, OnItsWay, Known
<1> QED
  BY <1>1, ActiveInvariant, PTL

\* relation_cache and relid_cache are inverse to each other, and their entries
\* have a file or a session that is about to remove them.
THEOREM CachesPairedAlways == Spec => []CachesPaired
<1>1. IndInv => CachesPaired
  BY Zenon DEF IndInv, Cached
<1> QED
  BY <1>1, ActiveInvariant, PTL

\* An entry of a file that is gone was in the collector's hands when the unlink
\* hook looked for it.
THEOREM NoEntryOfDeadFileAlways == Spec => []NoEntryOfDeadFile
<1>1. IndInv => NoEntryOfDeadFile
  BY Zenon DEF IndInv, Entries, NoEntryOfDeadFile
<1> QED
  BY <1>1, ActiveInvariant, PTL
=============================================================================
