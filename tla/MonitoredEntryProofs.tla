------------------------ MODULE MonitoredEntryProofs -----------------------
(***************************************************************************)
(* Proofs, for any databases, nodes, workers, sessions and bounds, that    *)
(* the entries of the nodes follow the slots as long as no database gets a *)
(* second slot, and that none gets one without faults.                     *)
(***************************************************************************)
EXTENDS MonitoredDBProofs

-----------------------------------------------------------------------------
(***************************************************************************)
(* Entries.  The slots in use are those of the listed databases (ListInv), *)
(* what the launcher has still to do adds the listed and removes the       *)
(* others (JobsInv), and an entry is in step with database_list unless it  *)
(* is strayed or an update of it is pending (CacheInv).  While the         *)
(* launcher is down, entries of listed databases may be missing.  A live   *)
(* worker has its entry throughout (EntryInv).                             *)
(***************************************************************************)
Job == [cmd : Updates, db : DBs]

JobsInv ==
    /\ jobs \in Seq(Job)
    /\ \A i \in DOMAIN jobs : jobs[i].cmd = "ADD" <=> jobs[i].db \in listed
    /\ lpc = "down" => jobs = << >>
    /\ onSegs => jobs # << >>

ListInv ==
    /\ \A i \in Slots : dbid[i] # NoDb => dbid[i] \in listed
    /\ lpc # "down" => \A d \in listed : \E i \in Slots : dbid[i] = d
    /\ Cardinality(listed) <= MaxDB

Pending(n, d) == \E i \in DOMAIN jobs : jobs[i].db = d /\ ~(i = 1 /\ onSegs /\ n \in Segs)

InStep(n, d) ==
    /\ d \in cached[n] => d \in listed
    /\ lpc # "down" /\ d \in listed => d \in cached[n]

CacheInv == \A n \in Nodes, d \in DBs : <<n, d>> \in stray \/ Pending(n, d) \/ InStep(n, d)

EntryInv ==
    \A w \in Workers : Alive(w) => \/ wk[w].db \in cached[Coord]
                                   \/ <<Coord, wk[w].db>> \in stray

BooksInv == JobsInv /\ ListInv /\ CacheInv /\ EntryInv

\* The first update and the others.
LEMMA FirstJob ==
    ASSUME JobsInv, jobs # << >>
    PROVE  /\ 1 \in DOMAIN jobs /\ Head(jobs) = jobs[1] /\ jobs[1] \in Job
           /\ Tail(jobs) \in Seq(Job)
           /\ \A i \in DOMAIN Tail(jobs) : i + 1 \in DOMAIN jobs /\ Tail(jobs)[i] = jobs[i + 1]
           /\ \A i \in DOMAIN jobs : i # 1 => i - 1 \in DOMAIN Tail(jobs) /\ Tail(jobs)[i - 1] = jobs[i]
<1>1. jobs \in Seq(Job)
  BY Zenon DEF JobsInv
<1> HIDE DEF Job
<1>2. 1 \in DOMAIN jobs /\ Head(jobs) = jobs[1] /\ jobs[1] \in Job
  BY <1>1
<1>3. Tail(jobs) \in Seq(Job) /\ DOMAIN Tail(jobs) = 1..(Len(jobs) - 1) /\ DOMAIN jobs = 1..Len(jobs)
  BY <1>1
<1>4. \A i \in 1..(Len(jobs) - 1) : Tail(jobs)[i] = jobs[i + 1]
  BY <1>1
<1>5. Len(jobs) \in Nat
  BY <1>1
<1>6. ASSUME NEW i \in DOMAIN jobs, i # 1
      PROVE  i - 1 \in DOMAIN Tail(jobs) /\ Tail(jobs)[i - 1] = jobs[i]
  <2>1. i - 1 \in 1..(Len(jobs) - 1) /\ (i - 1) + 1 = i
    BY <1>3, <1>5, <1>6
  <2>2. Tail(jobs)[i - 1] = jobs[(i - 1) + 1]
    BY <1>4, <2>1
  <2> QED
    BY <1>3, <2>1, <2>2, Zenon
<1>7. \A i \in DOMAIN Tail(jobs) : i + 1 \in DOMAIN jobs /\ Tail(jobs)[i] = jobs[i + 1]
  BY <1>3, <1>4, <1>5
<1> QED
  BY <1>2, <1>3, <1>6, <1>7, Zenon

\* With one slot for each database and slots of listed databases only, there are
\* not more slots in use than listed databases, and, all slots being in use,
\* every listed database has one.
LEMMA AllInUse ==
    ASSUME NEW a, NEW L, IsFiniteSet(L), NoDb \notin L,
           \A i \in Slots : a[i] \in L,
           \A i, j \in Slots : a[i] = a[j] => i = j
    PROVE  /\ MaxDB <= Cardinality(L)
           /\ Cardinality(L) <= MaxDB => \A d \in L : \E i \in Slots : a[i] = d
<1> DEFINE f == [i \in Slots |-> a[i]]
<1>1. f \in Injection(Slots, L)
  BY Zenon DEF Injection, IsInjective
<1> HIDE DEF f
<1>2. /\ Cardinality(Slots) <= Cardinality(L)
      /\ Cardinality(Slots) = Cardinality(L) <=> f \in Surjection(Slots, L)
  BY <1>1, FS_Injection, Zenon
<1>3. Cardinality(Slots) = MaxDB /\ MaxDB \in Nat
  BY MonitorAssumption, FS_Interval DEF Slots
<1>4. Cardinality(L) \in Nat
  BY FS_CardinalityType, Zenon
<1>5. MaxDB <= Cardinality(L)
  BY <1>2, <1>3, Zenon
<1>6. ASSUME Cardinality(L) <= MaxDB, NEW d \in L PROVE \E i \in Slots : a[i] = d
  <2>1. Cardinality(Slots) = Cardinality(L)
    BY <1>3, <1>4, <1>5, <1>6
  <2>2. \E i \in Slots : f[i] = d
    BY <1>2, <2>1, Zenon DEF Surjection
  <2> QED
    BY <2>2, Zenon DEF f
<1> QED
  BY <1>5, <1>6, Zenon

\* DROP EXTENSION clears the slot of its database.
LEMMA DropFrees ==
    ASSUME IndInv, UniqueSlots, NEW d \in DBs, Drop(d), NEW i \in Slots
    PROVE  dbid'[i] = IF dbid[i] = d THEN NoDb ELSE dbid[i]
<1>1. PICK S \in SUBSET Slots :
             /\ S = {k \in Slots : dbid[k] = d /\ \A j \in Slots : dbid[j] = d => k <= j}
             /\ dbid' = [k \in Slots |-> IF k \in S THEN NoDb ELSE dbid[k]]
  BY DropMoves, Zenon
<1>2. d # NoDb
  BY MonitorAssumption
<1>3. CASE dbid[i] = d
  <2>1. \A j \in Slots : dbid[j] = d => j = i
    BY <1>2, <1>3, Zenon DEF UniqueSlots
  <2>2. i <= i
    BY MonitorAssumption DEF Slots
  <2>3. i \in S
    BY <1>1, <1>3, <2>1, <2>2, Zenon
  <2> QED
    BY <1>1, <1>3, <2>3, Zenon
<1>4. CASE dbid[i] # d
  BY <1>1, <1>4, Zenon
<1> QED
  BY <1>3, <1>4, Zenon

\* Neither lists nor slots change, and the launcher does not start.
LEMMA ListFrame ==
    ASSUME ListInv, UNCHANGED <<dbid, listed>>, lpc = "down" => lpc' = "down"
    PROVE  ListInv'
BY Zenon DEF ListInv

\* The slots in use are those of the listed databases after every step.
LEMMA ListNext ==
    IndInv /\ SlotsInv /\ UniqueSlots /\ UniqueSlots' /\ ListInv /\ [Next]_vars => ListInv'
<1> SUFFICES ASSUME IndInv, SlotsInv, UniqueSlots, UniqueSlots', ListInv, [Next]_vars PROVE ListInv'
  OBVIOUS
<1>1. /\ listed \subseteq DBs /\ IsFiniteSet(listed) /\ NoDb \notin DBs
      /\ Cardinality(listed) \in Nat /\ Cardinality(listed) <= MaxDB /\ MaxDB \in Nat
  BY MonitorAssumption, FS_CardinalityType, Zenon DEF SlotsInv, ListInv
<1>2. ASSUME NEW d \in DBs, Create(d) PROVE ListInv'
  <2>1. /\ listed' = listed \cup {d} /\ d \notin listed /\ Cardinality(listed) < MaxDB
        /\ lpc' = lpc /\ lpc # "down"
    BY <1>2 DEF Create
  <2>2. /\ \A i \in Slots : dbid[i] # NoDb => dbid'[i] = dbid[i]
        /\ \A i \in Slots : dbid'[i] = dbid[i] \/ dbid'[i] = d
        /\ (\E i \in Slots : dbid'[i] = d) \/ (\A i \in Slots : dbid[i] # NoDb)
    BY <1>2, CreateAdds, Zenon
  <2>3. \E i \in Slots : dbid'[i] = d
    <3> SUFFICES ASSUME \A i \in Slots : dbid[i] # NoDb PROVE FALSE
      BY <2>2, Zenon
    <3>1. \A i \in Slots : dbid[i] \in listed
      BY Zenon DEF ListInv
    <3>2. \A i, j \in Slots : dbid[i] = dbid[j] => i = j
      BY Zenon DEF UniqueSlots
    <3>3. MaxDB <= Cardinality(listed)
      BY <1>1, <3>1, <3>2, AllInUse, Zenon
    <3> QED
      BY <1>1, <2>1, <3>3
  <2>4. Cardinality(listed') <= MaxDB
    <3>1. Cardinality(listed') = Cardinality(listed) + 1
      BY <1>1, <2>1, FS_AddElement
    <3> QED
      BY <1>1, <2>1, <3>1
  <2>5. \A i \in Slots : dbid'[i] # NoDb => dbid'[i] \in listed'
    BY <2>1, <2>2, Zenon DEF ListInv
  <2>6. ASSUME NEW e \in listed' PROVE \E i \in Slots : dbid'[i] = e
    <3>1. CASE e = d
      BY <2>3, <3>1, Zenon
    <3>2. CASE e # d
      <4>1. e \in listed
        BY <2>1, <3>2, Zenon
      <4>2. PICK i \in Slots : dbid[i] = e
        BY <2>1, <4>1, Zenon DEF ListInv
      <4> QED
        BY <1>1, <2>2, <4>1, <4>2, Zenon
    <3> QED
      BY <3>1, <3>2, Zenon
  <2> QED
    BY <2>4, <2>5, <2>6, Zenon DEF ListInv
<1>3. ASSUME NEW d \in DBs, Drop(d) PROVE ListInv'
  <2>1. listed' = listed \ {d} /\ lpc' = lpc
    BY <1>3, Zenon DEF Drop
  <2>2. \A i \in Slots : dbid'[i] = IF dbid[i] = d THEN NoDb ELSE dbid[i]
    BY <1>3, DropFrees, Zenon
  <2>3. Cardinality(listed') <= MaxDB
    <3>1. Cardinality(listed') <= Cardinality(listed) /\ Cardinality(listed') \in Nat
      <4>1. listed' \in SUBSET listed
        BY <2>1, Zenon
      <4>2. IsFiniteSet(listed') /\ Cardinality(listed') <= Cardinality(listed)
        BY <1>1, <4>1, FS_Subset, Zenon
      <4> QED
        BY <4>2, FS_CardinalityType, Zenon
    <3> QED
      BY <1>1, <3>1
  <2>4. \A i \in Slots : dbid'[i] # NoDb => dbid'[i] \in listed'
    BY <2>1, <2>2, Zenon DEF ListInv
  <2>5. ASSUME lpc' # "down", NEW e \in listed' PROVE \E i \in Slots : dbid'[i] = e
    <3>1. PICK i \in Slots : dbid[i] = e
      BY <2>1, <2>5, Zenon DEF ListInv
    <3> QED
      BY <2>1, <2>2, <3>1, Zenon
  <2> QED
    BY <2>3, <2>4, <2>5, Zenon DEF ListInv
<1>4. CASE Restart
  <2>1. /\ \A i \in Slots : dbid'[i] = dbid[i] \/ dbid'[i] \in listed
        /\ \A d \in listed : (\E i \in Slots : dbid'[i] = d) \/ (\A i \in Slots : dbid'[i] # NoDb)
    BY <1>4, RestartAdds, Zenon
  <2>2. listed' = listed
    BY <1>4, Zenon DEF Restart
  <2>3. \A i \in Slots : dbid'[i] # NoDb => dbid'[i] \in listed
    BY <2>1, Zenon DEF ListInv
  <2>4. ASSUME NEW d \in listed PROVE \E i \in Slots : dbid'[i] = d
    <3> SUFFICES ASSUME \A i \in Slots : dbid'[i] # NoDb PROVE \E i \in Slots : dbid'[i] = d
      BY <2>1, Zenon
    <3>1. \A i, j \in Slots : dbid'[i] = dbid'[j] => i = j
      BY Zenon DEF UniqueSlots
    <3>2. PICK a : a = dbid'
      BY Zenon
    <3>3. (\A i \in Slots : a[i] \in listed) /\ \A i, j \in Slots : a[i] = a[j] => i = j
      BY <2>3, <3>1, <3>2, Zenon
    <3>4. \E i \in Slots : a[i] = d
      BY <1>1, <3>3, AllInUse, Zenon
    <3> QED
      BY <3>2, <3>4, Zenon
  <2> QED
    BY <1>1, <2>2, <2>3, <2>4, Zenon DEF ListInv
<1>5. ASSUME NEW w \in Workers, CheckReadyCrash(w) PROVE ListInv'
  <2>1. dbid' = [i \in Slots |-> NoDb] /\ listed' = listed /\ lpc' = "down"
    BY <1>5, Zenon DEF CheckReadyCrash, PostmasterReset
  <2> QED
    BY <1>1, <2>1, Zenon DEF ListInv
<1>6. ASSUME \/ \E d \in DBs : SetReady(d) \/ WaitStart(d)
             \/ LauncherSegs \/ LauncherCoord \/ LauncherError
             \/ \E i \in Slots : StartWorker(i)
             \/ WaitPoll \/ WaitEnd
             \/ \E s \in Sessions : \/ ToggleCoord(s)
                                    \/ \E d \in DBs, cmd \in Toggles : ToggleSegs(s, d, cmd)
             \/ \E n \in Segs : Failover(n)
             \/ UNCHANGED vars
      PROVE  ListInv'
  <2>1. UNCHANGED <<dbid, listed>> /\ (lpc = "down" => lpc' = "down")
    BY <1>6, Zenon DEF SetReady, WaitStart, LauncherSegs, LauncherCoord, LauncherError, StartWorker,
       WaitPoll, WaitEnd, ToggleCoord, ToggleSegs, Failover, vars, slotVars, launVars
  <2> QED
    BY <2>1, ListFrame, Zenon
<1>7. ASSUME NEW w \in Workers,
             \/ ReadyLoop(w) \/ CheckReady(w) \/ MarkRunning(w)
             \/ LoopTop(w) \/ Round(w) \/ IncreaseEpoch(w)
      PROVE  ListInv'
  <2>1. UNCHANGED <<dbid, listed>>
    BY <1>7, WorkerMoves, Zenon
  <2>2. lpc' = lpc
    BY <1>7, Zenon DEF ReadyLoop, CheckReady, MarkRunning, LoopTop, Round, IncreaseEpoch, launVars
  <2> QED
    BY <2>1, <2>2, ListFrame, Zenon
<1> QED
  BY <1>2, <1>3, <1>4, <1>5, <1>6, <1>7, Zenon DEF Next, WorkerStep

\* What the launcher has to do stays in step with the list.
LEMMA JobsNext ==
    IndInv /\ SlotsInv /\ ListInv /\ ListInv' /\ JobsInv /\ [Next]_vars => JobsInv'
<1> SUFFICES ASSUME IndInv, SlotsInv, ListInv, ListInv', JobsInv, [Next]_vars PROVE JobsInv'
  OBVIOUS
<1>1. ASSUME jobs' = << >>, ~onSegs' PROVE JobsInv'
  <2>1. << >> \in Seq(Job) /\ DOMAIN << >> = {}
    OBVIOUS
  <2> QED
    BY <1>1, <2>1, Zenon DEF JobsInv
<1>2. ASSUME NEW j \in Job, jobs' = <<j>>, ~onSegs', lpc' # "down", j.cmd = "ADD" <=> j.db \in listed'
      PROVE  JobsInv'
  <2>1. <<j>> \in Seq(Job) /\ \A i \in DOMAIN <<j>> : <<j>>[i] = j
    <3> HIDE DEF Job
    <3> QED
      OBVIOUS
  <2> QED
    BY <1>2, <2>1, Zenon DEF JobsInv
<1>3. ASSUME NEW d \in DBs, Create(d) PROVE JobsInv'
  <2>1. /\ jobs = << >> /\ jobs' = << [cmd |-> "ADD", db |-> d] >> /\ onSegs' = onSegs
        /\ lpc' # "down" /\ d \in listed'
    BY <1>3 DEF Create
  <2>2. [cmd |-> "ADD", db |-> d] \in Job /\ [cmd |-> "ADD", db |-> d].db = d
    BY DEF Job, Updates
  <2>3. ~onSegs'
    BY <2>1, Zenon DEF JobsInv
  <2> QED
    BY <1>2, <2>1, <2>2, <2>3
<1>4. ASSUME NEW d \in DBs, Drop(d) PROVE JobsInv'
  <2>1. /\ jobs = << >> /\ jobs' = << [cmd |-> "REMOVE", db |-> d] >> /\ onSegs' = onSegs
        /\ lpc' # "down" /\ d \notin listed'
    BY <1>4 DEF Drop
  <2>2. /\ [cmd |-> "REMOVE", db |-> d] \in Job /\ [cmd |-> "REMOVE", db |-> d].db = d
        /\ [cmd |-> "REMOVE", db |-> d].cmd # "ADD"
    BY DEF Job, Updates
  <2>3. ~onSegs'
    BY <2>1, Zenon DEF JobsInv
  <2> QED
    BY <1>2, <2>1, <2>2, <2>3
<1>5. CASE LauncherSegs
  <2>1. jobs # << >> /\ ~onSegs /\ lpc # "down" /\ listed' = listed
    BY <1>5, Zenon DEF LauncherSegs
  <2>2. (onSegs' /\ UNCHANGED <<lpc, jobs>>) \/ (jobs' = << >> /\ onSegs' = onSegs)
    BY <1>5, Zenon DEF LauncherSegs
  <2>3. CASE onSegs' /\ UNCHANGED <<lpc, jobs>>
    BY <2>1, <2>3, Zenon DEF JobsInv
  <2> QED
    BY <1>1, <2>1, <2>2, <2>3, Zenon
<1>6. CASE LauncherCoord
  <2>1. /\ onSegs /\ jobs' = Tail(jobs) /\ ~onSegs' /\ listed' = listed /\ lpc # "down"
        /\ lpc' = IF jobs' = << >> THEN "serve" ELSE lpc
    BY <1>6, Zenon DEF LauncherCoord
  <2>2. jobs # << >>
    BY <2>1, Zenon DEF JobsInv
  <2>3. /\ Tail(jobs) \in Seq(Job)
        /\ \A i \in DOMAIN Tail(jobs) : i + 1 \in DOMAIN jobs /\ Tail(jobs)[i] = jobs[i + 1]
    BY <2>2, FirstJob, Zenon
  <2>4. lpc' # "down"
    BY <2>1
  <2>5. \A i \in DOMAIN jobs' : jobs'[i].cmd = "ADD" <=> jobs'[i].db \in listed'
    BY <2>1, <2>3, Zenon DEF JobsInv
  <2> QED
    BY <2>1, <2>3, <2>4, <2>5, Zenon DEF JobsInv
<1>7. ASSUME LauncherError \/ \E w \in Workers : CheckReadyCrash(w) PROVE JobsInv'
  <2>1. jobs' = << >> /\ ~onSegs'
    BY <1>7, Zenon DEF LauncherError, CheckReadyCrash, PostmasterReset
  <2> QED
    BY <1>1, <2>1, Zenon
<1>8. CASE Restart
  <2>1. /\ \A d : (\E k \in DOMAIN jobs' : jobs'[k].db = d) <=>
                       d # NoDb /\ \E i \in Slots : dbid'[i] = d
        /\ \E n \in Nat : jobs' = [k \in 1..n |-> [cmd |-> "ADD", db |-> jobs'[k].db]]
        /\ lpc' = IF jobs' = << >> THEN "serve" ELSE "boot"
    BY <1>8, RestartAdds, Zenon
  <2>2. listed' = listed /\ onSegs' = onSegs /\ lpc = "down"
    BY <1>8, Zenon DEF Restart
  <2>3. ~onSegs' /\ lpc' # "down"
    BY <2>1, <2>2 DEF JobsInv
  <2>4. \A k \in DOMAIN jobs' : jobs'[k].db \in listed' /\ jobs'[k].db \in DBs
    <3>1. \A k \in DOMAIN jobs' : jobs'[k].db # NoDb /\ \E i \in Slots : dbid'[i] = jobs'[k].db
      BY <2>1
    <3> QED
      BY <2>2, <3>1, Zenon DEF ListInv, SlotsInv
  <2>5. PICK n \in Nat : jobs' = [k \in 1..n |-> [cmd |-> "ADD", db |-> jobs'[k].db]]
    BY <2>1, Zenon
  <2>6. PICK g : g = jobs'
    BY Zenon
  <2>7. g = [k \in 1..n |-> [cmd |-> "ADD", db |-> g[k].db]] /\ \A k \in 1..n : g[k].db \in DBs
    BY <2>4, <2>5, <2>6, Zenon
  <2>8. \A k \in 1..n : g[k] \in Job /\ g[k].cmd = "ADD"
    <3>1. \A k \in 1..n : g[k] = [cmd |-> "ADD", db |-> g[k].db]
      BY <2>7, Zenon
    <3> QED
      BY <2>7, <3>1 DEF Job, Updates
  <2>9. g \in Seq(Job) /\ DOMAIN g = 1..n
    <3> HIDE DEF Job
    <3>1. g \in [1..n -> Job]
      <4>1. DOMAIN g = 1..n /\ g = [k \in 1..n |-> g[k]]
        BY <2>7, Zenon
      <4> QED
        BY <2>8, <4>1, Zenon
    <3> QED
      BY <3>1
  <2> QED
    BY <2>2, <2>3, <2>4, <2>6, <2>8, <2>9, Zenon DEF JobsInv
<1>9. ASSUME UNCHANGED <<listed, jobs, lpc, onSegs>> PROVE JobsInv'
  BY <1>9, Zenon DEF JobsInv
<1>10. ASSUME \/ \E d \in DBs : SetReady(d) \/ WaitStart(d)
              \/ \E i \in Slots : StartWorker(i)
              \/ \E w \in Workers : \/ ReadyLoop(w) \/ CheckReady(w) \/ MarkRunning(w)
                                    \/ LoopTop(w) \/ Round(w) \/ IncreaseEpoch(w)
              \/ WaitPoll \/ WaitEnd
              \/ \E s \in Sessions : \/ ToggleCoord(s)
                                     \/ \E d \in DBs, cmd \in Toggles : ToggleSegs(s, d, cmd)
              \/ \E n \in Segs : Failover(n)
              \/ UNCHANGED vars
       PROVE  JobsInv'
  <2>1. UNCHANGED <<listed, jobs, lpc, onSegs>>
    BY <1>10, Zenon DEF SetReady, WaitStart, StartWorker, ReadyLoop, CheckReady, MarkRunning, LoopTop,
       Round, IncreaseEpoch, WaitPoll, WaitEnd, ToggleCoord, ToggleSegs, Failover, vars, launVars
  <2> QED
    BY <1>9, <2>1, Zenon
<1> QED
  BY <1>3, <1>4, <1>5, <1>6, <1>7, <1>8, <1>10, Zenon DEF Next, WorkerStep

\* What update_monitor_db does to the entries: they change only for its database
\* and on its nodes, and there ADD makes one and REMOVE deletes it.
LEMMA UpdateEntries ==
    ASSUME NEW ns, NEW cmd, NEW d, UpdateMonitorDb(ns, cmd, d), NEW n \in Nodes, NEW e
    PROVE  /\ n \notin ns \/ e # d \/ cmd \in Toggles => (e \in cached'[n] <=> e \in cached[n])
           /\ n \in ns /\ cmd \in Updates => (d \in cached'[n] <=> cmd = "ADD")
<1>1. cached'[n] = IF n \in ns THEN InCache(cmd, cached[n], d) ELSE cached[n]
  BY Zenon DEF UpdateMonitorDb
<1>2. cmd \in Toggles => InCache(cmd, cached[n], d) = cached[n]
  BY DEF InCache, Toggles
<1>3. e # d => (e \in InCache(cmd, cached[n], d) <=> e \in cached[n])
  BY Zenon DEF InCache
<1>4. cmd \in Updates => (d \in InCache(cmd, cached[n], d) <=> cmd = "ADD")
  BY DEF InCache, Updates
<1> QED
  BY <1>1, <1>2, <1>3, <1>4, Zenon

\* Updates that are dropped leave their databases astray; the others are in step.
LEMMA JobsDropped ==
    ASSUME NEW n \in Nodes, NEW d \in DBs, jobs' = << >>,
           listed' = listed, lpc = "down" => lpc' = "down",
           stray' = stray \cup (Nodes \X {jobs[i].db : i \in DOMAIN jobs}),
           CacheInv, ~Pending(n, d) => (d \in cached'[n] <=> d \in cached[n]) \/ (d \notin cached'[n] /\ lpc' = "down")
    PROVE  <<n, d>> \in stray' \/ InStep(n, d)'
<1>1. CASE Pending(n, d)
  <2>1. d \in {jobs[i].db : i \in DOMAIN jobs}
    BY <1>1, Zenon DEF Pending
  <2> QED
    BY <2>1, Zenon
<1>2. CASE ~Pending(n, d)
  BY <1>2, Zenon DEF CacheInv, InStep
<1> QED
  BY <1>1, <1>2, Zenon

\* Entries stay in step, but for the strayed ones.
LEMMA CacheNext ==
    IndInv /\ SlotsInv /\ ListInv /\ ListInv' /\ JobsInv /\ CacheInv /\ [Next]_vars => CacheInv'
<1> SUFFICES ASSUME IndInv, SlotsInv, ListInv, ListInv', JobsInv, CacheInv, [Next]_vars,
                    NEW n \in Nodes, NEW d \in DBs
             PROVE  <<n, d>> \in stray' \/ Pending(n, d)' \/ InStep(n, d)'
  BY Zenon DEF CacheInv
<1>0. /\ Coord \notin Segs /\ d # NoDb
      /\ <<n, d>> \in stray \/ Pending(n, d) \/ InStep(n, d)
  BY MonitorAssumption, Zenon DEF CacheInv
<1> DEFINE Goal == <<n, d>> \in stray' \/ Pending(n, d)' \/ InStep(n, d)'
<1>1. ASSUME UNCHANGED <<listed, jobs, onSegs, lpc>>, <<n, d>> \in stray => <<n, d>> \in stray',
             d \in cached'[n] <=> d \in cached[n]
      PROVE  Goal
  BY <1>0, <1>1, Zenon DEF Pending, InStep
<1>2. ASSUME NEW e \in DBs, Create(e) PROVE Goal
  <2>1. /\ jobs = << >> /\ jobs' = << [cmd |-> "ADD", db |-> e] >> /\ onSegs' = onSegs
        /\ lpc' = lpc /\ listed' = listed \cup {e} /\ UNCHANGED <<cached, stray>>
    BY <1>2, Zenon DEF Create, cacheVars, history
  <2>2. ~onSegs
    BY <2>1, Zenon DEF JobsInv
  <2>3. ~Pending(n, d)
    BY <2>1 DEF Pending
  <2>4. d = e => Pending(n, d)'
    <3>1. 1 \in DOMAIN jobs' /\ jobs'[1].db = e
      BY <2>1
    <3> QED
      BY <2>1, <2>2, <3>1, Zenon DEF Pending
  <2>5. d # e => (InStep(n, d) => InStep(n, d)')
    BY <2>1, Zenon DEF InStep
  <2> QED
    BY <1>0, <2>1, <2>3, <2>4, <2>5, Zenon
<1>3. ASSUME NEW e \in DBs, Drop(e) PROVE Goal
  <2>1. /\ jobs = << >> /\ jobs' = << [cmd |-> "REMOVE", db |-> e] >> /\ onSegs' = onSegs
        /\ lpc' = lpc /\ listed' = listed \ {e} /\ UNCHANGED <<cached, stray>>
    BY <1>3, Zenon DEF Drop, cacheVars
  <2>2. ~onSegs
    BY <2>1, Zenon DEF JobsInv
  <2>3. ~Pending(n, d)
    BY <2>1 DEF Pending
  <2>4. d = e => Pending(n, d)'
    <3>1. 1 \in DOMAIN jobs' /\ jobs'[1].db = e
      BY <2>1
    <3> QED
      BY <2>1, <2>2, <3>1, Zenon DEF Pending
  <2>5. d # e => (InStep(n, d) => InStep(n, d)')
    BY <2>1, Zenon DEF InStep
  <2> QED
    BY <1>0, <2>1, <2>3, <2>4, <2>5, Zenon
<1>4. CASE LauncherSegs
  <2>1. PICK c, e : c = Head(jobs).cmd /\ e = Head(jobs).db
    BY Zenon
  <2>2. PICK ns \in SUBSET Segs :
          /\ UpdateMonitorDb(ns, c, e)
          /\ \/ /\ ns = Segs /\ onSegs' = TRUE /\ stray' = stray \ (Segs \X {e})
                /\ UNCHANGED <<lpc, jobs>>
             \/ /\ jobs' = << >> /\ stray' = stray \cup (Nodes \X {jobs[i].db : i \in DOMAIN jobs})
                /\ onSegs' = onSegs
    BY <1>4, <2>1, Zenon DEF LauncherSegs
  <2>3. jobs # << >> /\ ~onSegs /\ lpc # "down" /\ listed' = listed
    BY <1>4, Zenon DEF LauncherSegs
  <2>4. 1 \in DOMAIN jobs /\ jobs[1].cmd = c /\ jobs[1].db = e /\ c \in Updates /\ (c = "ADD" <=> e \in listed)
    <3>1. 1 \in DOMAIN jobs /\ Head(jobs) = jobs[1] /\ jobs[1] \in Job
      BY <2>3, FirstJob, Zenon
    <3>2. jobs[1].cmd \in Updates
      BY <3>1 DEF Job
    <3> QED
      BY <2>1, <3>1, <3>2, Zenon DEF JobsInv
  <2>5. /\ n \notin ns \/ d # e => (d \in cached'[n] <=> d \in cached[n])
        /\ n \in ns => (e \in cached'[n] <=> c = "ADD")
    BY <2>2, <2>4, UpdateEntries
  <2>6. CASE ns = Segs /\ onSegs' = TRUE /\ stray' = stray \ (Segs \X {e}) /\ UNCHANGED <<lpc, jobs>>
    <3>1. CASE d = e /\ n \in Segs
      BY <2>3, <2>4, <2>5, <2>6, <3>1, Zenon DEF InStep
    <3>2. CASE d = e /\ n \notin Segs
      BY <2>4, <2>6, <3>2, Zenon DEF Pending
    <3>3. CASE d # e
      <4>1. <<n, d>> \in stray => <<n, d>> \in stray'
        BY <2>6, <3>3
      <4>2. Pending(n, d) => Pending(n, d)'
        BY <2>3, <2>4, <2>6, <3>3, Zenon DEF Pending
      <4>3. InStep(n, d) => InStep(n, d)'
        BY <2>3, <2>5, <2>6, <3>3, Zenon DEF InStep
      <4> QED
        BY <1>0, <4>1, <4>2, <4>3, Zenon
    <3> QED
      BY <3>1, <3>2, <3>3, Zenon
  <2>7. CASE /\ jobs' = << >> /\ stray' = stray \cup (Nodes \X {jobs[i].db : i \in DOMAIN jobs})
             /\ onSegs' = onSegs
    <3>1. ~Pending(n, d) => d # e
      BY <2>3, <2>4, Zenon DEF Pending
    <3>2. <<n, d>> \in stray' \/ InStep(n, d)'
      BY <2>3, <2>5, <2>7, <3>1, JobsDropped, Zenon
    <3> QED
      BY <3>2, Zenon
  <2> QED
    BY <2>2, <2>6, <2>7, Zenon
<1>5. CASE LauncherCoord
  <2>1. PICK c, e : c = Head(jobs).cmd /\ e = Head(jobs).db
    BY Zenon
  <2>2. /\ UpdateMonitorDb({Coord}, c, e) /\ stray' = stray \ {<<Coord, e>>}
        /\ onSegs /\ jobs' = Tail(jobs) /\ ~onSegs' /\ listed' = listed /\ lpc # "down"
        /\ lpc' = IF jobs' = << >> THEN "serve" ELSE lpc
    BY <1>5, <2>1, Zenon DEF LauncherCoord
  <2>3. jobs # << >> /\ lpc' # "down"
    BY <2>2 DEF JobsInv
  <2>4. 1 \in DOMAIN jobs /\ jobs[1].cmd = c /\ jobs[1].db = e /\ c \in Updates /\ (c = "ADD" <=> e \in listed)
    <3>1. 1 \in DOMAIN jobs /\ Head(jobs) = jobs[1] /\ jobs[1] \in Job
      BY <2>3, FirstJob, Zenon
    <3>2. jobs[1].cmd \in Updates
      BY <3>1 DEF Job
    <3> QED
      BY <2>1, <3>1, <3>2, Zenon DEF JobsInv
  <2>5. /\ n # Coord \/ d # e => (d \in cached'[n] <=> d \in cached[n])
        /\ n = Coord => (e \in cached'[n] <=> c = "ADD")
    BY <2>2, <2>4, UpdateEntries
  <2>6. CASE d = e /\ n = Coord
    BY <2>2, <2>3, <2>4, <2>5, <2>6, Zenon DEF InStep
  <2>7. CASE d # e \/ n # Coord
    <3>1. <<n, d>> \in stray => <<n, d>> \in stray'
      BY <2>2, <2>7
    <3>2. InStep(n, d) => InStep(n, d)'
      BY <2>2, <2>3, <2>5, <2>7, Zenon DEF InStep
    <3>3. ASSUME Pending(n, d) PROVE Pending(n, d)'
      <4>1. PICK i \in DOMAIN jobs : jobs[i].db = d /\ ~(i = 1 /\ onSegs /\ n \in Segs)
        BY <3>3, Zenon DEF Pending
      <4>2. i # 1
        BY <2>2, <2>4, <2>7, <4>1, Zenon DEF Nodes
      <4>3. PICK k : k = i - 1 /\ k \in DOMAIN Tail(jobs) /\ Tail(jobs)[k] = jobs[i]
        BY <2>3, <4>2, FirstJob
      <4> QED
        BY <2>2, <4>1, <4>3, Zenon DEF Pending
    <3> QED
      BY <1>0, <3>1, <3>2, <3>3, Zenon
  <2> QED
    BY <2>6, <2>7, Zenon
<1>6. CASE LauncherError
  <2>1. /\ jobs' = << >> /\ UNCHANGED <<cached, listed>> /\ lpc' = "down"
        /\ stray' = stray \cup (Nodes \X {jobs[i].db : i \in DOMAIN jobs})
    BY <1>6, Zenon DEF LauncherError, cacheVars
  <2> QED
    BY <2>1, JobsDropped, Zenon
<1>7. ASSUME NEW w \in Workers, CheckReadyCrash(w) PROVE Goal
  <2>1. /\ jobs' = << >> /\ UNCHANGED listed /\ lpc' = "down"
        /\ stray' = stray \cup (Nodes \X {jobs[i].db : i \in DOMAIN jobs})
        /\ cached' = [cached EXCEPT ![Coord] = {}]
    BY <1>7, Zenon DEF CheckReadyCrash, PostmasterReset
  <2>2. cached = [m \in Nodes |-> cached[m]]
    BY Zenon DEF IndInv, Typed
  <2>3. cached'[n] = cached[n] \/ cached'[n] = {}
    BY <2>1, <2>2, Zenon
  <2> QED
    BY <2>1, <2>3, JobsDropped, Zenon
<1>8. CASE Restart
  <2>1. /\ \A e : (\E k \in DOMAIN jobs' : jobs'[k].db = e) <=>
                       e # NoDb /\ \E i \in Slots : dbid'[i] = e
        /\ lpc' = IF jobs' = << >> THEN "serve" ELSE "boot"
    BY <1>8, RestartAdds, Zenon
  <2>2. listed' = listed /\ onSegs' = onSegs /\ lpc = "down" /\ UNCHANGED <<cached, stray>>
    BY <1>8, Zenon DEF Restart, cacheVars, history
  <2>3. jobs = << >> /\ ~onSegs' /\ lpc' # "down"
    BY <2>1, <2>2 DEF JobsInv
  <2>4. CASE d \in listed
    <3>1. \E k \in DOMAIN jobs' : jobs'[k].db = d
      BY <1>0, <2>1, <2>2, <2>3, <2>4, Zenon DEF ListInv
    <3> QED
      BY <2>3, <3>1, Zenon DEF Pending
  <2>5. CASE d \notin listed
    <3>1. ~Pending(n, d)
      BY <2>3 DEF Pending
    <3> QED
      BY <1>0, <2>2, <2>5, <3>1, Zenon DEF InStep
  <2> QED
    BY <2>4, <2>5, Zenon
<1>9. ASSUME NEW w \in Workers, Round(w) PROVE Goal
  <2>1. UNCHANGED <<listed, jobs, onSegs, lpc>>
    BY <1>9, Zenon DEF Round, launVars
  <2>2. PICK ns \in SUBSET Segs :
          \/ /\ RefreshCache(ns, wk[w].db)
             /\ stray' = IF wk[w].db \in Served THEN stray \ (ns \X {wk[w].db})
                         ELSE stray \cup (ns \X {wk[w].db})
          \/ UNCHANGED <<cached, stray>>
    BY <1>9, Zenon DEF Round
  <2>3. CASE UNCHANGED <<cached, stray>>
    BY <1>1, <2>1, <2>3, Zenon
  <2>4. CASE /\ RefreshCache(ns, wk[w].db)
             /\ stray' = IF wk[w].db \in Served THEN stray \ (ns \X {wk[w].db})
                         ELSE stray \cup (ns \X {wk[w].db})
    <3>1. cached'[n] = IF n \in ns THEN cached[n] \cup {wk[w].db} ELSE cached[n]
      BY <2>4, Zenon DEF RefreshCache
    <3>2. CASE n \in ns /\ d = wk[w].db /\ d \in Served
      <4>1. d \in listed
        BY <3>2, Zenon DEF Served, ListInv
      <4> QED
        BY <2>1, <3>1, <3>2, <4>1, Zenon DEF InStep
    <3>3. CASE n \in ns /\ d = wk[w].db /\ d \notin Served
      BY <2>4, <3>3, Zenon
    <3>4. CASE ~(n \in ns /\ d = wk[w].db)
      <4>1. <<n, d>> \in stray => <<n, d>> \in stray'
        BY <2>4, <3>4
      <4>2. d \in cached'[n] <=> d \in cached[n]
        BY <3>1, <3>4, Zenon
      <4> QED
        BY <1>1, <2>1, <4>1, <4>2, Zenon
    <3> QED
      BY <3>2, <3>3, <3>4, Zenon
  <2> QED
    BY <2>2, <2>3, <2>4, Zenon
<1>10. ASSUME NEW m \in Segs, Failover(m) PROVE Goal
  <2>1. /\ UNCHANGED <<listed, jobs, onSegs, lpc>> /\ stray' = stray \cup ({m} \X cached[m])
        /\ cached' = [cached EXCEPT ![m] = {}]
    BY <1>10, Zenon DEF Failover, launVars
  <2>2. cached = [k \in Nodes |-> cached[k]]
    BY Zenon DEF IndInv, Typed
  <2>3. CASE n = m /\ d \in cached[n]
    BY <2>1, <2>3, Zenon
  <2>4. CASE n # m \/ d \notin cached[n]
    <3>1. d \in cached'[n] <=> d \in cached[n]
      BY <2>1, <2>2, <2>4, Zenon
    <3> QED
      BY <1>1, <2>1, <3>1, Zenon
  <2> QED
    BY <2>3, <2>4, Zenon
<1>11. ASSUME NEW s \in Sessions, NEW e \in DBs, NEW cmd \in Toggles, ToggleSegs(s, e, cmd) PROVE Goal
  <2>1. UNCHANGED <<listed, jobs, onSegs, lpc, stray>>
    BY <1>11, Zenon DEF ToggleSegs, launVars
  <2>2. PICK ns \in SUBSET Segs : UpdateMonitorDb(ns, cmd, e)
    BY <1>11, Zenon DEF ToggleSegs
  <2>3. d \in cached'[n] <=> d \in cached[n]
    BY <2>2, UpdateEntries, Zenon
  <2> QED
    BY <1>1, <2>1, <2>3, Zenon
<1>12. ASSUME NEW s \in Sessions, ToggleCoord(s) PROVE Goal
  <2>1. UNCHANGED <<listed, jobs, onSegs, lpc, stray>>
    BY <1>12, Zenon DEF ToggleCoord, launVars
  <2>2. PICK c, e : c = ses[s].cmd /\ e = ses[s].db
    BY Zenon
  <2>3. UpdateMonitorDb({Coord}, c, e) /\ c \in Toggles
    BY <1>12, <2>2, Zenon DEF ToggleCoord, IndInv, Typed, IsSession
  <2>4. d \in cached'[n] <=> d \in cached[n]
    BY <2>3, UpdateEntries
  <2> QED
    BY <1>1, <2>1, <2>4, Zenon
<1>13. ASSUME \/ \E e \in DBs : SetReady(e) \/ WaitStart(e)
              \/ \E i \in Slots : StartWorker(i)
              \/ \E w \in Workers : \/ ReadyLoop(w) \/ CheckReady(w) \/ MarkRunning(w)
                                    \/ LoopTop(w) \/ IncreaseEpoch(w)
              \/ WaitPoll \/ WaitEnd \/ UNCHANGED vars
       PROVE  Goal
  <2>1. UNCHANGED <<listed, jobs, lpc, onSegs, cached, stray>>
    BY <1>13, Zenon DEF SetReady, WaitStart, StartWorker, ReadyLoop, CheckReady, MarkRunning, LoopTop,
       IncreaseEpoch, WaitPoll, WaitEnd, vars, launVars, cacheVars, history
  <2> QED
    BY <1>1, <2>1, Zenon
<1> QED
  BY <1>2, <1>3, <1>4, <1>5, <1>6, <1>7, <1>8, <1>9, <1>10, <1>11, <1>12, <1>13, Zenon
  DEF Next, WorkerStep

\* The coordinator's entries change and its strayed ones come back only as the
\* launcher updates one, as all of them are lost, and not for a listed database.
LEMMA EntryNext ==
    IndInv /\ SlotsInv /\ ListInv /\ JobsInv /\ CacheInv /\ EntryInv /\ [Next]_vars => EntryInv'
<1> SUFFICES ASSUME IndInv, SlotsInv, ListInv, JobsInv, CacheInv, EntryInv, [Next]_vars,
                    NEW w \in Workers, Alive(w)'
             PROVE  wk'[w].db \in cached'[Coord] \/ <<Coord, wk'[w].db>> \in stray'
  BY Zenon DEF EntryInv
<1> DEFINE Goal == wk'[w].db \in cached'[Coord] \/ <<Coord, wk'[w].db>> \in stray'
<1>0. Coord \notin Segs /\ Coord \in Nodes /\ cached = [n \in Nodes |-> cached[n]]
  BY MonitorAssumption, Zenon DEF IndInv, Typed, Nodes
<1>1. ASSUME Alive(w), wk'[w].db = wk[w].db,
             wk[w].db \in cached[Coord] => wk[w].db \in cached'[Coord],
             <<Coord, wk[w].db>> \in stray => <<Coord, wk[w].db>> \in stray'
      PROVE  Goal
  BY <1>1, Zenon DEF EntryInv
<1>2. ASSUME wk' = wk PROVE Alive(w) /\ wk'[w].db = wk[w].db
  BY <1>2, Zenon DEF Alive
<1>3. ASSUME NEW d \in DBs, Drop(d) PROVE Goal
  <2>1. Alive(w) /\ wk'[w].db = wk[w].db
    BY <1>3, DropMoves, Zenon DEF Alive
  <2>2. UNCHANGED <<cached, stray>>
    BY <1>3, Zenon DEF Drop, cacheVars
  <2> QED
    BY <1>1, <2>1, <2>2, Zenon
<1>4. ASSUME NEW i \in Slots, StartWorker(i) PROVE Goal
  <2>1. PICK v \in Workers :
          wk' = [wk EXCEPT ![v] = [pc |-> "ready", db |-> dbid[i], slot |-> i,
                                   term |-> FALSE, told |-> FALSE]]
    BY <1>4, Zenon DEF StartWorker
  <2>2. UNCHANGED <<cached, stray>> /\ lpc = "serve" /\ jobs = << >> /\ dbid[i] # NoDb
    BY <1>4, Zenon DEF StartWorker, MainLoop, cacheVars, history
  <2>3. wk'[v].db = dbid[i] /\ \A u \in Workers \ {v} : wk'[u] = wk[u]
    BY <2>1, Zenon DEF IndInv, Typed
  <2>4. CASE w = v
    <3>1. dbid[i] \in listed /\ dbid[i] \in DBs
      BY <2>2, Zenon DEF ListInv, SlotsInv
    <3>2. ~Pending(Coord, dbid[i]) /\ lpc # "down"
      BY <2>2 DEF Pending
    <3> QED
      BY <1>0, <2>2, <2>3, <2>4, <3>1, <3>2, Zenon DEF CacheInv, InStep
  <2>5. CASE w # v
    <3>1. Alive(w) /\ wk'[w].db = wk[w].db
      BY <2>3, <2>5, Zenon DEF Alive
    <3> QED
      BY <1>1, <2>2, <3>1, Zenon
  <2> QED
    BY <2>4, <2>5, Zenon
<1>5. CASE LauncherCoord
  <2>1. PICK c, e : c = Head(jobs).cmd /\ e = Head(jobs).db
    BY Zenon
  <2>2. /\ UpdateMonitorDb({Coord}, c, e) /\ stray' = stray \ {<<Coord, e>>}
        /\ onSegs /\ wk' = wk
    BY <1>5, <2>1, Zenon DEF LauncherCoord
  <2>3. jobs # << >>
    BY <2>2, Zenon DEF JobsInv
  <2>4. c \in Updates /\ (c = "ADD" <=> e \in listed)
    <3>1. 1 \in DOMAIN jobs /\ Head(jobs) = jobs[1] /\ jobs[1] \in Job
      BY <2>3, FirstJob, Zenon
    <3>2. jobs[1].cmd \in Updates
      BY <3>1 DEF Job
    <3> QED
      BY <2>1, <3>1, <3>2, Zenon DEF JobsInv
  <2>5. Alive(w) /\ wk'[w].db = wk[w].db
    BY <1>2, <2>2, Zenon
  <2>6. PICK d : d = wk[w].db
    BY Zenon
  <2>7. d \in listed
    <3>1. wk[w].slot \in Slots /\ dbid[wk[w].slot] = d /\ d \in DBs
      BY <2>5, <2>6, Zenon DEF SlotsInv, Alive
    <3> QED
      BY <3>1, MonitorAssumption, Zenon DEF ListInv
  <2>8. /\ d # e => (d \in cached'[Coord] <=> d \in cached[Coord])
        /\ e \in cached'[Coord] <=> c = "ADD"
    BY <1>0, <2>2, <2>4, UpdateEntries
  <2>9. CASE d = e
    BY <2>4, <2>5, <2>6, <2>7, <2>8, <2>9, Zenon
  <2>10. CASE d # e
    <3>1. <<Coord, d>> \in stray => <<Coord, d>> \in stray'
      BY <2>2, <2>10
    <3> QED
      BY <1>1, <2>5, <2>6, <2>8, <2>10, <3>1, Zenon
  <2> QED
    BY <2>9, <2>10, Zenon
<1>6. ASSUME NEW v \in Workers, CheckReadyCrash(v) PROVE Goal
  <2>1. wk'[w].pc = "none"
    BY <1>6, Zenon DEF CheckReadyCrash, PostmasterReset, NoProcess
  <2> QED
    BY <2>1, Zenon DEF Alive
<1>7. CASE LauncherSegs
  <2>1. PICK c, e : c = Head(jobs).cmd /\ e = Head(jobs).db
    BY Zenon
  <2>2. PICK ns \in SUBSET Segs :
          /\ UpdateMonitorDb(ns, c, e)
          /\ \/ stray' = stray \ (Segs \X {e})
             \/ stray' = stray \cup (Nodes \X {jobs[i].db : i \in DOMAIN jobs})
    BY <1>7, <2>1, Zenon DEF LauncherSegs
  <2>3. cached'[Coord] = cached[Coord]
    BY <1>0, <2>2, UpdateOnCoord, Zenon
  <2>4. wk' = wk
    BY <1>7, Zenon DEF LauncherSegs
  <2>5. \A d : <<Coord, d>> \in stray => <<Coord, d>> \in stray'
    BY <1>0, <2>2, Zenon
  <2> QED
    BY <1>1, <1>2, <2>3, <2>4, <2>5, Zenon
<1>8. ASSUME NEW v \in Workers,
             \/ ReadyLoop(v) \/ CheckReady(v) \/ MarkRunning(v)
             \/ LoopTop(v) \/ Round(v) \/ IncreaseEpoch(v)
      PROVE  Goal
  <2>1. Alive(w) /\ wk'[w].db = wk[w].db
    <3>1. /\ wk[v].pc # "none" /\ \A u \in Workers \ {v} : wk'[u] = wk[u]
          /\ SameProcess(v) \/ wk'[v].pc = "none"
      BY <1>8, WorkerMoves, Zenon
    <3> QED
      BY <3>1, Zenon DEF Alive, SameProcess
  <2>2. CASE Round(v)
    <3>1. cached'[Coord] = cached[Coord]
      BY <1>0, <2>2, Zenon DEF Round, RefreshCache
    <3>2. PICK ns \in SUBSET Segs : \/ stray' = stray \ (ns \X {wk[v].db})
                                    \/ stray' = stray \cup (ns \X {wk[v].db})
                                    \/ stray' = stray
      BY <2>2, Zenon DEF Round
    <3>3. \A d : <<Coord, d>> \in stray => <<Coord, d>> \in stray'
      BY <1>0, <3>2, Zenon
    <3> QED
      BY <1>1, <2>1, <3>1, <3>3, Zenon
  <2>3. CASE ~Round(v)
    <3>1. UNCHANGED <<cached, stray>>
      BY <1>8, <2>3, Zenon DEF ReadyLoop, CheckReady, MarkRunning, LoopTop, IncreaseEpoch, cacheVars, history
    <3> QED
      BY <1>1, <2>1, <3>1, Zenon
  <2> QED
    BY <2>2, <2>3, Zenon
<1>9. ASSUME NEW m \in Segs, Failover(m) PROVE Goal
  <2>1. /\ wk' = wk /\ stray' = stray \cup ({m} \X cached[m])
        /\ cached' = [cached EXCEPT ![m] = {}]
    BY <1>9, Zenon DEF Failover
  <2>2. cached'[Coord] = cached[Coord]
    BY <1>0, <2>1, Zenon
  <2> QED
    BY <1>1, <1>2, <2>1, <2>2, Zenon
<1>10. ASSUME NEW s \in Sessions, NEW e \in DBs, NEW cmd \in Toggles, ToggleSegs(s, e, cmd) PROVE Goal
  <2>1. UNCHANGED <<wk, stray>>
    BY <1>10, Zenon DEF ToggleSegs
  <2>2. PICK ns \in SUBSET Segs : UpdateMonitorDb(ns, cmd, e)
    BY <1>10, Zenon DEF ToggleSegs
  <2>3. cached'[Coord] = cached[Coord]
    BY <2>2, UpdateOnCoord, Zenon
  <2> QED
    BY <1>1, <1>2, <2>1, <2>3, Zenon
<1>11. ASSUME NEW s \in Sessions, ToggleCoord(s) PROVE Goal
  <2>1. UNCHANGED <<wk, stray>>
    BY <1>11, Zenon DEF ToggleCoord
  <2>2. PICK c, e : c = ses[s].cmd /\ e = ses[s].db
    BY Zenon
  <2>3. UpdateMonitorDb({Coord}, c, e) /\ c \in Toggles
    BY <1>11, <2>2, Zenon DEF ToggleCoord, IndInv, Typed, IsSession
  <2>4. cached'[Coord] = cached[Coord]
    BY <2>3, UpdateOnCoord
  <2> QED
    BY <1>1, <1>2, <2>1, <2>4, Zenon
<1>12. ASSUME \/ \E e \in DBs : Create(e) \/ SetReady(e) \/ WaitStart(e)
              \/ LauncherError \/ Restart \/ WaitPoll \/ WaitEnd \/ UNCHANGED vars
       PROVE  Goal
  <2>1. UNCHANGED <<wk, cached>> /\ (\A d : <<Coord, d>> \in stray => <<Coord, d>> \in stray')
    BY <1>12, Zenon DEF Create, SetReady, WaitStart, LauncherError, Restart, WaitPoll, WaitEnd,
       vars, cacheVars, history
  <2> QED
    BY <1>1, <1>2, <2>1, Zenon
<1> QED
  BY <1>3, <1>4, <1>5, <1>6, <1>7, <1>8, <1>9, <1>10, <1>11, <1>12, Zenon DEF Next, WorkerStep

\* The server starts with empty caches, no slot in use, and the launcher down.
LEMMA InitBooksInv == Init => BooksInv
<1> SUFFICES ASSUME Init PROVE BooksInv
  OBVIOUS
<1>1. JobsInv
  <2>1. << >> \in Seq(Job) /\ DOMAIN << >> = {}
    OBVIOUS
  <2> QED
    BY <2>1, Zenon DEF Init, JobsInv
<1>2. ListInv
  BY MonitorAssumption, Zenon DEF Init, ListInv
<1>3. CacheInv
  BY Zenon DEF Init, CacheInv, InStep
<1>4. EntryInv
  BY Zenon DEF Init, EntryInv, Alive, NoProcess
<1> QED
  BY <1>1, <1>2, <1>3, <1>4, Zenon DEF BooksInv

-----------------------------------------------------------------------------
\* The entries of the nodes are those of the databases with a slot, and a worker
\* that is about to write to its entry has one, as long as no database gets a
\* second slot.
THEOREM EntriesFollowSlots ==
    Spec /\ []UniqueSlots => [](MonitoredIffServed /\ LiveWorkerHasEntry)
<1> DEFINE Inv == IndInv /\ SlotsInv /\ BooksInv
<1>1. Init => Inv
  BY InitIndInv, InitSlotsInv, InitBooksInv, Zenon
<1>2. Inv /\ UniqueSlots /\ UniqueSlots' /\ [Next]_vars => Inv'
  <2> SUFFICES ASSUME Inv, UniqueSlots, UniqueSlots', [Next]_vars PROVE Inv'
    OBVIOUS
  <2>1. IndInv' /\ SlotsInv'
    BY Step, SlotsNext, Zenon
  <2>2. ListInv'
    BY ListNext, Zenon DEF BooksInv
  <2>3. JobsInv' /\ CacheInv' /\ EntryInv'
    BY <2>2, JobsNext, CacheNext, EntryNext, Zenon DEF BooksInv
  <2> QED
    BY <2>1, <2>2, <2>3, Zenon DEF BooksInv
<1>3. Inv => MonitoredIffServed
  <2> SUFFICES ASSUME Inv, lpc = "serve", jobs = << >>, NEW n \in Nodes, NEW d \in DBs,
                      <<n, d>> \notin stray
               PROVE  d \in cached[n] <=> d \in Served
    BY Zenon DEF MonitoredIffServed
  <2>1. ~Pending(n, d) /\ lpc # "down"
    BY DEF Pending
  <2>2. d \in cached[n] <=> d \in listed
    BY <2>1, Zenon DEF BooksInv, CacheInv, InStep
  <2>3. d # NoDb
    BY MonitorAssumption, Zenon
  <2>4. d \in listed <=> d \in Served
    BY <2>1, <2>3, Zenon DEF BooksInv, ListInv, Served
  <2> QED
    BY <2>2, <2>4, Zenon
<1>4. Inv => LiveWorkerHasEntry
  <2> SUFFICES ASSUME Inv, NEW w \in Workers, wk[w].pc = "check", ~wk[w].term
               PROVE  wk[w].db \in cached[Coord] \/ <<Coord, wk[w].db>> \in stray
    BY Zenon DEF LiveWorkerHasEntry
  <2>1. Alive(w)
    BY DEF Alive
  <2> QED
    BY <2>1, Zenon DEF BooksInv, EntryInv
<1> QED
  BY <1>1, <1>2, <1>3, <1>4, PTL DEF Spec

(***************************************************************************)
(* Without faults the launcher ends only with all of the coordinator, when *)
(* dbArray is empty, and never finds a database in a slot behind a gap.    *)
(***************************************************************************)
FaultFree ==
    /\ faults = 0 /\ open = FALSE
    /\ lpc = "down" => \A i \in Slots : dbid[i] = NoDb

\* No step that is not a fault leaves it.
LEMMA FaultFreeNext ==
    ASSUME MaxFaults = 0, IndInv, FaultFree, [Next]_vars
    PROVE  FaultFree'
<1>1. ~(faults < MaxFaults)
  BY DEF FaultFree
<1>2. faults = 0 /\ open = FALSE
  BY Zenon DEF FaultFree
<1>3. ASSUME UNCHANGED <<faults, open>>, lpc # "down", lpc' # "down" PROVE FaultFree'
  BY <1>3, Zenon DEF FaultFree
<1>4. ASSUME UNCHANGED <<faults, open, lpc, dbid>> PROVE FaultFree'
  BY <1>4, Zenon DEF FaultFree
<1>5. ASSUME NEW d \in DBs, Create(d) \/ Drop(d) PROVE FaultFree'
  <2>1. UNCHANGED <<faults, open>> /\ lpc = "serve" /\ lpc' = "serve"
    BY <1>5, Zenon DEF Create, Drop
  <2>2. lpc # "down" /\ lpc' # "down"
    BY <2>1
  <2> QED
    BY <1>3, <2>1, <2>2, Zenon
<1>6. CASE LauncherSegs
  <2>1. UNCHANGED <<faults, open, lpc, dbid>>
    BY <1>1, <1>6, Zenon DEF LauncherSegs, slotVars
  <2> QED
    BY <1>4, <2>1, Zenon
<1>7. CASE LauncherCoord
  <2>1. /\ UNCHANGED <<faults, open>> /\ lpc # "down"
        /\ lpc' = IF jobs' = << >> THEN "serve" ELSE lpc
    BY <1>7, Zenon DEF LauncherCoord, bounds
  <2>2. lpc' # "down"
    BY <2>1
  <2> QED
    BY <1>3, <2>1, <2>2, Zenon
<1>8. CASE LauncherError
  BY <1>1, <1>2, <1>8, Zenon DEF LauncherError
<1>9. CASE Restart
  <2>1. UNCHANGED <<faults, open>> /\ lpc' = IF jobs' = << >> THEN "serve" ELSE "boot"
    BY <1>9, Zenon DEF Restart, bounds
  <2>2. lpc' # "down"
    BY <2>1
  <2> QED
    BY <1>2, <2>1, <2>2, Zenon DEF FaultFree
<1>10. ASSUME NEW w \in Workers, CheckReadyCrash(w) PROVE FaultFree'
  <2>1. dbid' = [i \in Slots |-> NoDb] /\ open' = FALSE /\ faults' = faults
    BY <1>10, Zenon DEF CheckReadyCrash, PostmasterReset, bounds
  <2> QED
    BY <1>2, <2>1, Zenon DEF FaultFree
<1>11. ASSUME NEW w \in Workers, Round(w) PROVE FaultFree'
  <2>1. UNCHANGED <<faults, open, lpc, dbid>>
    BY <1>1, <1>11, Zenon DEF Round, launVars
  <2> QED
    BY <1>4, <2>1, Zenon
<1>12. ASSUME NEW s \in Sessions, NEW d \in DBs, NEW cmd \in Toggles, ToggleSegs(s, d, cmd)
       PROVE  FaultFree'
  <2>1. UNCHANGED <<faults, open, lpc, dbid>>
    BY <1>1, <1>12, Zenon DEF ToggleSegs, launVars, slotVars
  <2> QED
    BY <1>4, <2>1, Zenon
<1>13. ASSUME NEW n \in Segs, Failover(n) PROVE FaultFree'
  BY <1>1, <1>13, Zenon DEF Failover
<1>14. ASSUME \/ \E d \in DBs : SetReady(d) \/ WaitStart(d)
              \/ \E i \in Slots : StartWorker(i)
              \/ \E w \in Workers : \/ ReadyLoop(w) \/ CheckReady(w) \/ MarkRunning(w)
                                    \/ LoopTop(w) \/ IncreaseEpoch(w)
              \/ \E s \in Sessions : ToggleCoord(s)
              \/ WaitPoll \/ WaitEnd \/ UNCHANGED vars
       PROVE  FaultFree'
  <2>1. UNCHANGED <<faults, open, lpc, dbid>>
    BY <1>14, Zenon DEF SetReady, WaitStart, StartWorker, ReadyLoop, CheckReady, MarkRunning,
       LoopTop, IncreaseEpoch, ToggleCoord, WaitPoll, WaitEnd, vars, launVars, slotVars, bounds
  <2> QED
    BY <1>4, <2>1, Zenon
<1> QED
  BY <1>5, <1>6, <1>7, <1>8, <1>9, <1>10, <1>11, <1>12, <1>13, <1>14, Zenon DEF Next, WorkerStep

\* Nor does a database get a second slot.
LEMMA UniqueNext ==
    ASSUME IndInv, SlotsInv, ListInv, UniqueSlots, [Next]_vars,
           lpc = "down" => \A i \in Slots : dbid[i] = NoDb
    PROVE  UniqueSlots'
<1>1. ASSUME dbid' = dbid PROVE UniqueSlots'
  BY <1>1, Zenon DEF UniqueSlots
<1>2. ASSUME NEW d \in DBs, Create(d) PROVE UniqueSlots'
  <2>1. d \notin listed /\ d # NoDb
    BY <1>2, MonitorAssumption, Zenon DEF Create
  <2>2. /\ \A i \in Slots : dbid'[i] = dbid[i] \/ dbid'[i] = d
        /\ \A i, j \in Slots : dbid'[i] # dbid[i] /\ dbid'[j] # dbid[j] => i = j
    BY <1>2, CreateAdds, Zenon
  <2>3. \A i \in Slots : dbid[i] # d
    BY <2>1, Zenon DEF ListInv
  <2> QED
    BY <2>2, <2>3, Zenon DEF UniqueSlots
<1>3. ASSUME NEW d \in DBs, Drop(d) PROVE UniqueSlots'
  <2>1. \A i \in Slots : dbid'[i] = IF dbid[i] = d THEN NoDb ELSE dbid[i]
    BY <1>3, DropFrees, Zenon
  <2> QED
    BY <2>1, Zenon DEF UniqueSlots
<1>4. CASE Restart
  <2>1. \A i \in Slots : dbid[i] = NoDb
    BY <1>4, Zenon DEF Restart
  <2> QED
    BY <1>4, <2>1, RestartAdds, Zenon
<1>5. ASSUME NEW w \in Workers, CheckReadyCrash(w) PROVE UniqueSlots'
  BY <1>5, Zenon DEF CheckReadyCrash, PostmasterReset, UniqueSlots
<1>6. ASSUME \/ \E d \in DBs : SetReady(d) \/ WaitStart(d)
             \/ LauncherSegs \/ LauncherCoord \/ LauncherError
             \/ \E i \in Slots : StartWorker(i)
             \/ \E w \in Workers : \/ ReadyLoop(w) \/ CheckReady(w) \/ MarkRunning(w)
                                   \/ LoopTop(w) \/ Round(w) \/ IncreaseEpoch(w)
             \/ WaitPoll \/ WaitEnd
             \/ \E s \in Sessions : \/ ToggleCoord(s)
                                    \/ \E d \in DBs, cmd \in Toggles : ToggleSegs(s, d, cmd)
             \/ \E n \in Segs : Failover(n)
             \/ UNCHANGED vars
      PROVE  dbid' = dbid
  BY <1>6, Zenon DEF SetReady, WaitStart, LauncherSegs, LauncherCoord, LauncherError, StartWorker,
     ReadyLoop, CheckReady, MarkRunning, LoopTop, Round, IncreaseEpoch, WaitPoll, WaitEnd,
     ToggleCoord, ToggleSegs, Failover, vars, slotVars
<1> QED
  BY <1>1, <1>2, <1>3, <1>4, <1>5, <1>6, Zenon DEF Next, WorkerStep

\* Without failed SQL, lost segments and ends of the launcher by itself, no
\* database gets a second slot.
THEOREM FaultFreeSlotsAreUnique ==
    ASSUME MaxFaults = 0
    PROVE  Spec => []UniqueSlots
<1> DEFINE Inv == IndInv /\ SlotsInv /\ ListInv /\ UniqueSlots /\ FaultFree
<1>1. Init => Inv
  <2> SUFFICES ASSUME Init PROVE Inv
    OBVIOUS
  <2>1. IndInv /\ SlotsInv /\ ListInv
    BY InitIndInv, InitSlotsInv, InitBooksInv, Zenon DEF BooksInv
  <2>2. UniqueSlots /\ FaultFree
    BY Zenon DEF Init, UniqueSlots, FaultFree
  <2> QED
    BY <2>1, <2>2, Zenon
<1>2. Inv /\ [Next]_vars => Inv'
  <2> SUFFICES ASSUME Inv, [Next]_vars PROVE Inv'
    OBVIOUS
  <2>1. IndInv' /\ SlotsInv'
    BY Step, SlotsNext, Zenon
  <2>2. UniqueSlots'
    BY UniqueNext, Zenon DEF FaultFree
  <2>3. ListInv'
    BY <2>2, ListNext, Zenon
  <2>4. FaultFree'
    BY FaultFreeNext, Zenon
  <2> QED
    BY <2>1, <2>2, <2>3, <2>4, Zenon
<1> QED
  BY <1>1, <1>2, PTL DEF Spec

\* So what the runs check of waits and entries holds there without a condition.
THEOREM FaultFreeServer ==
    ASSUME MaxFaults = 0
    PROVE  Spec => [](WaitSeesFullRound /\ MonitoredIffServed /\ LiveWorkerHasEntry)
<1>1. Spec => []UniqueSlots
  BY FaultFreeSlotsAreUnique
<1>2. Spec /\ []UniqueSlots => []WaitSeesFullRound
  BY NewEpochMeansFullRound
<1>3. Spec /\ []UniqueSlots => [](MonitoredIffServed /\ LiveWorkerHasEntry)
  BY EntriesFollowSlots
<1> QED
  BY <1>1, <1>2, <1>3, PTL
=============================================================================
