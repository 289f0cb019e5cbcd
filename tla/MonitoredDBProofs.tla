------------------------- MODULE MonitoredDBProofs -------------------------
(***************************************************************************)
(* Proofs, for any databases, nodes, workers, sessions and bounds, that a  *)
(* pause holds, that no worker starts a round of a paused database and     *)
(* that a wait for a new epoch sees a full round, the last as long as no   *)
(* database gets a second slot.  What add_db_entry, release_db_entry and   *)
(* the workers do to the slots is also used by MonitoredEntryProofs.       *)
(***************************************************************************)
EXTENDS MonitoredDB, FiniteSetTheorems, WellFoundedInduction, TLAPS

(***************************************************************************)
(* PauseHolds is not inductive: a pause is done on the segments before it  *)
(* is done on the coordinator, and counts as held only then.  The          *)
(* strengthening says that, in between, the segments it found an entry on  *)
(* are paused, as long as nobody else has touched the database (Underway). *)
(* A node is paused for a database only if it has an entry for it, which   *)
(* is what makes diskquota_is_paused see the pause (Entries).              *)
(***************************************************************************)

IsProcess(p) == p = [pc |-> p.pc, db |-> p.db, slot |-> p.slot,
                     term |-> p.term, told |-> p.told]

IsSession(s) ==
    /\ s = [pc |-> s.pc, db |-> s.db, cmd |-> s.cmd, hit |-> s.hit,
            alone |-> s.alone]
    /\ s.hit \subseteq Segs
    /\ s.pc = "coord" => s.db \in DBs /\ s.cmd \in Toggles

Typed ==
    /\ cached = [n \in Nodes |-> cached[n]]
    /\ paused = [n \in Nodes |-> paused[n]]
    /\ wk = [w \in Workers |-> wk[w]] /\ \A w \in Workers : IsProcess(wk[w])
    /\ ses = [s \in Sessions |-> ses[s]] /\ \A s \in Sessions : IsSession(ses[s])
    /\ held \subseteq Nodes \X DBs

Entries == \A n \in Nodes : paused[n] \subseteq cached[n]

Underway ==
    \A s \in Sessions :
        ses[s].pc = "coord" /\ ses[s].cmd = "PAUSE" /\ ses[s].alone =>
            \A n \in ses[s].hit : ses[s].db \in paused[n]

IndInv == Typed /\ Entries /\ Underway /\ PauseHolds

\* the call that session s is in stays the same, but for the history flag
SameCall(s) ==
    ses'[s] = [pc |-> ses[s].pc, db |-> ses[s].db, cmd |-> ses[s].cmd,
               hit |-> ses[s].hit, alone |-> ses'[s].alone]

\* What assigning to fields of a process gives.
LEMMA ProcessFields ==
    ASSUME NEW p, IsProcess(p), NEW x, NEW y
    PROVE  /\ [p EXCEPT !.term = x]
                = [pc |-> p.pc, db |-> p.db, slot |-> p.slot, term |-> x, told |-> p.told]
           /\ [p EXCEPT !.pc = x]
                = [pc |-> x, db |-> p.db, slot |-> p.slot, term |-> p.term, told |-> p.told]
           /\ [p EXCEPT !.pc = x, !.told = y]
                = [pc |-> x, db |-> p.db, slot |-> p.slot, term |-> p.term, told |-> y]
<1> DEFINE F == {"pc", "db", "slot", "term", "told"}
<1>1. DOMAIN p = F /\ p = [f \in F |-> p[f]]
  BY Zenon DEF IsProcess
<1>2. [p EXCEPT !.term = x]
        = [pc |-> p.pc, db |-> p.db, slot |-> p.slot, term |-> x, told |-> p.told]
  BY <1>1
<1>3. [p EXCEPT !.pc = x]
        = [pc |-> x, db |-> p.db, slot |-> p.slot, term |-> p.term, told |-> p.told]
  BY <1>1
<1>4. [p EXCEPT !.pc = x, !.told = y]
        = [pc |-> x, db |-> p.db, slot |-> p.slot, term |-> p.term, told |-> y]
  <2> DEFINE q == [p EXCEPT !.pc = x]
  <2>1. [p EXCEPT !.pc = x, !.told = y] = [q EXCEPT !.told = y]
    BY Zenon
  <2>2. [q EXCEPT !.told = y]
          = [pc |-> x, db |-> p.db, slot |-> p.slot, term |-> p.term, told |-> y]
    <3> HIDE DEF q
    <3>1. q = [pc |-> x, db |-> p.db, slot |-> p.slot, term |-> p.term, told |-> p.told]
      BY <1>3, Zenon DEF q
    <3> QED
      BY <3>1
  <2> QED
    BY <2>1, <2>2, Zenon
<1> QED
  BY <1>2, <1>3, <1>4, Zenon

\* The server starts with empty caches and no session in a call.
LEMMA InitIndInv == Init => IndInv
<1> SUFFICES ASSUME Init PROVE IndInv
  BY Zenon
<1>1. \A w \in Workers : wk[w] = NoProcess /\ IsProcess(wk[w])
  BY Zenon DEF Init, IsProcess, NoProcess
<1>2. \A s \in Sessions : ses[s] = IdleSession /\ IsSession(ses[s])
  BY Zenon DEF Init, IsSession, IdleSession
<1>3. Typed
  BY <1>1, <1>2, Zenon DEF Init, Typed
<1>4. Entries /\ PauseHolds
  BY Zenon DEF Init, Entries, PauseHolds
<1>5. Underway
  BY <1>2 DEF Underway, IdleSession
<1> QED
  BY <1>3, <1>4, <1>5, Zenon DEF IndInv

\* Whatever update_monitor_db does, no entry is paused that is not there, and
\* only the entries of its database change, on the nodes it is run on.
LEMMA UpdateKeepsEntries ==
    ASSUME IndInv, NEW ns, NEW cmd, NEW d, UpdateMonitorDb(ns, cmd, d)
    PROVE  /\ cached' = [n \in Nodes |-> cached'[n]]
           /\ paused' = [n \in Nodes |-> paused'[n]]
           /\ Entries'
           /\ \A n \in Nodes : \A e :
                n \notin ns \/ e # d => (e \in paused'[n] <=> e \in paused[n])
<1>1. \A n \in Nodes : /\ cached'[n] = IF n \in ns THEN InCache(cmd, cached[n], d)
                                       ELSE cached[n]
                       /\ paused'[n] = IF n \in ns
                                       THEN InPaused(cmd, cached[n], paused[n], d)
                                       ELSE paused[n]
  BY Zenon DEF UpdateMonitorDb
<1>2. \A n \in Nodes : paused[n] \subseteq cached[n]
  BY Zenon DEF IndInv, Entries
<1>3. \A n \in Nodes : InPaused(cmd, cached[n], paused[n], d)
                         \subseteq InCache(cmd, cached[n], d)
  BY <1>2, Zenon DEF InPaused, InCache
<1>4. Entries'
  BY <1>1, <1>2, <1>3, Zenon DEF Entries, Nodes
<1>5. \A n \in Nodes : \A e :
        n \notin ns \/ e # d => (e \in paused'[n] <=> e \in paused[n])
  BY <1>1, Zenon DEF InPaused
<1> QED
  BY <1>4, <1>5, Zenon DEF UpdateMonitorDb

\* An update by the launcher (update_monitor_db_mpp) keeps the invariant: the
\* pauses of the database on those nodes are no longer held.
LEMMA LauncherUpdate ==
    ASSUME IndInv, NEW ns, NEW cmd, NEW d, UpdateMonitorDb(ns, cmd, d),
           Disturb(ns, d), wk' = wk
    PROVE  IndInv'
<1>1. /\ cached' = [n \in Nodes |-> cached'[n]]
      /\ paused' = [n \in Nodes |-> paused'[n]]
      /\ Entries'
      /\ \A n \in Nodes : \A e :
           n \notin ns \/ e # d => (e \in paused'[n] <=> e \in paused[n])
  BY UpdateKeepsEntries, Zenon
<1>2. /\ ses' = [s \in Sessions |-> ses'[s]]
      /\ \A s \in Sessions : SameCall(s) /\ (ses'[s].alone => ses[s].alone /\ ses[s].db # d)
  <2>1. \A s \in Sessions : ses'[s] = IF ses[s].db = d
                                     THEN [ses[s] EXCEPT !.alone = FALSE]
                                     ELSE ses[s]
    BY Zenon DEF Disturb
  <2>2. ASSUME NEW s \in Sessions
        PROVE  SameCall(s) /\ (ses'[s].alone => ses[s].alone /\ ses[s].db # d)
    <3>1. ses[s] = [pc |-> ses[s].pc, db |-> ses[s].db, cmd |-> ses[s].cmd,
                    hit |-> ses[s].hit, alone |-> ses[s].alone]
      BY Zenon DEF IndInv, Typed, IsSession
    <3>2. CASE ses[s].db = d
      <4>1. ses'[s] = [pc |-> ses[s].pc, db |-> ses[s].db, cmd |-> ses[s].cmd,
                       hit |-> ses[s].hit, alone |-> FALSE]
        BY <2>1, <3>1, <3>2, Zenon
      <4> QED
        BY <4>1 DEF SameCall
    <3>3. CASE ses[s].db # d
      BY <2>1, <3>1, <3>3, Zenon DEF SameCall
    <3> QED
      BY <3>2, <3>3, Zenon
  <2> QED
    BY <2>2, Zenon DEF Disturb
<1>3. held' \subseteq held /\ \A n \in ns : <<n, d>> \notin held'
  BY Zenon DEF Disturb
<1>4. Typed'
  <2>1. \A s \in Sessions : IsSession(ses[s])'
    BY <1>2 DEF IndInv, Typed, IsSession, SameCall
  <2> QED
    BY <1>1, <1>2, <1>3, <2>1, Zenon DEF IndInv, Typed, IsProcess
<1>5. Underway'
  BY <1>1, <1>2, ZenonT(40) DEF IndInv, Typed, IsSession, SameCall, Underway, Nodes
<1>6. PauseHolds'
  <2> SUFFICES ASSUME NEW h \in held' PROVE h[2] \in paused'[h[1]]
    BY Zenon DEF PauseHolds
  <2>1. h \in held /\ h \in Nodes \X DBs /\ h[2] \in paused[h[1]]
    BY <1>3, Zenon DEF IndInv, Typed, PauseHolds
  <2>2. h[1] \notin ns \/ h[2] # d
    BY <1>3, <2>1
  <2> QED
    BY <1>1, <2>1, <2>2, Zenon
<1> QED
  BY <1>1, <1>4, <1>5, <1>6, Zenon DEF IndInv

\* The first half of diskquota_pause or diskquota_resume keeps the invariant:
\* where a pause found an entry, the entry is paused.
LEMMA ToggleSegsStep ==
    ASSUME IndInv, NEW s \in Sessions, NEW d \in DBs, NEW cmd \in Toggles,
           ToggleSegs(s, d, cmd)
    PROVE  IndInv'
<1>1. PICK ns \in SUBSET Segs :
        /\ UpdateMonitorDb(ns, cmd, d)
        /\ \A t \in Sessions : ses'[t] =
             IF t \in {u \in Sessions \ {s} : ses[u].db = d}
             THEN [ses[t] EXCEPT !.alone = FALSE]
             ELSE IF t = s /\ ns = Segs
             THEN [pc |-> "coord", db |-> d, cmd |-> cmd,
                   hit |-> {n \in Segs : d \in cached[n]},
                   alone |-> {u \in Sessions \ {s} : ses[u].db = d} = {}]
             ELSE ses[t]
        /\ ses' = [t \in Sessions |-> ses'[t]]
        /\ held' = IF cmd = "RESUME" THEN held \ (Nodes \X {d}) ELSE held
  BY Zenon DEF ToggleSegs
<1>2. /\ cached' = [n \in Nodes |-> cached'[n]]
      /\ paused' = [n \in Nodes |-> paused'[n]]
      /\ Entries'
      /\ \A n \in Nodes : \A e :
           n \notin ns \/ e # d => (e \in paused'[n] <=> e \in paused[n])
  BY <1>1, UpdateKeepsEntries
<1>3. /\ wk' = wk
      /\ ses[s].pc = "idle"
  BY Zenon DEF ToggleSegs
<1>4. cmd = "PAUSE" => \A n \in Nodes : /\ paused[n] \subseteq paused'[n]
                                        /\ n \in ns /\ d \in cached[n] => d \in paused'[n]
  BY <1>1, Zenon DEF UpdateMonitorDb, InPaused
<1>5. ASSUME NEW t \in Sessions
      PROVE  /\ IsSession(ses[t])'
             /\ (/\ ses[t].pc = "coord" /\ ses[t].cmd = "PAUSE" /\ ses[t].alone
                 => \A n \in ses[t].hit : ses[t].db \in paused[n])'
  <2>1. /\ ses[t] = [pc |-> ses[t].pc, db |-> ses[t].db, cmd |-> ses[t].cmd,
                     hit |-> ses[t].hit, alone |-> ses[t].alone]
        /\ ses[t].hit \subseteq Segs
        /\ ses[t].pc = "coord" => ses[t].db \in DBs /\ ses[t].cmd \in Toggles
    BY Zenon DEF IndInv, Typed, IsSession
  <2>2. CASE t # s /\ ses[t].db = d
    <3>1. ses'[t] = [pc |-> ses[t].pc, db |-> ses[t].db, cmd |-> ses[t].cmd,
                     hit |-> ses[t].hit, alone |-> FALSE]
      BY <1>1, <2>1, <2>2, Zenon
    <3> QED
      BY <2>1, <3>1 DEF IsSession
  <2>3. CASE t = s /\ ns = Segs
    <3>1. /\ ses'[t].pc = "coord" /\ ses'[t].db = d /\ ses'[t].cmd = cmd
          /\ ses'[t].hit = {n \in Segs : d \in cached[n]}
      BY <1>1, <2>3
    <3>2. IsSession(ses[t])'
      BY <1>1, <2>3 DEF IsSession
    <3> QED
      BY <1>4, <2>3, <3>1, <3>2, Zenon DEF Nodes
  <2>4. CASE t = s /\ ns # Segs
    BY <1>1, <1>3, <2>1, <2>4, Zenon DEF IsSession
  <2>5. CASE t # s /\ ses[t].db # d
    <3>1. ses'[t] = ses[t]
      BY <1>1, <2>5, Zenon
    <3> QED
      BY <1>2, <2>1, <2>5, <3>1, Zenon DEF IsSession, IndInv, Underway, Nodes
  <2> QED
    BY <2>2, <2>3, <2>4, <2>5, Zenon
<1>6. Typed'
  BY <1>1, <1>2, <1>3, <1>5, Zenon DEF IndInv, Typed, IsProcess
<1>7. Underway'
  BY <1>5, Zenon DEF Underway
<1>8. PauseHolds'
  <2> SUFFICES ASSUME NEW h \in held' PROVE h[2] \in paused'[h[1]]
    BY Zenon DEF PauseHolds
  <2>1. h \in held /\ h \in Nodes \X DBs /\ h[2] \in paused[h[1]]
    BY <1>1, Zenon DEF IndInv, Typed, PauseHolds
  <2>2. CASE cmd = "PAUSE"
    BY <1>4, <2>1, <2>2, Zenon
  <2>3. CASE cmd = "RESUME"
    <3>1. h[2] # d
      BY <1>1, <2>1, <2>3, Zenon
    <3> QED
      BY <1>2, <2>1, <3>1, Zenon
  <2> QED
    BY <2>2, <2>3, Zenon DEF Toggles
<1> QED
  BY <1>2, <1>6, <1>7, <1>8, Zenon DEF IndInv

\* The second half of diskquota_pause or diskquota_resume keeps the invariant:
\* what a pause adds to the held entries is paused.
LEMMA ToggleCoordStep ==
    ASSUME IndInv, NEW s \in Sessions, ToggleCoord(s)
    PROVE  IndInv'
<1> DEFINE d == ses[s].db
<1>1. /\ ses[s].pc = "coord" /\ d \in DBs /\ ses[s].cmd \in Toggles
      /\ ses[s].hit \subseteq Segs
      /\ UpdateMonitorDb({Coord}, ses[s].cmd, d)
      /\ wk' = wk
      /\ ses' = [ses EXCEPT ![s] = IdleSession]
  BY Zenon DEF ToggleCoord, IndInv, Typed, IsSession
<1>2. /\ cached' = [n \in Nodes |-> cached'[n]]
      /\ paused' = [n \in Nodes |-> paused'[n]]
      /\ Entries'
      /\ \A n \in Nodes : \A e :
           n \notin {Coord} \/ e # d => (e \in paused'[n] <=> e \in paused[n])
  BY <1>1, UpdateKeepsEntries
<1>3. held' = IF ses[s].cmd = "PAUSE" /\ ses[s].alone
              THEN held \cup ((ses[s].hit \cup
                                 {n \in {Coord} : d \in cached[n]}) \X {d})
              ELSE IF ses[s].cmd = "PAUSE" THEN held
              ELSE held \ (Nodes \X {d})
  BY Zenon DEF ToggleCoord
<1>4. /\ ses' = [t \in Sessions |-> ses'[t]]
      /\ \A t \in Sessions : ses'[t] = IF t = s THEN IdleSession ELSE ses[t]
  BY <1>1, Zenon DEF IndInv, Typed
<1>5. Typed'
  <2>1. \A t \in Sessions : IsSession(ses[t])'
    BY <1>4 DEF IndInv, Typed, IsSession, IdleSession
  <2>2. held' \subseteq Nodes \X DBs
    BY <1>1, <1>3, Zenon DEF IndInv, Typed, Nodes
  <2> QED
    BY <1>1, <1>2, <1>4, <2>1, <2>2, Zenon DEF IndInv, Typed, IsProcess
<1>6. Underway'
  <2> SUFFICES ASSUME NEW t \in Sessions, ses'[t].pc = "coord",
                      ses'[t].cmd = "PAUSE", ses'[t].alone,
                      NEW n \in ses'[t].hit
               PROVE  ses'[t].db \in paused'[n]
    BY Zenon DEF Underway
  <2>1. t # s /\ ses'[t] = ses[t]
    BY <1>4 DEF IdleSession
  <2>2. n \in Nodes /\ n # Coord
    BY <2>1, MonitorAssumption, Zenon DEF IndInv, Typed, IsSession, Nodes
  <2>3. ses[t].db \in paused[n]
    BY <2>1, Zenon DEF IndInv, Underway
  <2> QED
    BY <1>2, <2>1, <2>2, <2>3, Zenon
<1>7. PauseHolds'
  <2> SUFFICES ASSUME NEW h \in held' PROVE h[2] \in paused'[h[1]]
    BY Zenon DEF PauseHolds
  <2>1. ASSUME h \in held PROVE h \in Nodes \X DBs /\ h[2] \in paused[h[1]]
    BY <2>1, Zenon DEF IndInv, Typed, PauseHolds
  <2>2. CASE ses[s].cmd = "PAUSE"
    <3>1. \A n \in Nodes : /\ paused[n] \subseteq paused'[n]
                           /\ n = Coord /\ d \in cached[n] => d \in paused'[n]
      BY <1>1, <2>2, Zenon DEF UpdateMonitorDb, InPaused
    <3>2. CASE h \in held
      BY <2>1, <3>1, <3>2, Zenon
    <3>3. CASE h \notin held
      <4>1. /\ ses[s].alone
            /\ h[2] = d
            /\ h[1] \in ses[s].hit \/ (h[1] = Coord /\ d \in cached[Coord])
        BY <1>3, <2>2, <3>3, Zenon
      <4>2. ASSUME h[1] \in ses[s].hit PROVE d \in paused[h[1]] /\ h[1] \in Nodes
        BY <1>1, <2>2, <4>1, <4>2, Zenon DEF IndInv, Underway, Nodes
      <4> QED
        BY <3>1, <4>1, <4>2, Zenon DEF Nodes
    <3> QED
      BY <3>2, <3>3, Zenon
  <2>3. CASE ses[s].cmd = "RESUME"
    <3>1. h \in held /\ h \notin Nodes \X {d}
      BY <1>3, <2>3, Zenon
    <3>2. h[2] # d
      BY <2>1, <3>1, Zenon
    <3> QED
      BY <1>2, <2>1, <3>1, <3>2, Zenon
  <2> QED
    BY <1>1, <2>2, <2>3, Zenon DEF Toggles
<1> QED
  BY <1>2, <1>5, <1>6, <1>7, Zenon DEF IndInv

\* What it means that a node's part of a cache is emptied.
LEMMA Emptied ==
    ASSUME NEW f, NEW g, NEW n \in Nodes,
           f = [m \in Nodes |-> f[m]], g = [f EXCEPT ![n] = {}]
    PROVE  /\ g = [m \in Nodes |-> g[m]]
           /\ \A m \in Nodes : g[m] = IF m = n THEN {} ELSE f[m]
<1>1. DOMAIN f = Nodes
  BY Zenon
<1>2. g = [m \in Nodes |-> IF m = n THEN {} ELSE f[m]]
  BY <1>1, Zenon
<1> QED
  BY <1>2, Zenon

\* A segment that fails over takes its held entries with it, and the calls
\* under way no longer count on it.
LEMMA FailoverStep ==
    ASSUME IndInv, NEW n \in Segs, Failover(n)
    PROVE  IndInv'
<1>1. /\ cached' = [cached EXCEPT ![n] = {}]
      /\ paused' = [paused EXCEPT ![n] = {}]
      /\ held' = {h \in held : h[1] # n}
      /\ ses' = [s \in Sessions |-> [ses[s] EXCEPT !.hit = @ \ {n}]]
      /\ wk' = wk
  BY Zenon DEF Failover
<1>2. /\ paused' = [m \in Nodes |-> paused'[m]]
      /\ cached' = [m \in Nodes |-> cached'[m]]
      /\ \A m \in Nodes : /\ paused'[m] = IF m = n THEN {} ELSE paused[m]
                          /\ cached'[m] = IF m = n THEN {} ELSE cached[m]
  <2>1. n \in Nodes
    BY Zenon DEF Nodes
  <2>2. paused = [m \in Nodes |-> paused[m]] /\ cached = [m \in Nodes |-> cached[m]]
    BY Zenon DEF IndInv, Typed
  <2>3. /\ paused' = [m \in Nodes |-> paused'[m]]
        /\ \A m \in Nodes : paused'[m] = IF m = n THEN {} ELSE paused[m]
    BY <1>1, <2>1, <2>2, Emptied, Zenon
  <2>4. /\ cached' = [m \in Nodes |-> cached'[m]]
        /\ \A m \in Nodes : cached'[m] = IF m = n THEN {} ELSE cached[m]
    BY <1>1, <2>1, <2>2, Emptied, Zenon
  <2> QED
    BY <2>3, <2>4, Zenon
<1>3. ASSUME NEW s \in Sessions
      PROVE  /\ ses'[s] = [pc |-> ses[s].pc, db |-> ses[s].db, cmd |-> ses[s].cmd,
                           hit |-> ses[s].hit \ {n}, alone |-> ses[s].alone]
             /\ ses'[s].pc = ses[s].pc /\ ses'[s].db = ses[s].db
             /\ ses'[s].cmd = ses[s].cmd /\ ses'[s].hit = ses[s].hit \ {n}
             /\ ses'[s].alone = ses[s].alone
  <2>1. ses'[s] = [ses[s] EXCEPT !.hit = @ \ {n}]
    BY <1>1, Zenon
  <2>2. ses[s] = [pc |-> ses[s].pc, db |-> ses[s].db, cmd |-> ses[s].cmd,
                  hit |-> ses[s].hit, alone |-> ses[s].alone]
    BY Zenon DEF IndInv, Typed, IsSession
  <2> QED
    BY <2>1, <2>2, Zenon
<1>4. Typed'
  <2>1. ASSUME NEW s \in Sessions PROVE IsSession(ses[s])'
    <3>1. ses'[s] = [pc |-> ses[s].pc, db |-> ses[s].db, cmd |-> ses[s].cmd,
                     hit |-> ses[s].hit \ {n}, alone |-> ses[s].alone]
      BY <1>3, Zenon
    <3> QED
      BY <3>1 DEF IndInv, Typed, IsSession
  <2>2. held' \subseteq Nodes \X DBs
    BY <1>1, Zenon DEF IndInv, Typed
  <2> QED
    BY <1>1, <1>2, <2>1, <2>2, Zenon DEF IndInv, Typed, IsProcess
<1>5. Entries'
  BY <1>2, Zenon DEF IndInv, Entries
<1>6. Underway'
  <2> SUFFICES ASSUME NEW s \in Sessions, ses'[s].pc = "coord",
                      ses'[s].cmd = "PAUSE", ses'[s].alone,
                      NEW m \in ses'[s].hit
               PROVE  ses'[s].db \in paused'[m]
    BY Zenon DEF Underway
  <2>1. /\ ses[s].pc = "coord" /\ ses[s].cmd = "PAUSE" /\ ses[s].alone
        /\ ses'[s].db = ses[s].db /\ m \in ses[s].hit /\ m # n
    BY <1>3, Zenon
  <2>2. m \in Nodes
    BY <2>1, Zenon DEF IndInv, Typed, IsSession, Nodes
  <2>3. ses[s].db \in paused[m]
    BY <2>1, Zenon DEF IndInv, Underway
  <2> QED
    BY <1>2, <2>1, <2>2, <2>3, Zenon
<1>7. PauseHolds'
  <2> SUFFICES ASSUME NEW h \in held' PROVE h[2] \in paused'[h[1]]
    BY Zenon DEF PauseHolds
  <2>1. h[1] # n /\ h \in Nodes \X DBs /\ h[2] \in paused[h[1]]
    BY <1>1, Zenon DEF IndInv, Typed, PauseHolds
  <2> QED
    BY <1>2, <2>1, Zenon
<1> QED
  BY <1>4, <1>5, <1>6, <1>7, Zenon DEF IndInv

\* A crash of the coordinator's processes ends all calls and empties the
\* coordinator's cache.
LEMMA ResetStep == ASSUME IndInv, PostmasterReset PROVE IndInv'
<1>1. /\ cached' = [cached EXCEPT ![Coord] = {}]
      /\ paused' = [paused EXCEPT ![Coord] = {}]
      /\ held' = {h \in held : h[1] # Coord}
      /\ wk' = [w \in Workers |-> NoProcess]
      /\ ses' = [s \in Sessions |-> IdleSession]
  BY Zenon DEF PostmasterReset
<1>2. /\ paused' = [m \in Nodes |-> paused'[m]]
      /\ cached' = [m \in Nodes |-> cached'[m]]
      /\ \A m \in Nodes : /\ paused'[m] = IF m = Coord THEN {} ELSE paused[m]
                          /\ cached'[m] = IF m = Coord THEN {} ELSE cached[m]
  <2>1. Coord \in Nodes
    BY Zenon DEF Nodes
  <2>2. paused = [m \in Nodes |-> paused[m]] /\ cached = [m \in Nodes |-> cached[m]]
    BY Zenon DEF IndInv, Typed
  <2>3. /\ paused' = [m \in Nodes |-> paused'[m]]
        /\ \A m \in Nodes : paused'[m] = IF m = Coord THEN {} ELSE paused[m]
    BY <1>1, <2>1, <2>2, Emptied, Zenon
  <2>4. /\ cached' = [m \in Nodes |-> cached'[m]]
        /\ \A m \in Nodes : cached'[m] = IF m = Coord THEN {} ELSE cached[m]
    BY <1>1, <2>1, <2>2, Emptied, Zenon
  <2> QED
    BY <2>3, <2>4, Zenon
<1>3. Typed'
  <2>1. \A s \in Sessions : IsSession(ses[s])'
    BY <1>1, Zenon DEF IsSession, IdleSession
  <2>2. \A w \in Workers : IsProcess(wk[w])'
    BY <1>1, Zenon DEF IsProcess, NoProcess
  <2> QED
    BY <1>1, <1>2, <2>1, <2>2, Zenon DEF IndInv, Typed
<1>4. Entries'
  BY <1>2, Zenon DEF IndInv, Entries
<1>5. Underway'
  BY <1>1, Zenon DEF Underway, IdleSession
<1>6. PauseHolds'
  <2> SUFFICES ASSUME NEW h \in held' PROVE h[2] \in paused'[h[1]]
    BY Zenon DEF PauseHolds
  <2>1. h[1] # Coord /\ h \in Nodes \X DBs /\ h[2] \in paused[h[1]]
    BY <1>1, Zenon DEF IndInv, Typed, PauseHolds
  <2> QED
    BY <1>2, <2>1, Zenon
<1> QED
  BY <1>3, <1>4, <1>5, <1>6, Zenon DEF IndInv

\* A step of the launcher or of a worker that leaves the pauses and the calls
\* alone, and at most adds entries, keeps the invariant.
LEMMA PausesUntouched ==
    ASSUME IndInv, UNCHANGED <<paused, ses, held>>,
           cached' = [n \in Nodes |-> cached'[n]],
           \A n \in Nodes : cached[n] \subseteq cached'[n],
           wk' = [w \in Workers |-> wk'[w]],
           \A w \in Workers : IsProcess(wk[w])'
    PROVE  IndInv'
<1>1. Typed'
  BY Zenon DEF IndInv, Typed, IsSession
<1>2. Entries'
  BY Zenon DEF IndInv, Entries
<1>3. Underway' /\ PauseHolds'
  BY Zenon DEF IndInv, Underway, PauseHolds
<1> QED
  BY <1>1, <1>2, <1>3, Zenon DEF IndInv

\* The processes keep their shape, and one begins a round only in LoopTop, at
\* the head of the worker's main loop, where diskquota_is_paused is asked.
LEMMA ProcessSteps ==
    ASSUME IndInv,
           \/ \E d \in DBs : Create(d) \/ Drop(d) \/ SetReady(d) \/ WaitStart(d)
           \/ LauncherError \/ Restart \/ WaitPoll \/ WaitEnd
           \/ \E i \in Slots : StartWorker(i)
           \/ \E w \in Workers : \/ ReadyLoop(w) \/ CheckReady(w) \/ MarkRunning(w)
                                 \/ LoopTop(w) \/ Round(w) \/ IncreaseEpoch(w)
    PROVE  /\ wk' = [w \in Workers |-> wk'[w]]
           /\ \A w \in Workers : IsProcess(wk[w])'
           /\ \A w \in Workers : wk[w].pc = "top" /\ wk'[w].pc = "round" =>
                                     LoopTop(w) /\ ~IsPaused(w)
<1> DEFINE Good == /\ wk' = [w \in Workers |-> wk'[w]]
                   /\ \A w \in Workers : IsProcess(wk[w])'
                   /\ \A w \in Workers : wk[w].pc = "top" /\ wk'[w].pc = "round" =>
                                             LoopTop(w) /\ ~IsPaused(w)
<1>0. wk = [w \in Workers |-> wk[w]] /\ \A w \in Workers : IsProcess(wk[w])
  BY Zenon DEF IndInv, Typed
<1>1. ASSUME wk' = wk PROVE Good
  BY <1>0, <1>1, Zenon DEF IsProcess
<1>2. ASSUME NEW d \in DBs, Drop(d) PROVE Good
  <2>1. PICK stopped \in SUBSET Workers :
          wk' = [w \in Workers |-> IF w \in stopped
                                   THEN [wk[w] EXCEPT !.term = TRUE] ELSE wk[w]]
    <3> DEFINE all == {i \in Slots : dbid[i] = d}
               first == {i \in all : \A j \in all : i <= j}
               S == {w \in Workers : \E i \in first : worker[i] = w}
    <3>1. wk' = [w \in Workers |-> IF \E i \in first : worker[i] = w
                                   THEN [wk[w] EXCEPT !.term = TRUE] ELSE wk[w]]
      BY <1>2, Zenon DEF Drop
    <3>2. wk' = [w \in Workers |-> IF w \in S
                                   THEN [wk[w] EXCEPT !.term = TRUE] ELSE wk[w]]
      BY <3>1, Zenon
    <3> QED
      BY <3>2, Zenon
  <2>2. ASSUME NEW w \in Workers
        PROVE  wk'[w] = [pc |-> wk[w].pc, db |-> wk[w].db, slot |-> wk[w].slot,
                         term |-> wk'[w].term, told |-> wk[w].told]
    <3>1. IsProcess(wk[w])
      BY <1>0, Zenon
    <3>2. wk'[w] = wk[w] \/ wk'[w] = [wk[w] EXCEPT !.term = TRUE]
      BY <2>1, Zenon
    <3>3. CASE wk'[w] = wk[w]
      BY <3>1, <3>3, Zenon DEF IsProcess
    <3>4. CASE wk'[w] = [wk[w] EXCEPT !.term = TRUE]
      <4>1. wk'[w] = [pc |-> wk[w].pc, db |-> wk[w].db, slot |-> wk[w].slot,
                      term |-> TRUE, told |-> wk[w].told]
        BY <3>1, <3>4, ProcessFields, Zenon
      <4> QED
        BY <4>1
    <3> QED
      BY <3>2, <3>3, <3>4, Zenon
  <2>3. ASSUME NEW w \in Workers
        PROVE  IsProcess(wk[w])' /\ wk'[w].pc = wk[w].pc
    <3>1. wk'[w] = [pc |-> wk[w].pc, db |-> wk[w].db, slot |-> wk[w].slot,
                    term |-> wk'[w].term, told |-> wk[w].told]
      BY <2>2, Zenon
    <3>2. /\ wk'[w].pc = wk[w].pc /\ wk'[w].db = wk[w].db
          /\ wk'[w].slot = wk[w].slot /\ wk'[w].told = wk[w].told
      BY <3>1
    <3> QED
      BY <3>1, <3>2, Zenon DEF IsProcess
  <2> QED
    BY <2>1, <2>3, Zenon
<1>3. ASSUME NEW v \in Workers, NEW p, IsProcess(p), wk' = [wk EXCEPT ![v] = p],
             wk[v].pc = "top" /\ p.pc = "round" => LoopTop(v) /\ ~IsPaused(v)
      PROVE  Good
  <2>1. \A w \in Workers : wk'[w] = IF w = v THEN p ELSE wk[w]
    BY <1>0, <1>3, Zenon
  <2>2. wk' = [w \in Workers |-> wk'[w]]
    BY <1>0, <1>3, Zenon
  <2>3. ASSUME NEW w \in Workers PROVE IsProcess(wk[w])'
    BY <1>0, <1>3, <2>1, Zenon DEF IsProcess
  <2> QED
    BY <1>3, <2>1, <2>2, <2>3, Zenon
<1>4. ASSUME NEW i \in Slots, StartWorker(i) PROVE Good
  <2>1. PICK v \in Workers :
          wk' = [wk EXCEPT ![v] = [pc |-> "ready", db |-> dbid[i], slot |-> i,
                                   term |-> FALSE, told |-> FALSE]]
    BY <1>4, Zenon DEF StartWorker
  <2> DEFINE p == [pc |-> "ready", db |-> dbid[i], slot |-> i, term |-> FALSE,
                   told |-> FALSE]
  <2>2. IsProcess(p) /\ p.pc # "round"
    BY Zenon DEF IsProcess
  <2> HIDE DEF p, Good
  <2>3. wk' = [wk EXCEPT ![v] = p]
    BY <2>1, Zenon DEF p
  <2> QED
    BY <1>3, <2>2, <2>3, Zenon
<1>5. ASSUME NEW v \in Workers, NEW pc, wk' = [wk EXCEPT ![v].pc = pc],
             wk[v].pc = "top" /\ pc = "round" => LoopTop(v) /\ ~IsPaused(v)
      PROVE  Good
  <2> DEFINE p == [wk[v] EXCEPT !.pc = pc]
  <2>1. p = [pc |-> pc, db |-> wk[v].db, slot |-> wk[v].slot,
             term |-> wk[v].term, told |-> wk[v].told]
    BY <1>0 DEF IsProcess
  <2>2. IsProcess(p) /\ p.pc = pc
    BY <2>1, Zenon DEF IsProcess
  <2>3. wk' = [wk EXCEPT ![v] = p]
    BY <1>5, Zenon
  <2> HIDE DEF p, Good
  <2> QED
    BY <1>3, <1>5, <2>2, <2>3, Zenon
<1>6. ASSUME NEW v \in Workers, NEW pc, NEW told, pc # "round",
             wk' = [wk EXCEPT ![v].pc = pc, ![v].told = told]
      PROVE  Good
  <2> DEFINE p == [wk[v] EXCEPT !.pc = pc, !.told = told]
  <2>1. p = [pc |-> pc, db |-> wk[v].db, slot |-> wk[v].slot,
             term |-> wk[v].term, told |-> told]
    BY <1>0, ProcessFields, Zenon
  <2>2. IsProcess(p) /\ p.pc = pc
    BY <2>1, Zenon DEF IsProcess
  <2>3. wk' = [wk EXCEPT ![v] = p]
    BY <1>0, <1>6, Zenon
  <2> HIDE DEF p, Good
  <2> QED
    BY <1>3, <1>6, <2>2, <2>3, Zenon
<1>7. ASSUME NEW v \in Workers, wk' = [wk EXCEPT ![v] = NoProcess] PROVE Good
  <2>1. IsProcess(NoProcess) /\ NoProcess.pc # "round"
    BY Zenon DEF IsProcess, NoProcess
  <2> HIDE DEF Good
  <2> QED
    BY <1>3, <1>7, <2>1, Zenon
<1> HIDE DEF Good
<1>8. ASSUME NEW w \in Workers, ReadyLoop(w) PROVE Good
  <2>1. PICK pc : pc # "round" /\ wk' = [wk EXCEPT ![w].pc = pc]
    BY <1>8, Zenon DEF ReadyLoop, Goto
  <2> QED
    BY <1>5, <2>1, Zenon
<1>9. ASSUME NEW w \in Workers, CheckReady(w) PROVE Good
  <2>1. CASE wk' = [wk EXCEPT ![w].pc = "status"]
    BY <1>5, <2>1, Zenon
  <2>2. CASE wk' = [wk EXCEPT ![w].pc = "ready", ![w].told = TRUE]
    BY <1>6, <2>2, Zenon
  <2> QED
    BY <1>9, <2>1, <2>2, Zenon DEF CheckReady, Goto
<1>10. ASSUME NEW w \in Workers, MarkRunning(w) PROVE Good
  <2>1. wk' = [wk EXCEPT ![w].pc = "top", ![w].told = FALSE]
    BY <1>10, Zenon DEF MarkRunning
  <2> QED
    BY <1>6, <2>1, Zenon
<1>11. ASSUME NEW w \in Workers, LoopTop(w) PROVE Good
  <2>1. CASE wk[w].term
    <3>1. wk' = [wk EXCEPT ![w] = NoProcess]
      BY <1>11, <2>1, Zenon DEF LoopTop, Exit
    <3> QED
      BY <1>7, <3>1, Zenon
  <2>2. CASE ~wk[w].term
    <3>1. wk' = [wk EXCEPT ![w].pc = IF IsPaused(w) THEN "count" ELSE "round"]
      BY <1>11, <2>2, Zenon DEF LoopTop, Goto
    <3>2. (IF IsPaused(w) THEN "count" ELSE "round") = "round" => ~IsPaused(w)
      BY Zenon
    <3> QED
      BY <1>5, <1>11, <3>1, <3>2, Zenon
  <2> QED
    BY <2>1, <2>2, Zenon
<1>12. ASSUME NEW w \in Workers, Round(w) PROVE Good
  <2>1. wk' = [wk EXCEPT ![w].pc = "count"]
    BY <1>12, Zenon DEF Round, Goto
  <2> QED
    BY <1>5, <2>1, Zenon
<1>13. ASSUME NEW w \in Workers, IncreaseEpoch(w) PROVE Good
  <2>1. \/ wk' = [wk EXCEPT ![w].pc = "top"]
        \/ wk' = [wk EXCEPT ![w] = NoProcess]
    BY <1>13, Zenon DEF IncreaseEpoch, Goto
  <2> QED
    BY <1>5, <1>7, <2>1, Zenon
<1>14. ASSUME \/ \E d \in DBs : Create(d) \/ SetReady(d) \/ WaitStart(d)
              \/ LauncherError \/ Restart \/ WaitPoll \/ WaitEnd
       PROVE  Good
  <2>1. wk' = wk
    BY <1>14, Zenon DEF Create, SetReady, WaitStart, LauncherError, Restart, WaitPoll,
                 WaitEnd
  <2> QED
    BY <1>1, <2>1, Zenon
<1>15. Good
  BY <1>2, <1>4, <1>8, <1>9, <1>10, <1>11, <1>12, <1>13, <1>14, Zenon
<1> QED
  BY <1>15, Zenon DEF Good

\* Every step keeps the invariant, and begins no round of a database whose
\* pause holds on the coordinator.
LEMMA Step ==
    ASSUME IndInv, [Next]_vars
    PROVE  /\ IndInv'
           /\ \A w \in Workers : wk[w].pc = "top" /\ wk'[w].pc = "round" =>
                                     <<Coord, wk[w].db>> \notin held
<1> DEFINE NoRound == \A w \in Workers : wk[w].pc = "top" /\ wk'[w].pc = "round" =>
                                     <<Coord, wk[w].db>> \notin held
<1>1. CASE UNCHANGED vars
  <2>1. UNCHANGED <<paused, ses, held, cached, wk>>
    BY <1>1, Zenon DEF vars, cacheVars, history
  <2>2. IndInv'
    BY <2>1, Zenon DEF IndInv, Typed, IsProcess, IsSession, Entries, Underway, PauseHolds
  <2> QED
    BY <2>1, <2>2, Zenon
<1>2. CASE LauncherSegs
  <2>1. PICK ns : \E cmd, d : UpdateMonitorDb(ns, cmd, d) /\ Disturb(ns, d)
    BY <1>2, Zenon DEF LauncherSegs
  <2>2. wk' = wk
    BY <1>2, Zenon DEF LauncherSegs
  <2> QED
    BY <2>1, <2>2, LauncherUpdate, Zenon
<1>3. CASE LauncherCoord
  <2>1. \E cmd, d : UpdateMonitorDb({Coord}, cmd, d) /\ Disturb({Coord}, d)
    BY <1>3, Zenon DEF LauncherCoord
  <2>2. wk' = wk
    BY <1>3, Zenon DEF LauncherCoord
  <2> QED
    BY <2>1, <2>2, LauncherUpdate, Zenon
<1>4. ASSUME NEW s \in Sessions, NEW d \in DBs, NEW cmd \in Toggles,
             ToggleSegs(s, d, cmd)
      PROVE  IndInv' /\ NoRound
  <2>1. wk' = wk
    BY <1>4, Zenon DEF ToggleSegs
  <2> QED
    BY <1>4, <2>1, ToggleSegsStep, Zenon
<1>5. ASSUME NEW s \in Sessions, ToggleCoord(s) PROVE IndInv' /\ NoRound
  <2>1. wk' = wk
    BY <1>5, Zenon DEF ToggleCoord
  <2> QED
    BY <1>5, <2>1, ToggleCoordStep, Zenon
<1>6. ASSUME NEW n \in Segs, Failover(n) PROVE IndInv' /\ NoRound
  <2>1. wk' = wk
    BY <1>6, Zenon DEF Failover
  <2> QED
    BY <1>6, <2>1, FailoverStep, Zenon
<1>7. ASSUME NEW w \in Workers, CheckReadyCrash(w) PROVE IndInv' /\ NoRound
  <2>1. PostmasterReset /\ wk' = [v \in Workers |-> NoProcess]
    BY <1>7, Zenon DEF CheckReadyCrash, PostmasterReset
  <2>2. \A v \in Workers : wk'[v].pc = "none"
    BY <2>1, Zenon DEF NoProcess
  <2> QED
    BY <2>1, <2>2, ResetStep, Zenon
<1>8. ASSUME \/ \E d \in DBs : Create(d) \/ Drop(d) \/ SetReady(d) \/ WaitStart(d)
             \/ LauncherError \/ Restart \/ WaitPoll \/ WaitEnd
             \/ \E i \in Slots : StartWorker(i)
             \/ \E w \in Workers : \/ ReadyLoop(w) \/ CheckReady(w) \/ MarkRunning(w)
                                   \/ LoopTop(w) \/ Round(w) \/ IncreaseEpoch(w)
      PROVE  IndInv' /\ NoRound
  <2>1. /\ wk' = [w \in Workers |-> wk'[w]]
        /\ \A w \in Workers : IsProcess(wk[w])'
        /\ \A w \in Workers : wk[w].pc = "top" /\ wk'[w].pc = "round" =>
                                  LoopTop(w) /\ ~IsPaused(w)
    BY <1>8, ProcessSteps, Zenon
  <2>2. UNCHANGED <<paused, ses, held>>
    BY <1>8, Zenon DEF Create, Drop, SetReady, WaitStart, LauncherError, Restart,
                WaitPoll, WaitEnd, StartWorker, ReadyLoop, CheckReady,
                MarkRunning, LoopTop, Round, RefreshCache, IncreaseEpoch,
                cacheVars, history
  <2>3. /\ cached' = [n \in Nodes |-> cached'[n]]
        /\ \A n \in Nodes : cached[n] \subseteq cached'[n]
    <3>1. CASE cached' = cached
      BY <3>1, Zenon DEF IndInv, Typed
    <3>2. CASE \E w \in Workers : Round(w)
      <4>1. \/ cached' = cached
            \/ \E ns, d : RefreshCache(ns, d)
        BY <3>2, Zenon DEF Round
      <4> QED
        BY <3>1, <4>1, Zenon DEF RefreshCache
    <3> QED
      BY <1>8, <3>1, <3>2, Zenon
         DEF Create, Drop, SetReady, WaitStart, LauncherError, Restart, WaitPoll,
             WaitEnd, StartWorker, ReadyLoop, CheckReady, MarkRunning, LoopTop,
             IncreaseEpoch, cacheVars
  <2>4. IndInv'
    BY <2>1, <2>2, <2>3, PausesUntouched, Zenon
  <2>5. NoRound
    <3> SUFFICES ASSUME NEW w \in Workers, ~IsPaused(w), <<Coord, wk[w].db>> \in held
                 PROVE  FALSE
      BY <2>1, Zenon
    <3>1. wk[w].db \in paused[Coord]
      BY Zenon DEF IndInv, PauseHolds
    <3>2. wk[w].db \in cached[Coord]
      BY <3>1, Zenon DEF IndInv, Entries, Nodes
    <3> QED
      BY <3>1, <3>2, Zenon DEF IsPaused
  <2> QED
    BY <2>4, <2>5, Zenon
<1> QED
  BY <1>1, <1>2, <1>3, <1>4, <1>5, <1>6, <1>7, <1>8, Zenon DEF Next, WorkerStep

\* What diskquota_pause has paused stays paused until it is resumed, added or
\* removed anew, or lost with the node's memory, for any number of databases,
\* segments, workers and sessions.
THEOREM PauseHoldsAlways == Spec => []PauseHolds
<1>1. IndInv /\ [Next]_vars => IndInv'
  BY Step, Zenon
<1>2. IndInv => PauseHolds
  BY Zenon DEF IndInv
<1> QED
  BY InitIndInv, <1>1, <1>2, PTL DEF Spec

\* No worker begins a round of a database whose pause holds on the coordinator
\* (disk_quota_worker_main, diskquota_is_paused).
THEOREM PausedDatabaseRests == Spec => NoRoundWhilePaused
<1> DEFINE A == \A w \in Workers :
                  wk[w].pc = "top" /\ wk'[w].pc = "round"
                    => <<Coord, wk[w].db>> \notin held
<1>1. IndInv /\ [Next]_vars => IndInv'
  BY Step, Zenon
<1>2. IndInv /\ [Next]_vars => [A]_vars
  BY Step, Zenon
<1>3. Spec => [][A]_vars
  BY InitIndInv, <1>1, <1>2, PTL DEF Spec
<1> QED
  BY <1>3, Zenon DEF NoRoundWhilePaused

-----------------------------------------------------------------------------
(***************************************************************************)
(* init_database_list adds the listed databases to dbArray one by one, a   *)
(* fold.  Induction over the subsets of a finite set, from the minimality  *)
(* theorem of the library, says what the fold computes.                    *)
(***************************************************************************)

\* Every nonempty set of naturals has a least element.
LEMMA LeastNumber ==
    ASSUME NEW T \in SUBSET Nat, T # {}
    PROVE  \E n \in T : \A k \in T : n <= k
<1>1. PICK n \in T : \A k \in T : ~(<<k, n>> \in OpToRel(<, Nat))
  BY NatLessThanWellFounded, WFMin, Zenon
<1>2. \A k \in T : ~(k < n)
  BY <1>1, ZenonT(40) DEF OpToRel
<1> QED
  BY <1>2

\* The last of a nonempty set of positions is one of them.
LEMMA MaxIsMember ==
    ASSUME NEW n \in Nat, NEW s \in SUBSET (1..n), s # {}
    PROVE  Max(s) \in s
<1> DEFINE T == {k \in Nat : n - k \in s}
<1>1. T # {}
  <2>1. PICK x : x \in s
    BY Zenon
  <2>2. n - x \in Nat /\ n - (n - x) = x
    BY <2>1
  <2>3. n - x \in T
    BY <2>1, <2>2
  <2> QED
    BY <2>3, Zenon
<1>2. PICK k \in T : \A j \in T : k <= j
  <2>1. T \in SUBSET Nat
    BY Zenon
  <2> HIDE DEF T
  <2> QED
    BY <1>1, <2>1, LeastNumber, Zenon
<1>3. n - k \in s
  BY <1>2, Zenon
<1>4. ASSUME NEW y \in s PROVE n - k >= y
  <2>1. n - y \in Nat /\ n - (n - y) = y
    OBVIOUS
  <2>2. n - y \in T
    BY <2>1
  <2>3. k <= n - y /\ k \in Nat
    BY <1>2, <2>2, Zenon
  <2> QED
    BY <2>3
<1>5. \E x \in s : \A y \in s : x >= y
  BY <1>3, <1>4, Zenon
<1> QED
  BY <1>5, Zenon DEF Max

\* A set of sets of positions that has a set whenever it has all sets with one
\* position less has all of them.
LEMMA PositionInduction ==
    ASSUME NEW n \in Nat, NEW P, {} \in P,
           \A s \in SUBSET (1..n) : s # {} /\ s \ {Max(s)} \in P => s \in P
    PROVE  SUBSET (1..n) \subseteq P
<1> DEFINE S == 1..n
           T == {m \in Nat : \E s \in SUBSET S : s \notin P /\ Cardinality(s) = m}
<1>1. SUFFICES ASSUME NEW s0 \in SUBSET S, s0 \notin P PROVE FALSE
  BY Zenon
<1>2. \A s \in SUBSET S : IsFiniteSet(s) /\ Cardinality(s) \in Nat
  <2>1. IsFiniteSet(S)
    BY FS_Interval
  <2> QED
    BY <2>1, FS_Subset, FS_CardinalityType, Zenon
<1>3. T \in SUBSET Nat /\ T # {}
  BY <1>1, <1>2, Zenon
<1>4. PICK m \in T : \A k \in T : m <= k
  BY <1>3, LeastNumber, Zenon
<1>5. PICK s \in SUBSET S : s \notin P /\ Cardinality(s) = m
  BY <1>4, Zenon
<1>6. s # {} /\ s \ {Max(s)} \notin P
  BY <1>5, Zenon
<1>7. Max(s) \in s
  BY <1>5, <1>6, MaxIsMember, Zenon
<1>8. Cardinality(s \ {Max(s)}) = m - 1
  BY <1>2, <1>5, <1>7, FS_RemoveElement, Zenon
<1>9. m - 1 \in T
  <2>1. s \ {Max(s)} \in SUBSET S
    BY Zenon
  <2>2. Cardinality(s \ {Max(s)}) \in T
    BY <1>2, <1>6, <2>1, Zenon
  <2> QED
    BY <1>8, <2>2, Zenon
<1>10. m \in Nat /\ ~(m <= m - 1)
  BY <1>4
<1> QED
  BY <1>4, <1>9, <1>10, Zenon

\* the function of the recursive definition of the fold
Adding(b, q, n, g) ==
    g = [s \in SUBSET (1..n) |->
           IF s = {} THEN b ELSE AddDbEntry(g[s \ {Max(s)}], q[Max(s)])]

\* There is such a function.
LEMMA AddingExists ==
    ASSUME NEW b, NEW q, NEW n \in Nat
    PROVE  \E g : Adding(b, q, n, g)
<1> DEFINE S == 1..n
           Do(g, s) == IF s = {} THEN b ELSE AddDbEntry(g[s \ {Max(s)}], q[Max(s)])
           Upto(g, m) == \A s \in SUBSET S : Cardinality(s) <= m => g[s] = Do(g, s)
           T == {m \in Nat : ~\E g : Upto(g, m)}
<1>0. IsFiniteSet(S)
  BY FS_Interval
<1>1. \A s \in SUBSET S : IsFiniteSet(s) /\ Cardinality(s) \in Nat
  BY <1>0, FS_Subset, FS_CardinalityType, Zenon
<1>2. \A s \in SUBSET S : s # {} => /\ Max(s) \in s /\ s \ {Max(s)} \in SUBSET S
                                    /\ Cardinality(s \ {Max(s)}) = Cardinality(s) - 1
  <2> SUFFICES ASSUME NEW s \in SUBSET S, s # {}
               PROVE  /\ Max(s) \in s /\ s \ {Max(s)} \in SUBSET S
                      /\ Cardinality(s \ {Max(s)}) = Cardinality(s) - 1
    BY Zenon
  <2>1. Max(s) \in s
    BY MaxIsMember, Zenon
  <2> QED
    BY <1>1, <2>1, FS_RemoveElement, Zenon
<1> HIDE DEF S
<1>3. 0 \notin T
  <2> DEFINE g == [s \in SUBSET S |-> b]
  <2>1. \A s \in SUBSET S : Cardinality(s) <= 0 => s = {}
    BY <1>1, FS_EmptySet
  <2>2. Upto(g, 0)
    BY <2>1, Zenon
  <2> QED
    BY <2>2, Zenon
<1>4. ASSUME NEW m \in Nat, m \notin T PROVE m + 1 \notin T
  <2>1. PICK h : Upto(h, m)
    BY <1>4, Zenon
  <2> DEFINE g == [s \in SUBSET S |-> IF Cardinality(s) <= m THEN h[s] ELSE Do(h, s)]
  <2>2. ASSUME NEW s \in SUBSET S, Cardinality(s) <= m + 1 PROVE g[s] = Do(h, s)
    BY <2>1, <2>2, Zenon
  <2>3. ASSUME NEW s \in SUBSET S, Cardinality(s) <= m + 1 PROVE Do(g, s) = Do(h, s)
    <3>1. CASE s = {}
      BY <3>1, Zenon
    <3>2. CASE s # {}
      <4>1. s \ {Max(s)} \in SUBSET S /\ Cardinality(s \ {Max(s)}) = Cardinality(s) - 1
        BY <1>2, <3>2, Zenon
      <4>2. Cardinality(s \ {Max(s)}) <= m
        BY <1>1, <2>3, <4>1
      <4>3. g[s \ {Max(s)}] = h[s \ {Max(s)}]
        BY <4>1, <4>2, Zenon
      <4> QED
        BY <3>2, <4>3, Zenon
    <3> QED
      BY <3>1, <3>2, Zenon
  <2>4. Upto(g, m + 1)
    BY <2>2, <2>3, Zenon
  <2> HIDE DEF Upto
  <2> QED
    BY <2>4, Zenon
<1>5. T = {}
  <2>1. SUFFICES ASSUME T # {} PROVE FALSE
    BY Zenon
  <2>2. PICK m \in T : \A k \in T : m <= k
    <3> HIDE DEF Upto
    <3> QED
      BY <2>1, LeastNumber, Zenon
  <2>3. m \in Nat
    BY <2>2, Zenon
  <2> HIDE DEF T
  <2>4. m - 1 \in Nat /\ (m - 1) + 1 = m /\ ~(m <= m - 1)
    BY <1>3, <2>2, <2>3
  <2> QED
    BY <1>4, <2>2, <2>4, Zenon
<1>6. PICK h : Upto(h, Cardinality(S))
  <2>1. Cardinality(S) \in Nat
    BY <1>0, FS_CardinalityType, Zenon
  <2> HIDE DEF Upto
  <2> QED
    BY <1>5, <2>1, Zenon
<1> DEFINE g == [s \in SUBSET S |-> h[s]]
<1>7. \A s \in SUBSET S : h[s] = Do(h, s)
  BY <1>0, <1>6, FS_Subset, Zenon
<1>8. \A s \in SUBSET S : Do(h, s) = Do(g, s)
  <2> SUFFICES ASSUME NEW s \in SUBSET S PROVE Do(h, s) = Do(g, s)
    BY Zenon
  <2>1. CASE s = {}
    BY <2>1, Zenon
  <2>2. CASE s # {}
    BY <1>2, <2>2, Zenon
  <2> QED
    BY <2>1, <2>2, Zenon
<1>9. Adding(b, q, n, g)
  BY <1>7, <1>8, Zenon DEF Adding, S
<1> QED
  BY <1>9, Zenon

\* add_db_entry changes at most one slot: the first one that is free or has the
\* database already.
LEMMA AddsOneEntry ==
    ASSUME NEW s, DOMAIN s = Slots, NEW d
    PROVE  /\ DOMAIN AddDbEntry(s, d) = Slots
           /\ \/ /\ \A i \in Slots : s[i] # NoDb /\ s[i] # d
                 /\ AddDbEntry(s, d) = s
              \/ \E i \in Slots : /\ s[i] = NoDb \/ s[i] = d
                                  /\ AddDbEntry(s, d)[i] = d
                                  /\ \A j \in Slots \ {i} : AddDbEntry(s, d)[j] = s[j]
<1> DEFINE fit == {i \in Slots : s[i] \in {NoDb, d}}
<1>1. AddDbEntry(s, d) = IF fit = {} THEN s ELSE [s EXCEPT ![Min(fit)] = d]
  BY Zenon DEF AddDbEntry
<1>2. CASE fit = {}
  BY <1>1, <1>2, Zenon
<1>3. CASE fit # {}
  <2>1. fit \in SUBSET Nat
    BY MonitorAssumption DEF Slots
  <2>2. \E n \in fit : \A k \in fit : n <= k
    <3> HIDE DEF fit
    <3> QED
      BY <1>3, <2>1, LeastNumber, Zenon
  <2>3. Min(fit) \in fit
    <3> HIDE DEF fit
    <3> QED
      BY <2>2, Zenon DEF Min
  <2>4. PICK i : i = Min(fit)
    BY Zenon
  <2>5. i \in Slots /\ (s[i] = NoDb \/ s[i] = d)
    BY <2>3, <2>4, Zenon
  <2>6. AddDbEntry(s, d) = [s EXCEPT ![i] = d]
    BY <1>1, <1>3, <2>4, Zenon
  <2> QED
    BY <2>5, <2>6, Zenon
<1> QED
  BY <1>2, <1>3, Zenon

\* dbArray a after the databases at positions s of q were added to b: slots in
\* use stay, others get databases of q; each of these has a slot, or all slots
\* are in use; and from an empty array no database gets two.
Added(b, q, s, a) ==
    /\ DOMAIN a = Slots
    /\ \A i \in Slots : b[i] # NoDb => a[i] = b[i]
    /\ \A i \in Slots : a[i] = b[i] \/ \E k \in s : a[i] = q[k]
    /\ \A k \in s : (\E i \in Slots : a[i] = q[k]) \/ (\A i \in Slots : a[i] # NoDb)
    /\ (\A i \in Slots : b[i] = NoDb) =>
          \A i, j \in Slots : a[i] = a[j] /\ a[i] # NoDb => i = j

\* One more database.
LEMMA AddOneMore ==
    ASSUME NEW n \in Nat, NEW q, \A k \in 1..n : q[k] # NoDb,
           \A i, j \in 1..n : i # j => q[i] # q[j],
           NEW s \in SUBSET (1..n), NEW x \in s, NEW b, NEW a, Added(b, q, s \ {x}, a)
    PROVE  Added(b, q, s, AddDbEntry(a, q[x]))
<1>0. DOMAIN a = Slots
  BY Zenon DEF Added
<1>1. PICK c : c = AddDbEntry(a, q[x])
  BY Zenon
<1>2. /\ DOMAIN c = Slots
      /\ \/ /\ \A i \in Slots : a[i] # NoDb /\ a[i] # q[x]
            /\ c = a
         \/ \E i \in Slots : /\ a[i] = NoDb \/ a[i] = q[x]
                             /\ c[i] = q[x]
                             /\ \A j \in Slots \ {i} : c[j] = a[j]
  <2>1. PICK d : d = q[x]
    BY Zenon
  <2>2. /\ DOMAIN AddDbEntry(a, d) = Slots
        /\ \/ /\ \A i \in Slots : a[i] # NoDb /\ a[i] # d
              /\ AddDbEntry(a, d) = a
           \/ \E i \in Slots : /\ a[i] = NoDb \/ a[i] = d
                               /\ AddDbEntry(a, d)[i] = d
                               /\ \A j \in Slots \ {i} : AddDbEntry(a, d)[j] = a[j]
    BY <1>0, AddsOneEntry
  <2>3. c = AddDbEntry(a, d)
    BY <1>1, <2>1, Zenon
  <2> QED
    BY <2>1, <2>2, <2>3
<1>3. CASE (\A i \in Slots : a[i] # NoDb /\ a[i] # q[x]) /\ c = a
  <2>1. Added(b, q, s, c)
    BY <1>3, Zenon DEF Added
  <2> QED
    BY <1>1, <2>1, Zenon
<1>4. ASSUME NEW i \in Slots, a[i] = NoDb \/ a[i] = q[x], c[i] = q[x],
             \A j \in Slots \ {i} : c[j] = a[j]
      PROVE  Added(b, q, s, c)
  <2>1. q[x] # NoDb
    BY Zenon
  <2>2. \A j \in Slots : a[j] # NoDb => c[j] = a[j]
    BY <1>4, Zenon
  <2>3. \A j \in Slots : b[j] # NoDb => c[j] = b[j]
    BY <2>2, Zenon DEF Added
  <2>4. \A j \in Slots : c[j] = b[j] \/ \E k \in s : c[j] = q[k]
    <3> TAKE j \in Slots
    <3>1. CASE j = i
      BY <1>4, <3>1, Zenon
    <3>2. CASE j # i
      <4>1. c[j] = a[j]
        BY <1>4, <3>2, Zenon
      <4>2. a[j] = b[j] \/ \E k \in s \ {x} : a[j] = q[k]
        BY Zenon DEF Added
      <4>3. a[j] = b[j] \/ \E k \in s : a[j] = q[k]
        BY <4>2, Zenon
      <4> QED
        BY <4>1, <4>3, Zenon
    <3> QED
      BY <3>1, <3>2, Zenon
  <2>5. ASSUME NEW k \in s
        PROVE  (\E j \in Slots : c[j] = q[k]) \/ (\A j \in Slots : c[j] # NoDb)
    <3>1. CASE k = x
      BY <1>4, <3>1, Zenon
    <3>2. CASE k # x
      <4>1. (\E j \in Slots : a[j] = q[k]) \/ (\A j \in Slots : a[j] # NoDb)
        BY <3>2, Zenon DEF Added
      <4>2. q[k] # NoDb
        BY Zenon
      <4>3. CASE \E j \in Slots : a[j] = q[k]
        BY <2>2, <4>2, <4>3, Zenon
      <4>4. CASE \A j \in Slots : a[j] # NoDb
        BY <2>2, <4>4, Zenon
      <4> QED
        BY <4>1, <4>3, <4>4, Zenon
    <3> QED
      BY <3>1, <3>2, Zenon
  <2>6. ASSUME \A j \in Slots : b[j] = NoDb, NEW j \in Slots, NEW k \in Slots, c[j] = c[k], c[j] # NoDb
        PROVE  j = k
    <3>1. \A m \in Slots : a[m] # q[x]
      <4> SUFFICES ASSUME NEW m \in Slots, a[m] = q[x] PROVE FALSE
        BY Zenon
      <4>1. PICK y \in s \ {x} : a[m] = q[y]
        BY <2>1, <2>6, Zenon DEF Added
      <4> QED
        BY <4>1, Zenon
    <3>2. CASE j = i \/ k = i
      BY <1>4, <2>6, <3>1, <3>2, Zenon
    <3>3. CASE j # i /\ k # i
      BY <1>4, <2>6, <3>3, Zenon DEF Added
    <3> QED
      BY <3>2, <3>3, Zenon
  <2> QED
    BY <1>2, <2>3, <2>4, <2>5, <2>6, Zenon DEF Added
<1> QED
  BY <1>1, <1>2, <1>3, <1>4, Zenon

\* What init_database_list makes of dbArray, in whatever order it reads the list.
LEMMA ListAdded ==
    ASSUME NEW L, IsFiniteSet(L), NoDb \notin L, NEW q \in SetToSeqs(L),
           NEW b, DOMAIN b = Slots
    PROVE  /\ Added(b, q, 1..Cardinality(L), FoldLeft(AddDbEntry, b, q))
           /\ \A k \in 1..Cardinality(L) : q[k] \in L
           /\ \A d \in L : \E k \in 1..Cardinality(L) : q[k] = d
<1> DEFINE n == Cardinality(L)
<1>1. n \in Nat
  BY FS_CardinalityType, Zenon
<1>2. q \in [1..n -> L] /\ \A i, j \in 1..n : i # j => q[i] # q[j]
  BY Zenon DEF SetToSeqs
<1>3. \A k \in 1..n : q[k] # NoDb
  BY <1>2, Zenon
<1>4. PICK g : Adding(b, q, n, g) /\ FoldLeft(AddDbEntry, b, q) = g[1..n]
  <2>1. DOMAIN q = 1..n
    BY <1>2, Zenon
  <2>2. FoldLeft(AddDbEntry, b, q) = (CHOOSE g : Adding(b, q, n, g))[1..n]
    BY <2>1 DEF FoldLeft, MapThenFoldSet, Adding
  <2> QED
    BY <1>1, <2>2, AddingExists, Zenon
<1> HIDE DEF n
<1> DEFINE P == {s \in SUBSET (1..n) : Added(b, q, s, g[s])}
<1>5. \A s \in SUBSET (1..n) : g[s] = IF s = {} THEN b ELSE AddDbEntry(g[s \ {Max(s)}], q[Max(s)])
  BY <1>4, Zenon DEF Adding
<1>6. {} \in P
  <2>1. Added(b, q, {}, b)
    BY Zenon DEF Added
  <2>2. g[{}] = b
    BY <1>5, Zenon
  <2> QED
    BY <2>1, <2>2, Zenon
<1>7. ASSUME NEW s \in SUBSET (1..n), s # {}, s \ {Max(s)} \in P PROVE s \in P
  <2>1. PICK x : x = Max(s)
    BY Zenon
  <2>2. x \in s
    BY <1>1, <1>7, <2>1, MaxIsMember, Zenon
  <2>3. Added(b, q, s \ {x}, g[s \ {x}])
    BY <1>7, <2>1, Zenon
  <2>4. Added(b, q, s, AddDbEntry(g[s \ {x}], q[x]))
    BY <1>1, <1>2, <1>3, <2>2, <2>3, AddOneMore, Zenon
  <2> QED
    BY <1>5, <1>7, <2>1, <2>4, Zenon
<1>8. SUBSET (1..n) \subseteq P
  <2> HIDE DEF P
  <2> QED
    BY <1>1, <1>6, <1>7, PositionInduction, Zenon
<1>9. Added(b, q, 1..n, g[1..n])
  BY <1>8, Zenon
<1>10. \A d \in L : \E k \in 1..n : q[k] = d
  <2>1. q \in Injection(1..n, L)
    BY <1>2, Zenon DEF Injection, IsInjective
  <2>2. Cardinality(1..n) = n
    BY <1>1, FS_Interval
  <2>3. q \in Surjection(1..n, L)
    BY <2>1, <2>2, FS_Injection, Zenon DEF n
  <2> QED
    BY <2>3, Zenon DEF Surjection
<1> QED
  BY <1>2, <1>4, <1>9, <1>10, Zenon DEF n

-----------------------------------------------------------------------------
(***************************************************************************)
(* Slots and workers: a process that was not told to stop is the worker of *)
(* its slot, and the slot is of its database.                              *)
(***************************************************************************)
Alive(w) == wk[w].pc # "none" /\ ~wk[w].term

SlotsInv ==
    /\ DOMAIN dbid = Slots /\ DOMAIN worker = Slots
    /\ \A i \in Slots : dbid[i] \in DBs \cup {NoDb}
    /\ listed \subseteq DBs /\ IsFiniteSet(listed)
    /\ \A w \in Workers : wk[w].pc # "none" => wk[w].slot \in Slots
    /\ \A w \in Workers : Alive(w) =>
          /\ worker[wk[w].slot] = w
          /\ dbid[wk[w].slot] = wk[w].db
          /\ wk[w].db \in DBs

\* the process has the same database, slot and orders
SameProcess(w) ==
    wk'[w].db = wk[w].db /\ wk'[w].slot = wk[w].slot /\ wk'[w].term = wk[w].term

\* What a worker does to its process and its slot: it goes on or ends.  It is in
\* an iteration of its main loop only after the head of the loop.
LEMMA WorkerMoves ==
    ASSUME IndInv, NEW w \in Workers,
           \/ ReadyLoop(w) \/ CheckReady(w) \/ MarkRunning(w)
           \/ LoopTop(w) \/ Round(w) \/ IncreaseEpoch(w)
    PROVE  /\ wk[w].pc # "none" /\ UNCHANGED <<dbid, listed>>
           /\ \A v \in Workers \ {w} : wk'[v] = wk[v]
           /\ \/ SameProcess(w) /\ wk'[w].pc # "none" /\ worker' = worker
              \/ /\ wk'[w].pc = "none"
                 /\ worker' = [i \in Slots |-> IF worker[i] = w THEN NoWorker ELSE worker[i]]
           /\ wk'[w].pc \in {"round", "count"} =>
                Round(w) \/ (LoopTop(w) /\ ~wk[w].term)
<1> DEFINE Goes(pc) == /\ \A v \in Workers \ {w} : wk'[v] = wk[v]
                       /\ SameProcess(w) /\ wk'[w].pc = pc
           Ends == /\ \A v \in Workers \ {w} : wk'[v] = wk[v]
                   /\ wk'[w].pc = "none"
<1>0. wk = [v \in Workers |-> wk[v]] /\ IsProcess(wk[w])
  BY Zenon DEF IndInv, Typed
<1>1. ASSUME NEW pc, wk' = [wk EXCEPT ![w].pc = pc] PROVE Goes(pc)
  <2>1. /\ wk'[w] = [wk[w] EXCEPT !.pc = pc] /\ \A v \in Workers \ {w} : wk'[v] = wk[v]
    BY <1>0, <1>1, Zenon
  <2>2. wk'[w] = [pc |-> pc, db |-> wk[w].db, slot |-> wk[w].slot, term |-> wk[w].term,
                  told |-> wk[w].told]
    BY <1>0, <2>1, ProcessFields, Zenon
  <2>3. wk'[w].pc = pc /\ wk'[w].db = wk[w].db /\ wk'[w].slot = wk[w].slot /\ wk'[w].term = wk[w].term
    BY <2>2
  <2> QED
    BY <2>1, <2>3, Zenon DEF SameProcess
<1>2. ASSUME NEW pc, NEW told, wk' = [wk EXCEPT ![w].pc = pc, ![w].told = told] PROVE Goes(pc)
  <2>1. /\ wk'[w] = [wk[w] EXCEPT !.pc = pc, !.told = told]
        /\ \A v \in Workers \ {w} : wk'[v] = wk[v]
    BY <1>0, <1>2, Zenon
  <2>2. wk'[w] = [pc |-> pc, db |-> wk[w].db, slot |-> wk[w].slot, term |-> wk[w].term,
                  told |-> told]
    <3>1. [wk[w] EXCEPT !.pc = pc, !.told = told]
             = [pc |-> pc, db |-> wk[w].db, slot |-> wk[w].slot, term |-> wk[w].term, told |-> told]
      BY <1>0, ProcessFields, Zenon
    <3> QED
      BY <2>1, <3>1, Zenon
  <2>3. wk'[w].pc = pc /\ wk'[w].db = wk[w].db /\ wk'[w].slot = wk[w].slot /\ wk'[w].term = wk[w].term
    BY <2>2
  <2> QED
    BY <2>1, <2>3, Zenon DEF SameProcess
<1>3. ASSUME wk' = [wk EXCEPT ![w] = NoProcess] PROVE Ends
  BY <1>0, <1>3, Zenon DEF NoProcess
<1> HIDE DEF Goes, Ends
<1>4. CASE ReadyLoop(w)
  <2>1. PICK pc \in {"status", "check"} : wk' = [wk EXCEPT ![w].pc = pc]
    BY <1>4, Zenon DEF ReadyLoop, Goto
  <2>2. Goes(pc) /\ wk[w].pc = "ready" /\ UNCHANGED <<dbid, listed, worker>>
    BY <1>1, <1>4, <2>1, Zenon DEF ReadyLoop, slotVars
  <2> QED
    BY <2>2, Zenon DEF Goes
<1>5. CASE CheckReady(w)
  <2>1. Goes("status") \/ Goes("ready")
    BY <1>1, <1>2, <1>5, Zenon DEF CheckReady, Goto
  <2>2. wk[w].pc = "check" /\ UNCHANGED <<dbid, listed, worker>>
    BY <1>5, Zenon DEF CheckReady, slotVars
  <2> QED
    BY <2>1, <2>2, Zenon DEF Goes
<1>6. CASE MarkRunning(w)
  <2>1. Goes("top") /\ wk[w].pc = "status" /\ UNCHANGED <<dbid, listed, worker>>
    BY <1>2, <1>6, Zenon DEF MarkRunning, slotVars
  <2> QED
    BY <2>1, Zenon DEF Goes
<1>7. CASE LoopTop(w)
  <2>0. wk[w].pc = "top" /\ UNCHANGED <<dbid, listed>>
    BY <1>7, Zenon DEF LoopTop
  <2>1. CASE wk[w].term
    <3>1. /\ Ends
          /\ worker' = [i \in Slots |-> IF worker[i] = w THEN NoWorker ELSE worker[i]]
      BY <1>3, <1>7, <2>1, Zenon DEF LoopTop, Exit
    <3> QED
      BY <2>0, <3>1, Zenon DEF Ends
  <2>2. CASE ~wk[w].term
    <3>1. PICK pc \in {"round", "count"} : wk' = [wk EXCEPT ![w].pc = pc]
      BY <1>7, <2>2, Zenon DEF LoopTop, Goto
    <3>2. Goes(pc) /\ worker' = worker
      BY <1>1, <1>7, <2>2, <3>1, Zenon DEF LoopTop
    <3> QED
      BY <1>7, <2>0, <2>2, <3>2, Zenon DEF Goes
  <2> QED
    BY <2>1, <2>2, Zenon
<1>8. CASE Round(w)
  <2>1. Goes("count") /\ wk[w].pc = "round" /\ UNCHANGED <<dbid, listed, worker>>
    BY <1>1, <1>8, Zenon DEF Round, Goto
  <2> QED
    BY <1>8, <2>1, Zenon DEF Goes
<1>9. CASE IncreaseEpoch(w)
  <2>0. wk[w].pc = "count" /\ UNCHANGED <<dbid, listed>>
    BY <1>9, Zenon DEF IncreaseEpoch
  <2>1. \/ Goes("top") /\ worker' = worker
        \/ /\ Ends
           /\ worker' = [i \in Slots |-> IF worker[i] = w THEN NoWorker ELSE worker[i]]
    BY <1>1, <1>3, <1>9, Zenon DEF IncreaseEpoch, Goto
  <2> QED
    BY <2>0, <2>1, Zenon DEF Goes, Ends
<1> QED
  BY <1>4, <1>5, <1>6, <1>7, <1>8, <1>9, Zenon

\* release_db_entry stops the workers of the slots it clears, and the others go on.
LEMMA DropMoves ==
    ASSUME IndInv, NEW d \in DBs, Drop(d)
    PROVE  \E S \in SUBSET Slots :
             /\ S = {i \in Slots : dbid[i] = d /\ \A j \in Slots : dbid[j] = d => i <= j}
             /\ dbid' = [i \in Slots |-> IF i \in S THEN NoDb ELSE dbid[i]]
             /\ worker' = [i \in Slots |-> IF i \in S THEN NoWorker ELSE worker[i]]
             /\ \A w \in Workers :
                  /\ wk'[w].pc = wk[w].pc /\ wk'[w].db = wk[w].db /\ wk'[w].slot = wk[w].slot
                  /\ ~wk'[w].term => ~wk[w].term /\ \A i \in S : worker[i] # w
<1> DEFINE all == {i \in Slots : dbid[i] = d}
           first == {i \in all : \A j \in all : i <= j}
           S == {i \in Slots : dbid[i] = d /\ \A j \in Slots : dbid[j] = d => i <= j}
<1>1. first = S
  BY Zenon
<1>2. /\ wk' = [w \in Workers |-> IF \E i \in first : worker[i] = w
                                  THEN [wk[w] EXCEPT !.term = TRUE] ELSE wk[w]]
      /\ dbid' = [i \in Slots |-> IF i \in first THEN NoDb ELSE dbid[i]]
      /\ worker' = [i \in Slots |-> IF i \in first THEN NoWorker ELSE worker[i]]
  BY Zenon DEF Drop
<1> HIDE DEF first
<1>3. ASSUME NEW w \in Workers
      PROVE  /\ wk'[w].pc = wk[w].pc /\ wk'[w].db = wk[w].db /\ wk'[w].slot = wk[w].slot
             /\ ~wk'[w].term => ~wk[w].term /\ \A i \in first : worker[i] # w
  <2>1. IsProcess(wk[w])
    BY Zenon DEF IndInv, Typed
  <2>2. CASE \E i \in first : worker[i] = w
    <3>1. wk'[w] = [wk[w] EXCEPT !.term = TRUE]
      BY <1>2, <2>2, Zenon
    <3>2. wk'[w] = [pc |-> wk[w].pc, db |-> wk[w].db, slot |-> wk[w].slot, term |-> TRUE,
                    told |-> wk[w].told]
      BY <2>1, <3>1, ProcessFields, Zenon
    <3> QED
      BY <3>2
  <2>3. CASE ~\E i \in first : worker[i] = w
    BY <1>2, <2>3, Zenon
  <2> QED
    BY <2>2, <2>3, Zenon
<1>4. S \in SUBSET Slots
  BY Zenon
<1> QED
  BY <1>1, <1>2, <1>3, <1>4, Zenon

\* Adding a database leaves the slots in use as they are.
LEMMA CreateAdds ==
    ASSUME SlotsInv, NEW d \in DBs, Create(d)
    PROVE  /\ DOMAIN dbid' = Slots
           /\ \A i \in Slots : dbid[i] # NoDb => dbid'[i] = dbid[i]
           /\ \A i \in Slots : dbid'[i] = dbid[i] \/ dbid'[i] = d
           /\ (\E i \in Slots : dbid'[i] = d) \/ (\A i \in Slots : dbid[i] # NoDb)
           /\ \A i, j \in Slots : dbid'[i] # dbid[i] /\ dbid'[j] # dbid[j] => i = j
<1>1. PICK c : c = dbid' /\ c = AddDbEntry(dbid, d)
  BY Zenon DEF Create
<1>2. /\ DOMAIN c = Slots
      /\ \/ /\ \A i \in Slots : dbid[i] # NoDb /\ dbid[i] # d
            /\ c = dbid
         \/ \E i \in Slots : /\ dbid[i] = NoDb \/ dbid[i] = d
                             /\ c[i] = d
                             /\ \A j \in Slots \ {i} : c[j] = dbid[j]
  <2>1. DOMAIN dbid = Slots
    BY Zenon DEF SlotsInv
  <2> QED
    BY <1>1, <2>1, AddsOneEntry
<1>3. CASE (\A i \in Slots : dbid[i] # NoDb /\ dbid[i] # d) /\ c = dbid
  BY <1>1, <1>2, <1>3, Zenon
<1>4. ASSUME NEW i \in Slots, dbid[i] = NoDb \/ dbid[i] = d, c[i] = d,
             \A j \in Slots \ {i} : c[j] = dbid[j]
      PROVE  /\ \A j \in Slots : dbid[j] # NoDb => c[j] = dbid[j]
             /\ \A j \in Slots : c[j] = dbid[j] \/ c[j] = d
             /\ \E j \in Slots : c[j] = d
             /\ \A j, k \in Slots : c[j] # dbid[j] /\ c[k] # dbid[k] => j = k
  BY <1>4, Zenon
<1> QED
  BY <1>1, <1>2, <1>3, <1>4, Zenon

\* init_database_list leaves the slots in use as they are, gives free ones to listed
\* databases, each of which has a slot in the end unless all slots are in use;
\* then every slot in use, and nothing else, is to be added to the caches.
LEMMA RestartAdds ==
    ASSUME SlotsInv, Restart
    PROVE  /\ DOMAIN dbid' = Slots
           /\ \A i \in Slots : dbid[i] # NoDb => dbid'[i] = dbid[i]
           /\ \A i \in Slots : dbid'[i] = dbid[i] \/ dbid'[i] \in listed
           /\ \A d \in listed : (\E i \in Slots : dbid'[i] = d) \/ (\A i \in Slots : dbid'[i] # NoDb)
           /\ (\A i \in Slots : dbid[i] = NoDb) => UniqueSlots'
           /\ \A d : (\E k \in DOMAIN jobs' : jobs'[k].db = d) <=>
                       d # NoDb /\ \E i \in Slots : dbid'[i] = d
           /\ \E n \in Nat : jobs' = [k \in 1..n |-> [cmd |-> "ADD", db |-> jobs'[k].db]]
           /\ lpc' = IF jobs' = << >> THEN "serve" ELSE "boot"
<1>1. /\ IsFiniteSet(listed) /\ NoDb \notin listed /\ DOMAIN dbid = Slots
  BY MonitorAssumption DEF SlotsInv
<1>2. PICK order \in SetToSeqs(listed) : dbid' = FoldLeft(AddDbEntry, dbid, order)
  BY Zenon DEF Restart
<1> DEFINE N == 1..Cardinality(listed)
<1>3. /\ Added(dbid, order, N, dbid')
      /\ \A k \in N : order[k] \in listed
      /\ \A d \in listed : \E k \in N : order[k] = d
  BY <1>1, <1>2, ListAdded
<1> HIDE DEF N
<1> DEFINE U == {i \in Slots : dbid'[i] # NoDb}
<1>4. PICK used \in SetToSeqs(U) : jobs' = [i \in DOMAIN used |-> [cmd |-> "ADD", db |-> dbid'[used[i]]]]
  BY Zenon DEF Restart
<1>5. /\ \E n \in Nat : DOMAIN used = 1..n
      /\ \A k \in DOMAIN used : used[k] \in U
      /\ \A i \in U : \E k \in DOMAIN used : used[k] = i
  <2>1. IsFiniteSet(U)
    <3>1. IsFiniteSet(Slots)
      BY MonitorAssumption, FS_Interval DEF Slots
    <3>2. U \in SUBSET Slots
      BY Zenon
    <3> QED
      BY <3>1, <3>2, FS_Subset, Zenon
  <2> HIDE DEF U
  <2>2. PICK n : n = Cardinality(U) /\ n \in Nat
    BY <2>1, FS_CardinalityType, Zenon
  <2>3. used \in [1..n -> U] /\ \A i, j \in 1..n : i # j => used[i] # used[j]
    BY <2>2, Zenon DEF SetToSeqs
  <2>4. used \in Injection(1..n, U)
    BY <2>3, Zenon DEF Injection, IsInjective
  <2>5. Cardinality(1..n) = n
    BY <2>2, FS_Interval
  <2>6. used \in Surjection(1..n, U)
    BY <2>1, <2>2, <2>4, <2>5, FS_Injection, Zenon
  <2> QED
    BY <2>2, <2>3, <2>6, Zenon DEF Surjection
<1>6. \A k \in DOMAIN jobs' : k \in DOMAIN used /\ jobs'[k].cmd = "ADD" /\ jobs'[k].db = dbid'[used[k]]
  BY <1>4
<1>7. \A d : (\E k \in DOMAIN jobs' : jobs'[k].db = d) <=> d # NoDb /\ \E i \in Slots : dbid'[i] = d
  <2>1. DOMAIN jobs' = DOMAIN used
    BY <1>4, Zenon
  <2>2. ASSUME NEW k \in DOMAIN jobs'
        PROVE  jobs'[k].db # NoDb /\ \E i \in Slots : dbid'[i] = jobs'[k].db
    <3>1. PICK i \in U : i = used[k]
      BY <1>5, <1>6, Zenon
    <3>2. jobs'[k].db = dbid'[i]
      BY <1>6, <3>1, Zenon
    <3>3. i \in Slots /\ dbid'[i] # NoDb
      BY Zenon
    <3> QED
      BY <3>2, <3>3, Zenon
  <2>3. ASSUME NEW i \in Slots, dbid'[i] # NoDb PROVE \E k \in DOMAIN jobs' : jobs'[k].db = dbid'[i]
    <3>1. i \in U
      BY <2>3, Zenon
    <3>2. PICK k \in DOMAIN used : used[k] = i
      BY <1>5, <3>1, Zenon
    <3>3. jobs'[k].db = dbid'[i] /\ k \in DOMAIN jobs'
      BY <1>6, <2>1, <3>2, Zenon
    <3> QED
      BY <3>3, Zenon
  <2> QED
    BY <2>2, <2>3, Zenon
<1>8. UniqueSlots' <=> \A i, j \in Slots : dbid'[i] = dbid'[j] /\ dbid'[i] # NoDb => i = j
  BY Zenon DEF UniqueSlots
<1>9. \E n \in Nat : jobs' = [k \in 1..n |-> [cmd |-> "ADD", db |-> jobs'[k].db]]
  <2>1. PICK n \in Nat : DOMAIN used = 1..n
    BY <1>5, Zenon
  <2>2. jobs' = [k \in 1..n |-> [cmd |-> "ADD", db |-> dbid'[used[k]]]]
    BY <1>4, <2>1, Zenon
  <2>3. \A k \in 1..n : dbid'[used[k]] = jobs'[k].db
    BY <2>2
  <2> QED
    BY <2>2, <2>3, Zenon
<1>10. lpc' = IF jobs' = << >> THEN "serve" ELSE "boot"
  BY Zenon DEF Restart
<1>11. \A i \in Slots : dbid'[i] = dbid[i] \/ dbid'[i] \in listed
  BY <1>3, Zenon DEF Added
<1>12. ASSUME NEW d \in listed
       PROVE  (\E i \in Slots : dbid'[i] = d) \/ (\A i \in Slots : dbid'[i] # NoDb)
  <2>1. PICK k \in N : order[k] = d
    BY <1>3, Zenon
  <2> QED
    BY <1>3, <2>1, Zenon DEF Added
<1>13. /\ DOMAIN dbid' = Slots
       /\ \A i \in Slots : dbid[i] # NoDb => dbid'[i] = dbid[i]
       /\ \A i \in Slots : dbid'[i] = dbid[i] \/ dbid'[i] \in listed
       /\ \A d \in listed : (\E i \in Slots : dbid'[i] = d) \/ (\A i \in Slots : dbid'[i] # NoDb)
  BY <1>3, <1>11, <1>12, Zenon DEF Added
<1>14. (\A i \in Slots : dbid[i] = NoDb) => UniqueSlots'
  BY <1>3, <1>8, Zenon DEF Added
<1> QED
  BY <1>7, <1>10, <1>13, <1>14, <1>9, Zenon

\* The server starts without slots and processes.
LEMMA InitSlotsInv == Init => SlotsInv
<1> SUFFICES ASSUME Init PROVE SlotsInv
  OBVIOUS
<1>1. \A w \in Workers : wk[w].pc = "none"
  BY Zenon DEF Init, NoProcess
<1>2. DOMAIN dbid = Slots /\ DOMAIN worker = Slots /\ \A i \in Slots : dbid[i] \in DBs \cup {NoDb}
  BY Zenon DEF Init
<1>3. listed \subseteq DBs /\ IsFiniteSet(listed)
  BY MonitorAssumption, Zenon DEF Init
<1> QED
  BY <1>1, <1>2, <1>3, Zenon DEF SlotsInv, Alive

\* No step leaves the invariant.
LEMMA SlotsNext == IndInv /\ SlotsInv /\ [Next]_vars => SlotsInv'
<1> SUFFICES ASSUME IndInv, SlotsInv, [Next]_vars PROVE SlotsInv'
  OBVIOUS
<1>1. ASSUME UNCHANGED <<dbid, worker, wk>>, listed' \subseteq DBs, IsFiniteSet(listed') PROVE SlotsInv'
  BY <1>1, Zenon DEF SlotsInv, Alive
<1>2. ASSUME UNCHANGED <<worker, wk>>, listed' \subseteq DBs, IsFiniteSet(listed'),
             DOMAIN dbid' = Slots, \A i \in Slots : dbid'[i] \in DBs \cup {NoDb},
             \A i \in Slots : dbid[i] # NoDb => dbid'[i] = dbid[i]
      PROVE  SlotsInv'
  <2>1. ASSUME NEW w \in Workers, Alive(w)'
        PROVE  worker'[wk'[w].slot] = w /\ dbid'[wk'[w].slot] = wk'[w].db /\ wk'[w].db \in DBs
    <3>1. Alive(w)
      BY <1>2, <2>1, Zenon DEF Alive
    <3>2. /\ wk[w].slot \in Slots /\ worker[wk[w].slot] = w
          /\ dbid[wk[w].slot] = wk[w].db /\ wk[w].db \in DBs
      BY <3>1, Zenon DEF SlotsInv, Alive
    <3>3. wk[w].db # NoDb
      BY <3>2, MonitorAssumption, Zenon
    <3> QED
      BY <1>2, <3>2, <3>3, Zenon
  <2> QED
    BY <1>2, <2>1, Zenon DEF SlotsInv
<1>3. /\ listed \subseteq DBs /\ IsFiniteSet(listed) /\ DOMAIN worker = Slots /\ DOMAIN dbid = Slots
      /\ \A i \in Slots : dbid[i] \in DBs \cup {NoDb}
  BY Zenon DEF SlotsInv
<1>4. ASSUME NEW d \in DBs, Create(d) PROVE SlotsInv'
  <2>1. UNCHANGED <<worker, wk>> /\ listed' = listed \cup {d}
    BY <1>4, Zenon DEF Create
  <2>2. IsFiniteSet(listed') /\ listed' \subseteq DBs
    BY <1>3, <2>1, FS_AddElement, Zenon
  <2>3. /\ DOMAIN dbid' = Slots
        /\ \A i \in Slots : dbid[i] # NoDb => dbid'[i] = dbid[i]
        /\ \A i \in Slots : dbid'[i] = dbid[i] \/ dbid'[i] = d
    BY <1>4, CreateAdds, Zenon
  <2>4. \A i \in Slots : dbid'[i] \in DBs \cup {NoDb}
    BY <1>3, <2>3, Zenon
  <2> QED
    BY <1>2, <2>1, <2>2, <2>3, <2>4, Zenon
<1>5. CASE Restart
  <2>1. UNCHANGED <<worker, wk, listed>>
    BY <1>5, Zenon DEF Restart
  <2>2. /\ DOMAIN dbid' = Slots
        /\ \A i \in Slots : dbid[i] # NoDb => dbid'[i] = dbid[i]
        /\ \A i \in Slots : dbid'[i] = dbid[i] \/ dbid'[i] \in listed
    BY <1>5, RestartAdds, Zenon
  <2>3. \A i \in Slots : dbid'[i] \in DBs \cup {NoDb}
    BY <1>3, <2>2, Zenon
  <2> QED
    BY <1>2, <1>3, <2>1, <2>2, <2>3, Zenon
<1>6. ASSUME NEW d \in DBs, Drop(d) PROVE SlotsInv'
  <2>1. PICK S \in SUBSET Slots :
             /\ dbid' = [i \in Slots |-> IF i \in S THEN NoDb ELSE dbid[i]]
             /\ worker' = [i \in Slots |-> IF i \in S THEN NoWorker ELSE worker[i]]
             /\ \A w \in Workers :
                  /\ wk'[w].pc = wk[w].pc /\ wk'[w].db = wk[w].db /\ wk'[w].slot = wk[w].slot
                  /\ ~wk'[w].term => ~wk[w].term /\ \A i \in S : worker[i] # w
    BY <1>6, DropMoves, Zenon
  <2>2. listed' = listed \ {d}
    BY <1>6, Zenon DEF Drop
  <2>3. IsFiniteSet(listed') /\ listed' \subseteq DBs
    BY <1>3, <2>2, FS_RemoveElement, Zenon
  <2>4. DOMAIN dbid' = Slots /\ DOMAIN worker' = Slots /\ \A i \in Slots : dbid'[i] \in DBs \cup {NoDb}
    BY <1>3, <2>1, Zenon
  <2>5. \A w \in Workers : wk'[w].pc # "none" => wk'[w].slot \in Slots
    BY <2>1, Zenon DEF SlotsInv
  <2>6. ASSUME NEW w \in Workers, Alive(w)'
        PROVE  worker'[wk'[w].slot] = w /\ dbid'[wk'[w].slot] = wk'[w].db /\ wk'[w].db \in DBs
    <3>1. Alive(w) /\ \A i \in S : worker[i] # w
      BY <2>1, <2>6, Zenon DEF Alive
    <3>2. /\ wk[w].slot \in Slots /\ worker[wk[w].slot] = w
          /\ dbid[wk[w].slot] = wk[w].db /\ wk[w].db \in DBs
      BY <3>1, Zenon DEF SlotsInv, Alive
    <3>3. wk[w].slot \notin S
      BY <3>1, <3>2, Zenon
    <3> QED
      BY <2>1, <3>2, <3>3, Zenon
  <2> QED
    BY <2>3, <2>4, <2>5, <2>6, Zenon DEF SlotsInv
<1>7. ASSUME NEW i \in Slots, StartWorker(i) PROVE SlotsInv'
  <2>1. PICK w \in Workers :
          /\ wk[w].pc = "none" /\ dbid[i] # NoDb /\ worker[i] = NoWorker
          /\ wk' = [wk EXCEPT ![w] = [pc |-> "ready", db |-> dbid[i], slot |-> i,
                                      term |-> FALSE, told |-> FALSE]]
          /\ worker' = [worker EXCEPT ![i] = w]
    BY <1>7, Zenon DEF StartWorker
  <2>2. UNCHANGED <<dbid, listed>>
    BY <1>7, Zenon DEF StartWorker
  <2>3. wk = [v \in Workers |-> wk[v]]
    BY Zenon DEF IndInv, Typed
  <2>4. wk'[w] = [pc |-> "ready", db |-> dbid[i], slot |-> i, term |-> FALSE, told |-> FALSE]
        /\ \A v \in Workers \ {w} : wk'[v] = wk[v]
    BY <2>1, <2>3, Zenon
  <2>5. wk'[w].slot = i /\ wk'[w].db = dbid[i]
    BY <2>4
  <2>6. DOMAIN worker' = Slots /\ worker'[i] = w /\ \A j \in Slots \ {i} : worker'[j] = worker[j]
    BY <1>3, <2>1, Zenon
  <2>7. ASSUME NEW v \in Workers, Alive(v)'
        PROVE  worker'[wk'[v].slot] = v /\ dbid'[wk'[v].slot] = wk'[v].db /\ wk'[v].db \in DBs
    <3>1. CASE v = w
      BY <1>3, <2>1, <2>2, <2>5, <2>6, <3>1, Zenon
    <3>2. CASE v # w
      <4>1. wk'[v] = wk[v] /\ Alive(v)
        BY <2>4, <2>7, <3>2, Zenon DEF Alive
      <4>2. /\ wk[v].slot \in Slots /\ worker[wk[v].slot] = v
            /\ dbid[wk[v].slot] = wk[v].db /\ wk[v].db \in DBs
        BY <4>1, Zenon DEF SlotsInv, Alive
      <4>3. wk[v].slot # i
        BY <2>1, <4>2, MonitorAssumption, Zenon
      <4> QED
        BY <2>2, <2>6, <4>1, <4>2, <4>3, Zenon
    <3> QED
      BY <3>1, <3>2, Zenon
  <2>8. ASSUME NEW v \in Workers, wk'[v].pc # "none" PROVE wk'[v].slot \in Slots
    BY <2>4, <2>5, <2>8, Zenon DEF SlotsInv
  <2> QED
    BY <1>3, <2>2, <2>6, <2>7, <2>8, Zenon DEF SlotsInv
<1>8. ASSUME NEW w \in Workers, CheckReadyCrash(w) PROVE SlotsInv'
  <2>1. /\ dbid' = [i \in Slots |-> NoDb] /\ worker' = [i \in Slots |-> NoWorker]
        /\ wk' = [v \in Workers |-> NoProcess] /\ UNCHANGED listed
    BY <1>8, Zenon DEF CheckReadyCrash, PostmasterReset
  <2>2. \A v \in Workers : wk'[v].pc = "none"
    BY <2>1, Zenon DEF NoProcess
  <2> QED
    BY <1>3, <2>1, <2>2, Zenon DEF SlotsInv, Alive
<1>9. ASSUME NEW w \in Workers,
             \/ ReadyLoop(w) \/ CheckReady(w) \/ MarkRunning(w)
             \/ LoopTop(w) \/ Round(w) \/ IncreaseEpoch(w)
      PROVE  SlotsInv'
  <2>1. /\ wk[w].pc # "none" /\ UNCHANGED <<dbid, listed>>
        /\ \A v \in Workers \ {w} : wk'[v] = wk[v]
        /\ \/ SameProcess(w) /\ wk'[w].pc # "none" /\ worker' = worker
           \/ /\ wk'[w].pc = "none"
              /\ worker' = [i \in Slots |-> IF worker[i] = w THEN NoWorker ELSE worker[i]]
    BY <1>9, WorkerMoves, Zenon
  <2>2. DOMAIN worker' = Slots
    BY <1>3, <2>1, Zenon
  <2>3. ASSUME NEW v \in Workers, wk'[v].pc # "none" PROVE wk'[v].slot \in Slots
    BY <2>1, <2>3, Zenon DEF SlotsInv, SameProcess
  <2>4. ASSUME NEW v \in Workers, Alive(v)'
        PROVE  worker'[wk'[v].slot] = v /\ dbid'[wk'[v].slot] = wk'[v].db /\ wk'[v].db \in DBs
    <3>1. Alive(v) /\ wk'[v].slot = wk[v].slot /\ wk'[v].db = wk[v].db
      BY <2>1, <2>4, Zenon DEF Alive, SameProcess
    <3>2. /\ wk[v].slot \in Slots /\ worker[wk[v].slot] = v
          /\ dbid[wk[v].slot] = wk[v].db /\ wk[v].db \in DBs
      BY <3>1, Zenon DEF SlotsInv, Alive
    <3>3. worker'[wk[v].slot] = v
      <4>1. CASE v = w
        BY <2>1, <2>4, <3>2, <4>1, Zenon DEF Alive
      <4>2. CASE v # w
        BY <2>1, <3>2, <4>2, Zenon
      <4> QED
        BY <4>1, <4>2, Zenon
    <3> QED
      BY <2>1, <3>1, <3>2, <3>3, Zenon
  <2> QED
    BY <1>3, <2>1, <2>2, <2>3, <2>4, Zenon DEF SlotsInv
<1>10. ASSUME \/ \E d \in DBs : SetReady(d) \/ WaitStart(d)
              \/ LauncherSegs \/ LauncherCoord \/ LauncherError \/ WaitPoll \/ WaitEnd
              \/ \E s \in Sessions : \/ ToggleCoord(s)
                                     \/ \E d \in DBs, cmd \in Toggles : ToggleSegs(s, d, cmd)
              \/ \E n \in Segs : Failover(n)
              \/ UNCHANGED vars
       PROVE  SlotsInv'
  <2>1. UNCHANGED <<dbid, worker, wk, listed>>
    BY <1>10, Zenon DEF SetReady, WaitStart, LauncherSegs, LauncherCoord, LauncherError, WaitPoll,
       WaitEnd, ToggleCoord, ToggleSegs, Failover, vars, slotVars
  <2> QED
    BY <1>1, <1>3, <2>1, Zenon
<1> QED
  BY <1>4, <1>5, <1>6, <1>7, <1>8, <1>9, <1>10, Zenon DEF Next, WorkerStep

-----------------------------------------------------------------------------
(***************************************************************************)
(* Waiting for a new epoch.                                                *)
(***************************************************************************)

\* Epochs are unsigned numbers, and the difference of two, taken modulo their
\* range, is 0 for equal ones and 1 for neighbours.
LEMMA EpochArithmetic ==
    ASSUME NEW e \in 0..(EpochMod - 1)
    PROVE  /\ NextEpoch(e) \in 0..(EpochMod - 1)
           /\ ~NewEpoch(e, e)
           /\ ~NewEpoch(NextEpoch(e), e)
<1>1. EpochMod \in Nat /\ EpochMod > 2
  BY MonitorAssumption
<1>2. PICK m \in Nat : m = EpochMod /\ m > 2
  BY <1>1
<1>3. e \in Nat /\ e < m
  BY <1>2
<1>4. ~NewEpoch(e, e)
  <2>1. 0 % m = 0
    BY <1>2
  <2>2. e - e = 0
    BY <1>3
  <2> QED
    BY <1>2, <2>1, <2>2 DEF NewEpoch
<1>5. 1 % m = 1
  BY <1>2
<1>6. CASE e + 1 < m
  <2>1. (e + 1) % m = e + 1
    BY <1>2, <1>3, <1>6, SMTT(20)
  <2>2. NextEpoch(e) = e + 1
    BY <1>2, <2>1 DEF NextEpoch
  <2>3. (e + 1) - e = 1
    BY <1>3
  <2> QED
    BY <1>2, <1>3, <1>4, <1>5, <1>6, <2>2, <2>3, SMTT(20) DEF NewEpoch
<1>7. CASE e + 1 = m
  <2>1. m % m = 0
    BY <1>2
  <2>2. NextEpoch(e) = 0
    BY <1>2, <1>7, <2>1, SMTT(20) DEF NextEpoch
  <2>3. 0 - e = 1 - m
    BY <1>2, <1>3, <1>7, SMTT(20)
  <2>4. (1 - m) % m = 1
    BY <1>2
  <2> QED
    BY <1>2, <1>3, <1>4, <2>2, <2>3, <2>4, SMTT(20) DEF NewEpoch
<1> QED
  BY <1>2, <1>3, <1>6, <1>7, SMTT(20)

\* The session that waits has seen no increment, or one; after the first, every
\* iteration under way of a worker of its database has begun during the wait.
\* A second one therefore ends an iteration that the wait has seen from its
\* beginning.
IsWait(x) == x = [pc |-> x.pc, db |-> x.db, epoch |-> x.epoch, since |-> x.since,
                  full |-> x.full, upset |-> x.upset]

InIteration(w) == Alive(w) /\ wk[w].pc \in {"round", "count"}

RoundsAreNew == \A w \in Workers : InIteration(w) /\ wk[w].db = wait.db => w \in wait.since

AtMostOneCounted ==
    \/ Epoch(wait.db) = wait.epoch
    \/ Epoch(wait.db) = NextEpoch(wait.epoch) /\ RoundsAreNew

WaitInv ==
    /\ IsWait(wait) /\ wait.full \in BOOLEAN /\ wait.upset \in BOOLEAN
    /\ DOMAIN epoch = DBs /\ \A d \in DBs : epoch[d] \in 0..(EpochMod - 1)
    /\ wait.pc # "idle" => wait.db \in DBs /\ wait.epoch \in 0..(EpochMod - 1)
    /\ wait.pc = "polling" => wait.full \/ wait.upset \/ AtMostOneCounted
    /\ wait.pc \in {"idle", "polling"} \/ wait.full \/ wait.upset

\* What assigning to fields of the wait gives.
LEMMA WaitFields ==
    ASSUME NEW x, IsWait(x), NEW a
    PROVE  /\ [x EXCEPT !.upset = a] = [pc |-> x.pc, db |-> x.db, epoch |-> x.epoch,
                since |-> x.since, full |-> x.full, upset |-> a]
           /\ [x EXCEPT !.since = a] = [pc |-> x.pc, db |-> x.db, epoch |-> x.epoch,
                since |-> a, full |-> x.full, upset |-> x.upset]
           /\ [x EXCEPT !.pc = a] = [pc |-> a, db |-> x.db, epoch |-> x.epoch,
                since |-> x.since, full |-> x.full, upset |-> x.upset]
<1> DEFINE F == {"pc", "db", "epoch", "since", "full", "upset"}
<1>1. DOMAIN x = F /\ x = [f \in F |-> x[f]]
  BY Zenon DEF IsWait
<1>2. [x EXCEPT !.upset = a] = [pc |-> x.pc, db |-> x.db, epoch |-> x.epoch,
         since |-> x.since, full |-> x.full, upset |-> a]
  BY <1>1
<1>3. [x EXCEPT !.since = a] = [pc |-> x.pc, db |-> x.db, epoch |-> x.epoch,
         since |-> a, full |-> x.full, upset |-> x.upset]
  BY <1>1
<1>4. [x EXCEPT !.pc = a] = [pc |-> a, db |-> x.db, epoch |-> x.epoch,
         since |-> x.since, full |-> x.full, upset |-> x.upset]
  BY <1>1
<1> QED
  BY <1>2, <1>3, <1>4, Zenon

\* Nobody waits when the server starts.
LEMMA InitWaitInv == Init => WaitInv
<1> SUFFICES ASSUME Init PROVE WaitInv
  OBVIOUS
<1>1. IsWait(wait) /\ wait.full = FALSE /\ wait.upset = FALSE /\ wait.pc = "idle"
  BY DEF Init, NoWait, IsWait
<1>2. DOMAIN epoch = DBs /\ \A d \in DBs : epoch[d] \in 0..(EpochMod - 1)
  BY MonitorAssumption DEF Init
<1> QED
  BY <1>1, <1>2, Zenon DEF WaitInv

\* Steps that change neither the entries and epochs of the coordinator nor the
\* wait, and begin no iteration.
LEMMA WaitFrame ==
    ASSUME WaitInv, wait' = wait, epoch' = epoch, cached'[Coord] = cached[Coord],
           \A w \in Workers : InIteration(w)' => InIteration(w) /\ wk'[w].db = wk[w].db
    PROVE  WaitInv'
<1>1. AtMostOneCounted => AtMostOneCounted'
  <2>1. Epoch(wait.db)' = Epoch(wait.db)
    BY Zenon DEF Epoch
  <2>2. RoundsAreNew => RoundsAreNew'
    BY Zenon DEF RoundsAreNew
  <2> QED
    BY <2>1, <2>2, Zenon DEF AtMostOneCounted, NextEpoch
<1> QED
  BY <1>1, Zenon DEF WaitInv, IsWait

\* An iteration begins, and is noted; or the worker ends.
LEMMA WaitLoopTop ==
    ASSUME IndInv, WaitInv, NEW w \in Workers, LoopTop(w)
    PROVE  WaitInv'
<1>1. /\ wk[w].pc # "none" /\ \A v \in Workers \ {w} : wk'[v] = wk[v]
      /\ SameProcess(w) \/ wk'[w].pc = "none"
  BY WorkerMoves, Zenon
<1>2. UNCHANGED <<epoch, cached>> /\ DOMAIN epoch = DBs
  BY Zenon DEF LoopTop, cacheVars, WaitInv
<1>3. /\ wait' = [pc |-> wait.pc, db |-> wait.db, epoch |-> wait.epoch, since |-> wait'.since,
                  full |-> wait.full, upset |-> wait.upset]
      /\ \A v \in Workers \ {w} : v \in wait.since => v \in wait'.since
      /\ InIteration(w)' /\ wait.pc = "polling" /\ wk[w].db = wait.db => w \in wait'.since
  <2>1. CASE wk[w].term
    <3>1. wait' = [wait EXCEPT !.since = @ \ {w}] /\ wk' = [wk EXCEPT ![w] = NoProcess]
      BY <2>1, Zenon DEF LoopTop, Exit
    <3>2. wait' = [pc |-> wait.pc, db |-> wait.db, epoch |-> wait.epoch,
                   since |-> wait.since \ {w}, full |-> wait.full, upset |-> wait.upset]
      BY <3>1, WaitFields, Zenon DEF WaitInv
    <3>3. wk'[w].pc = "none"
      BY <3>1, Zenon DEF IndInv, Typed, NoProcess
    <3>4. wait'.since = wait.since \ {w}
      BY <3>2
    <3> QED
      BY <3>2, <3>3, <3>4, Zenon DEF InIteration, Alive
  <2>2. CASE ~wk[w].term /\ wait.pc = "polling" /\ wait.db = wk[w].db
    <3>1. wait' = [wait EXCEPT !.since = @ \cup {w}]
      BY <2>2, Zenon DEF LoopTop
    <3>2. wait' = [pc |-> wait.pc, db |-> wait.db, epoch |-> wait.epoch,
                   since |-> wait.since \cup {w}, full |-> wait.full, upset |-> wait.upset]
      BY <3>1, WaitFields, Zenon DEF WaitInv
    <3>3. wait'.since = wait.since \cup {w}
      BY <3>2
    <3> QED
      BY <3>2, <3>3, Zenon
  <2>3. CASE ~wk[w].term /\ ~(wait.pc = "polling" /\ wait.db = wk[w].db)
    <3>1. wait' = wait
      BY <2>3, Zenon DEF LoopTop
    <3> QED
      BY <2>3, <3>1, Zenon DEF WaitInv, IsWait
  <2> QED
    BY <2>1, <2>2, <2>3, Zenon
<1>4. /\ wait'.pc = wait.pc /\ wait'.db = wait.db /\ wait'.epoch = wait.epoch
      /\ wait'.full = wait.full /\ wait'.upset = wait.upset
  BY <1>3
<1>5. ASSUME wait.pc = "polling", AtMostOneCounted PROVE AtMostOneCounted'
  <2>1. Epoch(wait.db)' = Epoch(wait.db)
    BY <1>2, <1>4, Zenon DEF Epoch
  <2>2. RoundsAreNew => RoundsAreNew'
    <3> SUFFICES ASSUME RoundsAreNew, NEW v \in Workers, InIteration(v)', wk'[v].db = wait.db
                 PROVE  v \in wait'.since
      BY <1>4, Zenon DEF RoundsAreNew
    <3>1. CASE v = w
      <4>1. wk[w].db = wait.db
        BY <1>1, <3>1, Zenon DEF SameProcess, InIteration, Alive
      <4> QED
        BY <1>3, <1>5, <3>1, <4>1, Zenon
    <3>2. CASE v # w
      BY <1>1, <1>3, <3>2, Zenon DEF RoundsAreNew, InIteration, Alive
    <3> QED
      BY <3>1, <3>2, Zenon
  <2> QED
    BY <1>4, <1>5, <2>1, <2>2, Zenon DEF AtMostOneCounted, NextEpoch
<1>6. IsWait(wait)'
  BY <1>3, <1>4, Zenon DEF IsWait
<1> QED
  BY <1>2, <1>4, <1>5, <1>6, Zenon DEF WaitInv

\* With one slot for each database, a database has one live worker.
LEMMA OneLiveWorker ==
    ASSUME SlotsInv, UniqueSlots, NEW v \in Workers, NEW w \in Workers,
           Alive(v), Alive(w), wk[v].db = wk[w].db
    PROVE  v = w
<1>1. /\ wk[w].slot \in Slots /\ worker[wk[w].slot] = w /\ dbid[wk[w].slot] = wk[w].db
      /\ wk[v].slot \in Slots /\ worker[wk[v].slot] = v /\ dbid[wk[v].slot] = wk[v].db
      /\ wk[w].db \in DBs
  BY Zenon DEF SlotsInv, Alive
<1>2. wk[w].db # NoDb
  BY <1>1, MonitorAssumption, Zenon
<1>3. wk[v].slot = wk[w].slot
  BY <1>1, <1>2, Zenon DEF UniqueSlots
<1> QED
  BY <1>1, <1>3, Zenon

\* An iteration is counted: a second time during the wait only when it has begun
\* during the wait.
LEMMA WaitCount ==
    ASSUME IndInv, SlotsInv, UniqueSlots, WaitInv, NEW w \in Workers, IncreaseEpoch(w)
    PROVE  WaitInv'
<1>1. /\ wk[w].pc # "none" /\ \A v \in Workers \ {w} : wk'[v] = wk[v]
      /\ wk'[w].pc \notin {"round", "count"}
  <2>1. wk[w].pc = "count"
    BY Zenon DEF IncreaseEpoch
  <2>2. wk'[w].pc \in {"round", "count"} => Round(w) \/ LoopTop(w)
    BY WorkerMoves, Zenon
  <2>3. ~Round(w) /\ ~LoopTop(w)
    BY <2>1, Zenon DEF Round, LoopTop
  <2> QED
    BY <2>1, <2>2, <2>3, WorkerMoves, Zenon
<1>2. PICK d : d = dbid[wk[w].slot]
  BY Zenon
<1>3. /\ wait' = [wait EXCEPT !.full  = @ \/ (w \in wait.since /\ d = wait.db),
                              !.upset = @ \/ (d = wait.db /\ wk[w].term),
                              !.since = @ \ {w}]
      /\ epoch' = IF d \in cached[Coord] THEN [epoch EXCEPT ![d] = NextEpoch(@)] ELSE epoch
      /\ wk[w].pc = "count" /\ cached' = cached
  BY <1>2, Zenon DEF IncreaseEpoch
<1> DEFINE f == wait.full \/ (w \in wait.since /\ d = wait.db)
           u == wait.upset \/ (d = wait.db /\ wk[w].term)
           s == wait.since \ {w}
<1>4. wait' = [pc |-> wait.pc, db |-> wait.db, epoch |-> wait.epoch, since |-> s,
               full |-> f, upset |-> u]
  <2>1. IsWait(wait)
    BY Zenon DEF WaitInv
  <2>2. [wait EXCEPT !.full = f, !.upset = u, !.since = s]
          = [pc |-> wait.pc, db |-> wait.db, epoch |-> wait.epoch, since |-> s,
             full |-> f, upset |-> u]
    <3> HIDE DEF f, u, s
    <3> DEFINE F == {"pc", "db", "epoch", "since", "full", "upset"}
    <3>0. DOMAIN wait = F /\ wait = [k \in F |-> wait[k]]
      BY <2>1, Zenon DEF IsWait
    <3>1. PICK y : y = [wait EXCEPT !.full = f]
      BY Zenon
    <3>2. y = [pc |-> wait.pc, db |-> wait.db, epoch |-> wait.epoch, since |-> wait.since,
               full |-> f, upset |-> wait.upset]
      BY <3>0, <3>1
    <3>3. PICK z : z = [y EXCEPT !.upset = u]
      BY Zenon
    <3>4. z = [pc |-> wait.pc, db |-> wait.db, epoch |-> wait.epoch, since |-> wait.since,
               full |-> f, upset |-> u]
      BY <3>2, <3>3
    <3>5. [z EXCEPT !.since = s] = [pc |-> wait.pc, db |-> wait.db, epoch |-> wait.epoch, since |-> s,
                                    full |-> f, upset |-> u]
      BY <3>4
    <3>6. [wait EXCEPT !.full = f, !.upset = u, !.since = s] = [z EXCEPT !.since = s]
      BY <3>1, <3>3, Zenon
    <3> QED
      BY <3>5, <3>6, Zenon
  <2> QED
    BY <1>3, <2>2, Zenon
<1> HIDE DEF f, u, s
<1>5. /\ wait'.pc = wait.pc /\ wait'.db = wait.db /\ wait'.epoch = wait.epoch
      /\ wait'.since = s /\ wait'.full = f /\ wait'.upset = u
  BY <1>4
<1>6. IsWait(wait)' /\ f \in BOOLEAN /\ u \in BOOLEAN
  BY <1>4, <1>5, Zenon DEF IsWait, f, u
<1>7. /\ DOMAIN epoch' = DBs
      /\ \A e \in DBs : epoch'[e] = IF e = d /\ d \in cached[Coord] THEN NextEpoch(epoch[e]) ELSE epoch[e]
  <2>1. DOMAIN epoch = DBs
    BY Zenon DEF WaitInv
  <2> QED
    BY <1>3, <2>1, Zenon
<1>8. \A e \in DBs : epoch'[e] \in 0..(EpochMod - 1)
  BY <1>7, EpochArithmetic, Zenon DEF WaitInv
<1>9. ASSUME wait.pc = "polling", ~f, ~u PROVE AtMostOneCounted'
  <2>1. AtMostOneCounted /\ wait.db \in DBs
    BY <1>9, Zenon DEF WaitInv, f, u
  <2>2. CASE d # wait.db \/ d \notin cached[Coord]
    <3>1. Epoch(wait.db)' = Epoch(wait.db)
      BY <1>3, <1>5, <1>7, <2>1, <2>2, Zenon DEF Epoch
    <3>2. RoundsAreNew => RoundsAreNew'
      BY <1>1, <1>5, Zenon DEF RoundsAreNew, InIteration, Alive, s
    <3> QED
      BY <1>5, <2>1, <3>1, <3>2, Zenon DEF AtMostOneCounted, NextEpoch
  <2>3. CASE d = wait.db /\ d \in cached[Coord]
    <3>1. ~wk[w].term /\ w \notin wait.since
      BY <1>9, <2>3, Zenon DEF f, u
    <3>2. InIteration(w) /\ wk[w].db = wait.db
      BY <1>2, <1>3, <2>3, <3>1, Zenon DEF InIteration, Alive, SlotsInv
    <3>3. Epoch(wait.db) = wait.epoch
      BY <2>1, <3>1, <3>2, Zenon DEF AtMostOneCounted, RoundsAreNew
    <3>4. Epoch(wait.db)' = NextEpoch(wait'.epoch)
      BY <1>3, <1>5, <1>7, <2>1, <2>3, <3>3, Zenon DEF Epoch
    <3>5. RoundsAreNew'
      <4> SUFFICES ASSUME NEW v \in Workers, InIteration(v)', wk'[v].db = wait.db
                   PROVE  FALSE
        BY <1>5, Zenon DEF RoundsAreNew
      <4>1. v # w /\ Alive(v) /\ wk[v].db = wait.db
        BY <1>1, Zenon DEF InIteration, Alive
      <4> QED
        BY <3>2, <4>1, OneLiveWorker, Zenon DEF InIteration
    <3> QED
      BY <3>4, <3>5, Zenon DEF AtMostOneCounted, NextEpoch
  <2> QED
    BY <2>2, <2>3, Zenon
<1>10. wait.pc \in {"idle", "polling"} \/ f \/ u
  BY Zenon DEF WaitInv, f, u
<1> QED
  BY <1>5, <1>6, <1>7, <1>8, <1>9, <1>10, Zenon DEF WaitInv

\* What update_monitor_db does to the entries of the coordinator: nothing on the
\* segments and for PAUSE and RESUME, and only to the one of its database.
LEMMA UpdateOnCoord ==
    ASSUME NEW ns, NEW cmd, NEW d, UpdateMonitorDb(ns, cmd, d)
    PROVE  /\ Coord \notin ns \/ cmd \in Toggles =>
                 cached'[Coord] = cached[Coord] /\ epoch' = epoch
           /\ \A e : e # d => (e \in cached'[Coord] <=> e \in cached[Coord])
           /\ epoch' = epoch \/ epoch' = [epoch EXCEPT ![d] = 0]
<1>1. cached'[Coord] = IF Coord \in ns THEN InCache(cmd, cached[Coord], d) ELSE cached[Coord]
  BY Zenon DEF UpdateMonitorDb, Nodes
<1>2. \A e : e # d => (e \in InCache(cmd, cached[Coord], d) <=> e \in cached[Coord])
  BY Zenon DEF InCache
<1>3. cmd \in Toggles => InCache(cmd, cached[Coord], d) = cached[Coord] /\ cmd \notin Updates
  BY DEF InCache, Toggles, Updates
<1>4. epoch' = epoch \/ epoch' = [epoch EXCEPT ![d] = 0]
  BY Zenon DEF UpdateMonitorDb
<1>5. Coord \notin ns \/ cmd \notin Updates => epoch' = epoch
  BY Zenon DEF UpdateMonitorDb
<1> QED
  BY <1>1, <1>2, <1>3, <1>4, <1>5, Zenon

\* The launcher writes an entry: the wait for its database is excepted.
LEMMA WaitUpset ==
    ASSUME WaitInv, LauncherCoord
    PROVE  WaitInv'
<1>0. PICK c, d : c = Head(jobs).cmd /\ d = Head(jobs).db
  BY Zenon
<1>1. /\ UpdateMonitorDb({Coord}, c, d)
      /\ wait' = IF wait.db = d THEN [wait EXCEPT !.upset = TRUE] ELSE wait
  BY <1>0, Zenon DEF LauncherCoord
<1>2. wk' = wk
  BY Zenon DEF LauncherCoord
<1>4. /\ \A e : e # d => (e \in cached'[Coord] <=> e \in cached[Coord])
      /\ epoch' = epoch \/ epoch' = [epoch EXCEPT ![d] = 0]
  BY <1>1, UpdateOnCoord
<1>5. /\ DOMAIN epoch' = DBs
      /\ \A e \in DBs : epoch'[e] = epoch[e] \/ (e = d /\ epoch'[e] = 0)
  BY <1>4, Zenon DEF WaitInv
<1>6. \A e \in DBs : epoch'[e] \in 0..(EpochMod - 1)
  <2>1. 0 \in 0..(EpochMod - 1)
    BY MonitorAssumption
  <2> QED
    BY <1>5, <2>1, Zenon DEF WaitInv
<1>7. CASE wait.db = d
  <2>1. wait' = [pc |-> wait.pc, db |-> wait.db, epoch |-> wait.epoch, since |-> wait.since,
                 full |-> wait.full, upset |-> TRUE]
    BY <1>1, <1>7, WaitFields, Zenon DEF WaitInv
  <2>2. /\ wait'.pc = wait.pc /\ wait'.db = wait.db /\ wait'.epoch = wait.epoch
        /\ wait'.since = wait.since /\ wait'.full = wait.full /\ wait'.upset = TRUE
    BY <2>1
  <2>3. IsWait(wait)'
    BY <2>1, <2>2, Zenon DEF IsWait
  <2> QED
    BY <1>5, <1>6, <2>2, <2>3, Zenon DEF WaitInv
<1>8. CASE wait.db # d
  <2>1. wait' = wait
    BY <1>1, <1>8, Zenon
  <2>2. ASSUME wait.pc = "polling", AtMostOneCounted PROVE AtMostOneCounted'
    <3>1. wait.db \in DBs
      BY <2>2, Zenon DEF WaitInv
    <3>2. Epoch(wait.db)' = Epoch(wait.db)
      BY <1>4, <1>5, <1>8, <2>1, <3>1, Zenon DEF Epoch
    <3>3. RoundsAreNew => RoundsAreNew'
      BY <1>2, <2>1, Zenon DEF RoundsAreNew, InIteration, Alive
    <3> QED
      BY <2>1, <2>2, <3>2, <3>3, Zenon DEF AtMostOneCounted, NextEpoch
  <2> QED
    BY <1>5, <1>6, <2>1, <2>2, Zenon DEF WaitInv, IsWait
<1> QED
  BY <1>7, <1>8, Zenon

\* The session that waits: it starts with the epoch it reads, and does not end on
\* a difference of one.
LEMMA WaitSteps ==
    ASSUME WaitInv, (\E d \in DBs : WaitStart(d)) \/ WaitPoll \/ WaitEnd
    PROVE  WaitInv'
<1>1. UNCHANGED <<epoch, cached, wk>> /\ DOMAIN epoch = DBs /\ \A d \in DBs : epoch[d] \in 0..(EpochMod - 1)
  BY Zenon DEF WaitStart, WaitPoll, WaitEnd, cacheVars, WaitInv
<1>2. ASSUME NEW d \in DBs, WaitStart(d) PROVE WaitInv'
  <2>1. wait' = [NoWait EXCEPT !.pc = "polling", !.db = d, !.epoch = Epoch(d)]
    BY <1>2, Zenon DEF WaitStart
  <2>2. PICK e : e = Epoch(d)
    BY Zenon
  <2>3. wait' = [pc |-> "polling", db |-> d, epoch |-> e, since |-> {}, full |-> FALSE,
                 upset |-> FALSE]
    BY <2>1, <2>2, ZenonT(40) DEF NoWait
  <2>4. /\ wait'.pc = "polling" /\ wait'.db = d /\ wait'.epoch = e /\ wait'.since = {}
        /\ wait'.full = FALSE /\ wait'.upset = FALSE
    BY <2>3
  <2>5. IsWait(wait)'
    BY <2>3, <2>4, Zenon DEF IsWait
  <2>6. e \in 0..(EpochMod - 1)
    <3>1. 0 \in 0..(EpochMod - 1)
      BY MonitorAssumption
    <3> QED
      BY <1>1, <2>2, <3>1, Zenon DEF Epoch
  <2>7. AtMostOneCounted'
    BY <1>1, <2>2, <2>4, Zenon DEF AtMostOneCounted, Epoch
  <2> QED
    BY <1>1, <2>4, <2>5, <2>6, <2>7, Zenon DEF WaitInv
<1>3. CASE WaitPoll
  <2>1. /\ wait.pc = "polling" /\ NewEpoch(Epoch(wait.db), wait.epoch)
        /\ wait' = [wait EXCEPT !.pc = "done"]
    BY <1>3, Zenon DEF WaitPoll
  <2>2. wait' = [pc |-> "done", db |-> wait.db, epoch |-> wait.epoch, since |-> wait.since,
                 full |-> wait.full, upset |-> wait.upset]
    BY <2>1, WaitFields, Zenon DEF WaitInv
  <2>3. /\ wait'.pc = "done" /\ wait'.db = wait.db /\ wait'.epoch = wait.epoch
        /\ wait'.full = wait.full /\ wait'.upset = wait.upset
    BY <2>2
  <2>4. IsWait(wait)'
    BY <2>2, <2>3, Zenon DEF IsWait
  <2>5. wait.db \in DBs /\ wait.epoch \in 0..(EpochMod - 1)
    BY <2>1, Zenon DEF WaitInv
  <2>6. ~AtMostOneCounted
    <3>1. ~NewEpoch(wait.epoch, wait.epoch) /\ ~NewEpoch(NextEpoch(wait.epoch), wait.epoch)
      BY <2>5, EpochArithmetic, Zenon
    <3> QED
      BY <2>1, <3>1, Zenon DEF AtMostOneCounted
  <2>7. wait.full \/ wait.upset
    BY <2>1, <2>6, Zenon DEF WaitInv
  <2> QED
    BY <1>1, <2>3, <2>4, <2>5, <2>7, Zenon DEF WaitInv
<1>4. CASE WaitEnd
  <2>1. IsWait(wait)' /\ wait'.full = FALSE /\ wait'.upset = FALSE /\ wait'.pc = "idle"
    BY <1>4 DEF WaitEnd, NoWait, IsWait
  <2> QED
    BY <1>1, <2>1, Zenon DEF WaitInv
<1> QED
  BY <1>2, <1>3, <1>4, Zenon

\* No step leaves the invariant while each database has at most one slot.
LEMMA WaitNext == IndInv /\ SlotsInv /\ UniqueSlots /\ WaitInv /\ [Next]_vars => WaitInv'
<1> SUFFICES ASSUME IndInv, SlotsInv, UniqueSlots, WaitInv, [Next]_vars PROVE WaitInv'
  OBVIOUS
<1>1. ASSUME UNCHANGED <<wait, epoch, wk>>, cached'[Coord] = cached[Coord] PROVE WaitInv'
  <2>1. \A w \in Workers : InIteration(w)' => InIteration(w) /\ wk'[w].db = wk[w].db
    BY <1>1, Zenon DEF InIteration, Alive
  <2> QED
    BY <1>1, <2>1, WaitFrame, Zenon
<1>2. Coord \notin Segs
  BY MonitorAssumption
<1>3. ASSUME \/ \E d \in DBs : Create(d) \/ SetReady(d)
             \/ LauncherError \/ Restart \/ UNCHANGED vars
      PROVE  WaitInv'
  <2>1. UNCHANGED <<wait, epoch, wk, cached>>
    BY <1>3, Zenon DEF Create, SetReady, LauncherError, Restart, vars, cacheVars
  <2> QED
    BY <1>1, <2>1, Zenon
<1>4. CASE LauncherSegs
  <2>1. PICK ns \in SUBSET Segs : UpdateMonitorDb(ns, Head(jobs).cmd, Head(jobs).db)
    BY <1>4, Zenon DEF LauncherSegs
  <2>2. cached'[Coord] = cached[Coord] /\ epoch' = epoch
    BY <1>2, <2>1, UpdateOnCoord, SMTT(20)
  <2>3. UNCHANGED <<wait, wk>>
    BY <1>4, Zenon DEF LauncherSegs
  <2> QED
    BY <1>1, <2>2, <2>3, Zenon
<1>5. ASSUME NEW s \in Sessions, NEW d \in DBs, NEW cmd \in Toggles, ToggleSegs(s, d, cmd)
      PROVE  WaitInv'
  <2>1. PICK ns \in SUBSET Segs : UpdateMonitorDb(ns, cmd, d)
    BY <1>5, Zenon DEF ToggleSegs
  <2>2. cached'[Coord] = cached[Coord] /\ epoch' = epoch
    BY <2>1, UpdateOnCoord, Zenon
  <2>3. UNCHANGED <<wait, wk>>
    BY <1>5, Zenon DEF ToggleSegs
  <2> QED
    BY <1>1, <2>2, <2>3, Zenon
<1>6. ASSUME NEW s \in Sessions, ToggleCoord(s) PROVE WaitInv'
  <2>1. UpdateMonitorDb({Coord}, ses[s].cmd, ses[s].db) /\ ses[s].cmd \in Toggles
    BY <1>6, Zenon DEF ToggleCoord, IndInv, Typed, IsSession
  <2>2. cached'[Coord] = cached[Coord] /\ epoch' = epoch
    BY <2>1, UpdateOnCoord, Zenon
  <2>3. UNCHANGED <<wait, wk>>
    BY <1>6, Zenon DEF ToggleCoord
  <2> QED
    BY <1>1, <2>2, <2>3, Zenon
<1>7. ASSUME NEW n \in Segs, Failover(n) PROVE WaitInv'
  <2>1. UNCHANGED <<wait, wk, epoch>> /\ cached' = [cached EXCEPT ![n] = {}]
    BY <1>7, Zenon DEF Failover
  <2>2. cached'[Coord] = cached[Coord]
    BY <1>2, <2>1, Zenon DEF IndInv, Typed, Nodes
  <2> QED
    BY <1>1, <2>1, <2>2, Zenon
<1>8. ASSUME NEW d \in DBs, Drop(d) PROVE WaitInv'
  <2>1. UNCHANGED <<wait, epoch, cached>>
    BY <1>8, Zenon DEF Drop, cacheVars
  <2>2. \A w \in Workers : /\ wk'[w].pc = wk[w].pc /\ wk'[w].db = wk[w].db
                           /\ ~wk'[w].term => ~wk[w].term
    BY <1>8, DropMoves, Zenon
  <2>3. \A w \in Workers : InIteration(w)' => InIteration(w) /\ wk'[w].db = wk[w].db
    BY <2>2, Zenon DEF InIteration, Alive
  <2> QED
    BY <2>1, <2>3, WaitFrame, Zenon
<1>9. ASSUME NEW i \in Slots, StartWorker(i) PROVE WaitInv'
  <2>1. UNCHANGED <<wait, epoch, cached>>
    BY <1>9, Zenon DEF StartWorker, cacheVars
  <2>2. PICK w \in Workers : wk' = [wk EXCEPT ![w] = [pc |-> "ready", db |-> dbid[i], slot |-> i,
                                                      term |-> FALSE, told |-> FALSE]]
    BY <1>9, Zenon DEF StartWorker
  <2>3. /\ wk'[w].pc = "ready" /\ \A v \in Workers \ {w} : wk'[v] = wk[v]
    BY <2>2, Zenon DEF IndInv, Typed
  <2>4. \A v \in Workers : InIteration(v)' => InIteration(v) /\ wk'[v].db = wk[v].db
    BY <2>3, Zenon DEF InIteration, Alive
  <2> QED
    BY <2>1, <2>4, WaitFrame, Zenon
<1>10. ASSUME NEW w \in Workers, ReadyLoop(w) \/ CheckReady(w) \/ MarkRunning(w) PROVE WaitInv'
  <2>1. UNCHANGED <<wait, epoch, cached>> /\ wk[w].pc \notin {"round", "top"}
    BY <1>10, Zenon DEF ReadyLoop, CheckReady, MarkRunning, cacheVars
  <2>2. /\ \A v \in Workers \ {w} : wk'[v] = wk[v]
        /\ wk'[w].pc \in {"round", "count"} => Round(w) \/ LoopTop(w)
    BY <1>10, WorkerMoves, Zenon
  <2>3. wk'[w].pc \notin {"round", "count"}
    BY <2>1, <2>2, Zenon DEF Round, LoopTop
  <2>4. \A v \in Workers : InIteration(v)' => InIteration(v) /\ wk'[v].db = wk[v].db
    BY <2>2, <2>3, Zenon DEF InIteration, Alive
  <2> QED
    BY <2>1, <2>4, WaitFrame, Zenon
<1>11. ASSUME NEW w \in Workers, Round(w) PROVE WaitInv'
  <2>1. UNCHANGED <<wait, epoch>> /\ wk[w].pc = "round"
    BY <1>11, Zenon DEF Round
  <2>2. cached'[Coord] = cached[Coord]
    BY <1>2, <1>11, Zenon DEF Round, RefreshCache, Nodes
  <2>3. /\ \A v \in Workers \ {w} : wk'[v] = wk[v]
        /\ SameProcess(w) \/ wk'[w].pc = "none"
    BY <1>11, WorkerMoves, Zenon
  <2>4. \A v \in Workers : InIteration(v)' => InIteration(v) /\ wk'[v].db = wk[v].db
    BY <2>1, <2>3, Zenon DEF InIteration, Alive, SameProcess
  <2> QED
    BY <2>1, <2>2, <2>4, WaitFrame, Zenon
<1>12. ASSUME NEW w \in Workers, CheckReadyCrash(w) PROVE WaitInv'
  <2>1. wait' = NoWait /\ epoch' = [d \in DBs |-> 0]
    BY <1>12, Zenon DEF CheckReadyCrash, PostmasterReset
  <2>2. IsWait(wait)' /\ wait'.full = FALSE /\ wait'.upset = FALSE /\ wait'.pc = "idle"
    BY <2>1 DEF NoWait, IsWait
  <2>3. DOMAIN epoch' = DBs /\ \A d \in DBs : epoch'[d] \in 0..(EpochMod - 1)
    BY <2>1, MonitorAssumption
  <2> QED
    BY <2>2, <2>3, Zenon DEF WaitInv
<1> QED
  BY <1>3, <1>4, <1>5, <1>6, <1>7, <1>8, <1>9, <1>10, <1>11, <1>12, WaitLoopTop, WaitCount,
     WaitUpset, WaitSteps, Zenon DEF Next, WorkerStep

\* wait_for_worker_new_epoch returns only after an iteration that has begun and
\* ended during the call, as long as no database gets a second slot.
THEOREM NewEpochMeansFullRound == Spec /\ []UniqueSlots => []WaitSeesFullRound
<1> DEFINE Inv == IndInv /\ SlotsInv /\ WaitInv
<1>1. Init => Inv
  BY InitIndInv, InitSlotsInv, InitWaitInv, Zenon
<1>2. Inv /\ UniqueSlots /\ [Next]_vars => Inv'
  BY Step, SlotsNext, WaitNext, Zenon
<1>3. Inv => WaitSeesFullRound
  <2> SUFFICES ASSUME WaitInv, wait.pc = "done" PROVE wait.full \/ wait.upset
    BY Zenon DEF WaitSeesFullRound
  <2>1. wait.pc \notin {"idle", "polling"}
    OBVIOUS
  <2> QED
    BY <2>1, Zenon DEF WaitInv
<1> QED
  BY <1>1, <1>2, <1>3, PTL DEF Spec
=============================================================================
