-------------------------- MODULE RejectMapProofs --------------------------
(***************************************************************************)
(* Proofs, for any tables, segments and bounds, that the hard limit blocks *)
(* a table as a whole, that it blocks only what the coordinator rejects,   *)
(* and that DROP EXTENSION sweeps the reject maps.                         *)
(***************************************************************************)
EXTENDS RejectMap, TLAPS

(***************************************************************************)
(* BlockedAsAWhole is not inductive: what the segments will put into their *)
(* maps is still in local_rejectmap (call), and comes from relation_cache. *)
(* The strengthening says that both parts of a table that exists are       *)
(* together in each of these, and that no file is newer than its table, so *)
(* that a table with new files starts unblocked.                           *)
(***************************************************************************)

IsCall(c) == /\ c = [on |-> c.on, rows |-> c.rows, todo |-> c.todo,
                     files |-> c.files]
             /\ c.files \subseteq Tables \X Parts \X Nat

IsCalls(f) == f = [n \in Segs |-> f[n]] /\ \A n \in Segs : IsCall(f[n])

Typed ==
    /\ state \in [Tables -> {"none", "open", "live", "gone"}]
    /\ ver \in [Tables -> Nat]
    /\ uncommitted \in [Segs -> SUBSET (Tables \X Parts)]
    /\ blocked \in [Segs -> SUBSET (Tables \X Parts \X Nat)]
    /\ IsCalls(call)

\* a set of files holds both parts of a table's present files, or none
Whole(files, t) ==
    <<t, "main", ver[t]>> \in files <=> <<t, "aux", ver[t]>> \in files

NotNewer(files) == \A t \in Tables, p \in Parts, v \in Nat :
                       <<t, p, v>> \in files => v <= ver[t]

Paired ==
    \A n \in Segs :
        /\ NotNewer(blocked[n]) /\ NotNewer(call[n].files)
        /\ \A t \in Tables :
             /\ state[t] = "open" => \A p \in Parts : <<t, p>> \in uncommitted[n]
             /\ state[t] \in {"open", "live"} =>
                    Whole(blocked[n], t) /\ Whole(call[n].files, t)

IndInv == Typed /\ Paired

\* What a segment blocks for an active table that exists is the whole table,
\* whether refresh_rejectmap finds it in the catalog or in relation_cache.
LEMMA BlockedFilesWhole ==
    ASSUME IndInv, NEW n \in Segs, NEW t \in Tables, NEW rows
    PROVE  /\ BlockedFiles(n, t, rows) \subseteq Tables \X Parts \X Nat
           /\ \A u \in Tables, p \in Parts, v \in Nat :
                <<u, p, v>> \in BlockedFiles(n, t, rows) => u = t /\ v = ver[t]
           /\ state[t] \in {"open", "live"} => Whole(BlockedFiles(n, t, rows), t)
<1>1. ver[t] \in Nat
  BY DEF IndInv, Typed
<1>2. BlockedFiles(n, t, rows) \in SUBSET {<<t, p, ver[t]>> : p \in Parts}
  BY DEF BlockedFiles, Files
<1>3. ASSUME state[t] \in {"open", "live"}
      PROVE  Whole(BlockedFiles(n, t, rows), t)
  <2>1. CASE SearchKeys(t) \cap rows = {}
    BY <2>1 DEF Whole, BlockedFiles
  <2>2. CASE SearchKeys(t) \cap rows # {} /\ state[t] = "live"
    BY <2>2 DEF Whole, BlockedFiles, Files, Parts
  <2>3. CASE SearchKeys(t) \cap rows # {} /\ state[t] = "open"
    <3>1. \A p \in Parts : <<t, p>> \in uncommitted[n]
      BY <2>3 DEF IndInv, Paired
    <3> QED
      BY <2>3, <3>1 DEF Whole, BlockedFiles, Parts
  <2> QED
    BY <1>3, <2>1, <2>2, <2>3
<1> QED
  BY <1>1, <1>2, <1>3

\* The invariant holds when the worker starts.
LEMMA PairedInit == Init => IndInv
<1> SUFFICES ASSUME Init PROVE IndInv
  OBVIOUS
<1>1. IsCall(NoCall)
  BY DEF NoCall, IsCall
<1>2. Typed
  BY <1>1 DEF Init, Typed, IsCalls
<1>3. Paired
  BY DEF Init, Paired, NotNewer, Whole, NoCall
<1> QED
  BY <1>2, <1>3 DEF IndInv

\* Steps that touch neither the files, nor the maps of the segments, nor the
\* calls: those of the worker between its dispatches and most of the drop.
LEMMA PairedFrame ==
    IndInv /\ UNCHANGED <<state, ver, uncommitted, blocked, call>> => IndInv'
BY DEF IndInv, Typed, Paired, NotNewer, Whole

\* A table that is created or gets new files starts with none of them blocked.
LEMMA PairedNewFiles ==
    ASSUME IndInv, NEW t \in Tables, CreateTable(t) \/ Rewrite(t)
    PROVE  IndInv'
<1>1. /\ ver' = [ver EXCEPT ![t] = @ + 1]
      /\ blocked' = blocked /\ call' = call
  BY DEF CreateTable, Rewrite, mapVars
<1>2. /\ state' \in [Tables -> {"none", "open", "live", "gone"}]
      /\ \A u \in Tables : u # t => state'[u] = state[u]
  BY DEF CreateTable, Rewrite, IndInv, Typed
<1>3. /\ uncommitted' \in [Segs -> SUBSET (Tables \X Parts)]
      /\ \A n \in Segs : uncommitted[n] \subseteq uncommitted'[n]
      /\ state'[t] = "open" =>
             \A n \in Segs, p \in Parts : <<t, p>> \in uncommitted'[n]
  <2>1. CASE CreateTable(t)
    <3>1. uncommitted' = [n \in Segs |-> uncommitted[n] \cup ({t} \X Parts)]
      BY <2>1 DEF CreateTable
    <3>2. {t} \X Parts \subseteq Tables \X Parts
      OBVIOUS
    <3>3. \A n \in Segs : uncommitted[n] \subseteq Tables \X Parts
      BY DEF IndInv, Typed
    <3> QED
      BY <3>1, <3>2, <3>3
  <2>2. CASE Rewrite(t)
    BY <2>2 DEF Rewrite, IndInv, Typed
  <2> QED
    BY <2>1, <2>2
<1>4. Typed'
  <2>1. ver' \in [Tables -> Nat]
    BY <1>1 DEF IndInv, Typed
  <2>2. blocked' \in [Segs -> SUBSET (Tables \X Parts \X Nat)] /\ IsCalls(call')
    BY <1>1 DEF IndInv, Typed
  <2> QED
    BY <1>2, <1>3, <2>1, <2>2 DEF Typed, IsCalls
<1>5. ASSUME NEW n \in Segs, NEW f, f \in {blocked[n], call[n].files}
      PROVE  NotNewer(f)' /\ \A u \in Tables :
               state'[u] \in {"open", "live"} => Whole(f, u)'
  <2>1. NotNewer(f) /\ \A u \in Tables :
          state[u] \in {"open", "live"} => Whole(f, u)
    BY <1>5 DEF IndInv, Paired
  <2>2. /\ ver[t] \in Nat /\ ver'[t] = ver[t] + 1
        /\ \A u \in Tables : u # t => ver'[u] = ver[u]
        /\ \A u \in Tables : ver[u] \in Nat /\ ver[u] <= ver'[u]
    BY <1>1 DEF IndInv, Typed
  <2>3. NotNewer(f)'
    BY <2>1, <2>2 DEF NotNewer
  <2>4. \A p \in Parts : <<t, p, ver'[t]>> \notin f
    BY <2>1, <2>2 DEF NotNewer
  <2>5. ASSUME NEW u \in Tables, state'[u] \in {"open", "live"}
        PROVE  Whole(f, u)'
    BY <1>2, <2>1, <2>2, <2>4, <2>5 DEF Whole, Parts
  <2> QED
    BY <2>3, <2>5
<1>6. Paired'
  BY <1>1, <1>2, <1>3, <1>5 DEF IndInv, Paired
<1> QED
  BY <1>4, <1>6 DEF IndInv

\* Steps after which a table is no more open than before, and no map changes:
\* commit, abort, drop, unlink and the end of a collection.
LEMMA PairedLess ==
    ASSUME IndInv,
           UNCHANGED <<ver, blocked, call>>,
           state' \in [Tables -> {"none", "open", "live", "gone"}],
           uncommitted' \in [Segs -> SUBSET (Tables \X Parts)],
           \A t \in Tables : state'[t] = "open" => state[t] = "open",
           \A t \in Tables : state'[t] = "live" => state[t] \in {"open", "live"},
           \A n \in Segs, t \in Tables, p \in Parts :
             state'[t] = "open" /\ <<t, p>> \in uncommitted[n]
               => <<t, p>> \in uncommitted'[n]
    PROVE  IndInv'
<1>1. Typed'
  BY DEF IndInv, Typed
<1>2. Paired'
  BY DEF IndInv, Paired, NotNewer, Whole
<1> QED
  BY <1>1, <1>2 DEF IndInv

\* Steps that change what one segment, or each, has in its map or its call.
LEMMA PairedMaps ==
    ASSUME IndInv,
           UNCHANGED <<state, ver, uncommitted>>,
           blocked' \in [Segs -> SUBSET (Tables \X Parts \X Nat)],
           IsCalls(call'),
           \A n \in Segs :
             /\ NotNewer(blocked'[n]) /\ NotNewer(call'[n].files)
             /\ \A t \in Tables : state[t] \in {"open", "live"} =>
                    Whole(blocked'[n], t) /\ Whole(call'[n].files, t)
    PROVE  IndInv'
<1>1. Typed'
  BY DEF IndInv, Typed
<1>2. Paired'
  BY DEF IndInv, Paired, NotNewer, Whole
<1> QED
  BY <1>1, <1>2 DEF IndInv

\* A segment adds the files of one active table to local_rejectmap.
LEMMA PairedExpand ==
    ASSUME IndInv, NEW n \in Segs, NEW t \in Tables, Expand(n, t)
    PROVE  IndInv'
<1> DEFINE F == BlockedFiles(n, t, call[n].rows)
<1>1. /\ F \subseteq Tables \X Parts \X Nat
      /\ \A u \in Tables, p \in Parts, v \in Nat :
            <<u, p, v>> \in F => u = t /\ v = ver[t]
      /\ state[t] \in {"open", "live"} => Whole(F, t)
  BY BlockedFilesWhole
<1> HIDE DEF F
<1>2. /\ UNCHANGED <<state, ver, uncommitted, blocked>>
      /\ call' = [call EXCEPT ![n].todo = @ \ {t}, ![n].files = @ \cup F]
  BY DEF Expand, catVars, mapVars, F
<1>3. IsCall(call[n])
  BY DEF IndInv, Typed, IsCalls
<1>4. call'[n] = [call[n] EXCEPT !.todo = @ \ {t}, !.files = @ \cup F]
  BY <1>2 DEF IndInv, Typed, IsCalls
<1>5. /\ IsCall(call'[n])
      /\ call'[n].files = call[n].files \cup F
  BY <1>1, <1>3, <1>4 DEF IsCall
<1>6. \A m \in Segs : m # n => call'[m] = call[m]
  BY <1>2 DEF IndInv, Typed, IsCalls
<1>7. IsCalls(call')
  BY <1>2, <1>5, <1>6 DEF IndInv, Typed, IsCalls
<1>8. /\ NotNewer(call[n].files)
      /\ \A u \in Tables : /\ ver[u] \in Nat
                           /\ state[u] \in {"open", "live"}
                                => Whole(call[n].files, u)
  BY DEF IndInv, Paired, Typed
<1>9. NotNewer(call'[n].files)
  BY <1>1, <1>5, <1>8 DEF NotNewer
<1>10. ASSUME NEW u \in Tables, state[u] \in {"open", "live"}
       PROVE  Whole(call'[n].files, u)
  <2>1. CASE u = t
    BY <1>1, <1>5, <1>8, <1>10, <2>1 DEF Whole
  <2>2. CASE u # t
    <3>1. \A p \in Parts : <<u, p, ver[u]>> \notin F
      BY <1>1, <1>8, <2>2
    <3> QED
      BY <1>5, <1>8, <1>10, <3>1 DEF Whole, Parts
  <2> QED
    BY <2>1, <2>2
<1>11. \A m \in Segs :
         /\ NotNewer(blocked'[m]) /\ NotNewer(call'[m].files)
         /\ \A u \in Tables : state[u] \in {"open", "live"} =>
                Whole(blocked'[m], u) /\ Whole(call'[m].files, u)
  BY <1>2, <1>6, <1>9, <1>10 DEF IndInv, Paired
<1>12. blocked' \in [Segs -> SUBSET (Tables \X Parts \X Nat)]
  BY <1>2 DEF IndInv, Typed
<1> QED
  BY <1>2, <1>7, <1>11, <1>12, PairedMaps

\* The empty call is a call.
LEMMA NoCallIsCall == IsCall(NoCall) /\ NoCall.files = {}
BY DEF NoCall, IsCall

\* Steps after which each map and each call has what one of them had before,
\* or nothing: the end of a call, and the clearing of a map.
LEMMA PairedFrom ==
    ASSUME IndInv,
           UNCHANGED <<state, ver, uncommitted>>,
           blocked' \in [Segs -> SUBSET (Tables \X Parts \X Nat)],
           IsCalls(call'),
           \A n \in Segs : blocked'[n] \in {{}, blocked[n], call[n].files},
           \A n \in Segs : call'[n].files \in {{}, call[n].files}
    PROVE  IndInv'
<1>1. ASSUME NEW n \in Segs, NEW f, f \in {{}, blocked[n], call[n].files}
      PROVE  NotNewer(f) /\ \A t \in Tables :
               state[t] \in {"open", "live"} => Whole(f, t)
  <2>1. CASE f = {}
    BY <2>1 DEF NotNewer, Whole
  <2>2. CASE f \in {blocked[n], call[n].files}
    BY <2>2 DEF IndInv, Paired
  <2> QED
    BY <1>1, <2>1, <2>2
<1>2. \A n \in Segs :
        /\ NotNewer(blocked'[n]) /\ NotNewer(call'[n].files)
        /\ \A t \in Tables : state[t] \in {"open", "live"} =>
               Whole(blocked'[n], t) /\ Whole(call'[n].files, t)
  BY <1>1
<1> QED
  BY <1>2, PairedMaps

\* Every step keeps both parts of every table together.
LEMMA PairedNext == IndInv /\ [Next]_vars => IndInv'
<1> SUFFICES ASSUME IndInv, [Next]_vars PROVE IndInv'
  OBVIOUS
<1> USE DEF catVars, mapVars, workerVars, dropVars, history
<1>1. ASSUME NEW t \in Tables, TableStep(t) PROVE IndInv'
  <2>1. CASE CreateTable(t) \/ Rewrite(t)
    BY <2>1, PairedNewFiles
  <2>2. CASE Commit(t) \/ Abandon(t)
    <3>1. /\ state' \in [Tables -> {"none", "open", "live", "gone"}]
          /\ \A u \in Tables : u # t => state'[u] = state[u]
          /\ state[t] \in {"open", "live"} /\ state'[t] # "open"
          /\ UNCHANGED <<ver, blocked, call, uncommitted>>
      BY <2>2 DEF Commit, Abandon, IndInv, Typed
    <3>2. uncommitted' \in [Segs -> SUBSET (Tables \X Parts)]
      BY <3>1 DEF IndInv, Typed
    <3> QED
      BY <3>1, <3>2, PairedLess
  <2>3. ASSUME NEW n \in Segs, NEW p \in Parts, Unlink(n, t, p) PROVE IndInv'
    <3>1. /\ state[t] = "gone"
          /\ uncommitted' = [uncommitted EXCEPT ![n] = @ \ {<<t, p>>}]
          /\ UNCHANGED <<state, ver, blocked, call>>
      BY <2>3 DEF Unlink
    <3>2. /\ uncommitted' \in [Segs -> SUBSET (Tables \X Parts)]
          /\ \A m \in Segs, u \in Tables, q \in Parts :
               u # t /\ <<u, q>> \in uncommitted[m] => <<u, q>> \in uncommitted'[m]
      BY <3>1 DEF IndInv, Typed
    <3>3. state' \in [Tables -> {"none", "open", "live", "gone"}]
      BY <3>1 DEF IndInv, Typed
    <3> QED
      BY <3>1, <3>2, <3>3, PairedLess
  <2>4. ASSUME NEW r \in Roles, ChangeOwner(t, r) PROVE IndInv'
    BY <2>4, PairedFrame DEF ChangeOwner
  <2> QED
    BY <1>1, <2>1, <2>2, <2>3, <2>4 DEF TableStep
<1>2. ASSUME NEW t \in Tables, NEW n \in Segs, Extend(n, t) PROVE IndInv'
  BY <1>2, PairedFrame DEF Extend
<1>3. ASSUME NEW k \in Keys, ChangeOver(k) PROVE IndInv'
  BY <1>3, PairedFrame DEF ChangeOver
<1>4. CASE ChangeHardLimit
  BY <1>4, PairedFrame DEF ChangeHardLimit
<1>5. CASE Collect
  <2>1. UNCHANGED <<state, ver, blocked, call>>
    BY <1>5 DEF Collect
  <2>2. /\ uncommitted' \in [Segs -> SUBSET (Tables \X Parts)]
        /\ \A n \in Segs, t \in Tables, p \in Parts :
             state[t] # "live" /\ <<t, p>> \in uncommitted[n]
               => <<t, p>> \in uncommitted'[n]
    <3>1. CASE UNCHANGED uncommitted
      BY <3>1 DEF IndInv, Typed
    <3>2. ASSUME NEW ns \in SUBSET Segs,
                 uncommitted' = [n \in Segs |->
                    IF n \in ns
                    THEN {e \in uncommitted[n] :
                            state[e[1]] # "live" \/ e[1] \notin Resolved(n)}
                    ELSE uncommitted[n]]
          PROVE  /\ uncommitted' \in [Segs -> SUBSET (Tables \X Parts)]
                 /\ \A n \in Segs, t \in Tables, p \in Parts :
                      state[t] # "live" /\ <<t, p>> \in uncommitted[n]
                        => <<t, p>> \in uncommitted'[n]
      BY <3>2 DEF IndInv, Typed
    <3> QED
      BY <1>5, <3>1, <3>2 DEF Collect
  <2>3. state' \in [Tables -> {"none", "open", "live", "gone"}]
    BY <2>1 DEF IndInv, Typed
  <2> QED
    BY <2>1, <2>2, <2>3, PairedLess
<1>6. CASE Flush \/ RoundFails \/ EndRound \/ Exit
  BY <1>6, PairedFrame DEF Flush, RoundFails, EndRound, Exit
<1>7. CASE Dispatch
  <2>1. CASE UNCHANGED call
    BY <1>7, <2>1, PairedFrame DEF Dispatch
  <2>2. CASE call' = [n \in Segs |-> [on |-> TRUE, rows |-> rejected,
                                     todo |-> active, files |-> {}]]
    <3>1. UNCHANGED <<state, ver, uncommitted, blocked>>
      BY <1>7 DEF Dispatch
    <3>2. IsCalls(call') /\ \A n \in Segs : call'[n].files = {}
      BY <2>2 DEF IsCalls, IsCall
    <3> QED
      BY <3>1, <3>2, PairedFrom DEF IndInv, Typed
  <2> QED
    BY <1>7, <2>1, <2>2 DEF Dispatch
<1>8. ASSUME NEW n \in Segs, SegStep(n) PROVE IndInv'
  <2>1. ASSUME NEW t \in Tables, Expand(n, t) PROVE IndInv'
    BY <2>1, PairedExpand
  <2>2. CASE Replace(n)
    <3>1. /\ UNCHANGED <<state, ver, uncommitted>>
          /\ blocked' = [blocked EXCEPT ![n] = call[n].files]
          /\ call' = [call EXCEPT ![n] = NoCall]
      BY <2>2 DEF Replace
    <3>2. /\ IsCalls(call')
          /\ \A m \in Segs : call'[m].files \in {{}, call[m].files}
      BY <3>1, NoCallIsCall DEF IndInv, Typed, IsCalls, NoCall
    <3>3. blocked' \in [Segs -> SUBSET (Tables \X Parts \X Nat)]
      BY <3>1 DEF IndInv, Typed, IsCalls, IsCall
    <3>4. \A m \in Segs : blocked'[m] \in {blocked[m], call[m].files}
      BY <3>1 DEF IndInv, Typed
    <3> QED
      BY <3>1, <3>2, <3>3, <3>4, PairedFrom
  <2> QED
    BY <1>8, <2>1, <2>2 DEF SegStep
<1>9. ASSUME NEW n \in Segs, CallFails(n) PROVE IndInv'
  <2>1. /\ UNCHANGED <<state, ver, uncommitted, blocked>>
        /\ call' = [call EXCEPT ![n] = NoCall]
    BY <1>9 DEF CallFails
  <2>2. /\ IsCalls(call')
        /\ \A m \in Segs : call'[m].files \in {{}, call[m].files}
    BY <2>1, NoCallIsCall DEF IndInv, Typed, IsCalls, NoCall
  <2>3. blocked' \in [Segs -> SUBSET (Tables \X Parts \X Nat)]
    BY <2>1 DEF IndInv, Typed
  <2> QED
    BY <2>1, <2>2, <2>3, PairedFrom
<1>10. ASSUME NEW n \in Segs, SegmentReset(n) PROVE IndInv'
  <2>1. /\ state' = [t \in Tables |-> IF state[t] = "open" THEN "gone" ELSE state[t]]
        /\ uncommitted' = [uncommitted EXCEPT ![n] = {}]
        /\ blocked' = [blocked EXCEPT ![n] = {}]
        /\ call' = [call EXCEPT ![n] = NoCall]
        /\ ver' = ver
    BY <1>10 DEF SegmentReset
  <2>2. /\ state' \in [Tables -> {"none", "open", "live", "gone"}]
        /\ \A t \in Tables : /\ state'[t] # "open"
                             /\ state'[t] = "live" => state[t] = "live"
    BY <2>1 DEF IndInv, Typed
  <2>3. uncommitted' \in [Segs -> SUBSET (Tables \X Parts)]
    BY <2>1 DEF IndInv, Typed
  <2>4. /\ blocked' \in [Segs -> SUBSET (Tables \X Parts \X Nat)]
        /\ \A m \in Segs : blocked'[m] \in {{}, blocked[m]}
    BY <2>1 DEF IndInv, Typed
  <2>5. IsCalls(call') /\ \A m \in Segs : call'[m].files \in {{}, call[m].files}
    BY <2>1, NoCallIsCall DEF IndInv, Typed, IsCalls
  <2>6. Typed'
    BY <2>1, <2>2, <2>3, <2>4, <2>5 DEF IndInv, Typed
  <2>7. ASSUME NEW m \in Segs, NEW f, f \in {{}, blocked[m], call[m].files}
        PROVE  NotNewer(f)' /\ \A t \in Tables :
                 state'[t] \in {"open", "live"} => Whole(f, t)'
    <3>1. CASE f = {}
      BY <3>1 DEF NotNewer, Whole
    <3>2. CASE f \in {blocked[m], call[m].files}
      BY <2>1, <2>2, <3>2 DEF IndInv, Paired, NotNewer, Whole
    <3> QED
      BY <2>7, <3>1, <3>2
  <2>8. Paired'
    BY <2>2, <2>4, <2>5, <2>7 DEF Paired
  <2> QED
    BY <2>6, <2>8 DEF IndInv
<1>11. ASSUME NEW n \in Segs, InvalidateSeg(n) PROVE IndInv'
  <2>1. /\ UNCHANGED <<state, ver, uncommitted, call>>
        /\ blocked' = [blocked EXCEPT ![n] = {}]
    BY <1>11 DEF InvalidateSeg, Invalidated
  <2>2. /\ blocked' \in [Segs -> SUBSET (Tables \X Parts \X Nat)]
        /\ \A m \in Segs : blocked'[m] \in {{}, blocked[m]}
    BY <2>1 DEF IndInv, Typed
  <2> QED
    BY <2>1, <2>2, PairedFrom DEF IndInv, Typed
<1>12. CASE DropAsks \/ LauncherStops \/ DropCommits
  BY <1>12, PairedFrame DEF DropAsks, LauncherStops, DropCommits
<1>13. CASE UNCHANGED vars
  BY <1>13, PairedFrame DEF vars
<1> QED
  BY <1>1, <1>2, <1>3, <1>4, <1>5, <1>6, <1>7, <1>8, <1>9, <1>10, <1>11,
     <1>12, <1>13 DEF Next, WorkerStep, SegFault, DropStep

\* The hard limit blocks tables as a whole (refresh_rejectmap): in every
\* reachable state, and for any number of tables, segments, rewrites and
\* faults, the main and the auxiliary files of a table are refused together.
THEOREM BlockedAsAWholeAlways == Spec => []BlockedAsAWhole
<1>1. IndInv => BlockedAsAWhole
  BY DEF IndInv, Paired, BlockedAsAWhole, Refused, Whole
<1> QED
  BY <1>1, PairedInit, PairedNext, PTL DEF Spec

(***************************************************************************)
(* What DROP EXTENSION has cleared stays clear, unless a round ends late.  *)
(***************************************************************************)

Swept ==
    /\ blocked = [n \in Segs |-> blocked[n]]
    /\ swept \subseteq Segs
    /\ ~late => \A n \in swept : blocked[n] = {}
    /\ ext \in {"stopped", "dropped"} => stop
    /\ ext = "dropped" => swept = Segs
    /\ stop /\ ~late => rejected = {}

\* DROP EXTENSION leaves no entry in the map of the coordinator or of any
\* segment (invalidate_database_rejectmap), for any number of them, unless
\* the stopped worker wrote to one after it was cleared.
THEOREM DropSweepsMapsAlways == Spec => []DropSweepsMaps
<1> USE DEF catVars, mapVars, workerVars, dropVars, history
<1>1. Init => Swept
  BY DEF Init, Swept
<1>2. ASSUME Swept, [Next]_vars PROVE Swept'
  <2>1. CASE UNCHANGED <<blocked, swept, late, ext, stop, rejected>>
    BY <1>2, <2>1 DEF Swept
  <2>2. ASSUME NEW t \in Tables, TableStep(t) PROVE Swept'
    BY <2>1, <2>2 DEF TableStep, CreateTable, Commit, Abandon, Rewrite, Unlink,
       ChangeOwner
  <2>3. CASE (\E t \in Tables, n \in Segs : Extend(n, t))
             \/ (\E k \in Keys : ChangeOver(k)) \/ ChangeHardLimit
    BY <2>1, <2>3 DEF Extend, ChangeOver, ChangeHardLimit
  <2>4. CASE Collect \/ RoundFails \/ Dispatch \/ EndRound \/ Exit
    BY <2>1, <2>4 DEF Collect, RoundFails, Dispatch, EndRound, Exit
  <2>5. CASE Flush
    BY <1>2, <2>5 DEF Flush, Swept
  <2>6. ASSUME NEW n \in Segs, SegStep(n) \/ SegFault(n) PROVE Swept'
    <3>1. CASE Replace(n)
      BY <1>2, <3>1 DEF Replace, Swept
    <3>2. CASE (\E t \in Tables : Expand(n, t)) \/ CallFails(n)
      BY <2>1, <3>2 DEF Expand, CallFails
    <3>3. CASE SegmentReset(n)
      BY <1>2, <3>3 DEF SegmentReset, Swept
    <3> QED
      BY <2>6, <3>1, <3>2, <3>3 DEF SegStep, SegFault
  <2>7. CASE DropAsks
    BY <1>2, <2>7 DEF DropAsks, Swept
  <2>8. CASE LauncherStops
    BY <1>2, <2>8 DEF LauncherStops, Swept
  <2>9. CASE DropCommits
    BY <1>2, <2>9 DEF DropCommits, Swept
  <2>10. ASSUME NEW n \in Segs, InvalidateSeg(n) PROVE Swept'
    BY <1>2, <2>10 DEF InvalidateSeg, Invalidated, Swept
  <2>11. CASE UNCHANGED vars
    BY <2>1, <2>11 DEF vars
  <2> QED
    BY <1>2, <2>2, <2>3, <2>4, <2>5, <2>6, <2>7, <2>8, <2>9, <2>10, <2>11
       DEF Next, WorkerStep, DropStep
<1>3. Swept => DropSweepsMaps
  BY DEF Swept, DropSweepsMaps
<1> QED
  BY <1>1, <1>2, <1>3, PTL DEF Spec

(***************************************************************************)
(* BlockedOnlyIfRejected, between rounds.  Within a round the rows of a    *)
(* call are the coordinator's map, because the worker waits for the calls  *)
(* before it flushes again; a flush that changed the map is followed by a  *)
(* dispatch, or by none of the segments being in step with it.             *)
(***************************************************************************)
Justified(files, t) ==
    <<t, "main", ver[t]>> \in files => SearchKeys(t) \cap rejected # {}

Answered ==
    /\ synced \subseteq Segs
    /\ ext = "installed" =>
         /\ \A n \in Segs : call[n].on => wpc = "wait" /\ call[n].rows = rejected
         /\ changed => wpc = "dispatch"
         /\ \A t \in Tables \ moved :
              /\ ~changed => \A n \in synced : Justified(blocked[n], t)
              /\ \A n \in Segs : call[n].on => Justified(call[n].files, t)

\* Steps that leave the maps, the calls and what they are compared with.
LEMMA AnsweredFrame ==
    ASSUME Answered, UNCHANGED <<owner, ver, rejected, blocked, call, changed, synced>>,
           moved \subseteq moved', ext' = "installed" => ext = "installed",
           wpc \in {"wait", "dispatch"} => wpc' = wpc
    PROVE  Answered'
BY DEF Answered, Justified, SearchKeys

\* New files are in no map and in no call.
LEMMA AnsweredNewFiles ==
    ASSUME IndInv, Answered, NEW t \in Tables, CreateTable(t) \/ Rewrite(t)
    PROVE  Answered'
<1>1. /\ ver' = [ver EXCEPT ![t] = @ + 1]
      /\ UNCHANGED <<owner, rejected, blocked, call, changed, synced, moved, ext, wpc>>
  BY DEF CreateTable, Rewrite, mapVars, workerVars, dropVars, history
<1>2. /\ \A u \in Tables \ {t} : ver'[u] = ver[u]
      /\ ver[t] \in Nat /\ ver'[t] = ver[t] + 1
  BY <1>1 DEF IndInv, Typed
<1>3. \A n \in Segs : /\ <<t, "main", ver'[t]>> \notin blocked[n]
                      /\ <<t, "main", ver'[t]>> \notin call[n].files
  BY <1>2 DEF IndInv, Paired, NotNewer, Parts
<1> QED
  BY <1>1, <1>2, <1>3 DEF Answered, Justified, SearchKeys

\* refresh_rejectmap enters the files of tables with a target among the rows.
LEMMA AnsweredExpand ==
    ASSUME IndInv, Answered, NEW n \in Segs, NEW t \in Tables, Expand(n, t)
    PROVE  Answered'
<1> DEFINE F == BlockedFiles(n, t, call[n].rows)
<1>1. /\ \A u \in Tables, v \in Nat :
            <<u, "main", v>> \in F => u = t /\ v = ver[t]
      /\ F # {} => SearchKeys(t) \cap call[n].rows # {}
  BY BlockedFilesWhole DEF BlockedFiles, Parts
<1> HIDE DEF F
<1>2. /\ UNCHANGED <<owner, ver, rejected, blocked, changed, synced, moved, ext, wpc>>
      /\ call' = [call EXCEPT ![n].todo = @ \ {t}, ![n].files = @ \cup F]
      /\ call[n].on
  BY DEF Expand, catVars, mapVars, workerVars, dropVars, history, F
<1>3. IsCall(call[n]) /\ call = [m \in Segs |-> call[m]]
  BY DEF IndInv, Typed, IsCalls
<1>4. call'[n] = [call[n] EXCEPT !.todo = @ \ {t}, !.files = @ \cup F]
  BY <1>2, <1>3
<1>5. /\ call'[n].on = call[n].on /\ call'[n].rows = call[n].rows
      /\ call'[n].files = call[n].files \cup F
      /\ \A m \in Segs \ {n} : call'[m] = call[m]
  BY <1>2, <1>3, <1>4 DEF IsCall
<1>6. ASSUME ext = "installed", NEW u \in Tables \ moved
      PROVE  Justified(call'[n].files, u)
  <2>1. ver[u] \in Nat
    BY DEF IndInv, Typed
  <2> QED
    BY <1>1, <1>2, <1>5, <1>6, <2>1 DEF Answered, Justified
<1> QED
  BY <1>2, <1>5, <1>6 DEF Answered, Justified, SearchKeys

\* Every step keeps the segments' maps in step with the coordinator's.
LEMMA AnsweredNext == IndInv /\ Answered /\ [Next]_vars => Answered'
<1> SUFFICES ASSUME IndInv, Answered, [Next]_vars PROVE Answered'
  OBVIOUS
<1> USE DEF catVars, mapVars, workerVars, dropVars, history
<1>1. ASSUME NEW t \in Tables, TableStep(t) PROVE Answered'
  <2>1. CASE CreateTable(t) \/ Rewrite(t)
    BY <2>1, AnsweredNewFiles
  <2>2. CASE Commit(t) \/ Abandon(t) \/ \E n \in Segs, p \in Parts : Unlink(n, t, p)
    BY <2>2, AnsweredFrame DEF Commit, Abandon, Unlink
  <2>3. ASSUME NEW r \in Roles, ChangeOwner(t, r) PROVE Answered'
    <3>1. /\ UNCHANGED <<ver, rejected, blocked, call, changed, synced, ext, wpc>>
          /\ moved' = moved \cup {t} /\ owner' = [owner EXCEPT ![t] = r]
      BY <2>3 DEF ChangeOwner
    <3>2. \A u \in Tables \ moved' : SearchKeys(u)' = SearchKeys(u)
      BY <3>1 DEF SearchKeys
    <3> QED
      BY <3>1, <3>2 DEF Answered, Justified
  <2> QED
    BY <1>1, <2>1, <2>2, <2>3 DEF TableStep
<1>2. CASE \/ \E t \in Tables, n \in Segs : Extend(n, t)
           \/ \E k \in Keys : ChangeOver(k)
           \/ ChangeHardLimit
  BY <1>2, AnsweredFrame DEF Extend, ChangeOver, ChangeHardLimit
<1>3. CASE Collect \/ RoundFails \/ Exit
  BY <1>3, AnsweredFrame DEF Collect, RoundFails, Exit
<1>4. CASE EndRound
  BY <1>4 DEF EndRound, Answered, Justified, SearchKeys
<1>5. CASE Flush
  BY <1>5 DEF Flush, Answered, Justified, SearchKeys
<1>6. CASE Dispatch
  <2>1. CASE MustDispatch /\ ext # "dropped"
    BY <1>6, <2>1 DEF Dispatch, Answered, Justified
  <2>2. CASE ~(MustDispatch /\ ext # "dropped")
    <3>1. /\ UNCHANGED <<owner, ver, rejected, blocked, call, moved, ext>>
          /\ synced' = IF changed /\ ~hardlimit THEN {} ELSE synced
          /\ wpc = "dispatch" /\ wpc' = "top" /\ changed' = FALSE
      BY <1>6, <2>2 DEF Dispatch
    <3>2. ext = "installed" /\ changed => ~hardlimit
      BY <2>2 DEF MustDispatch
    <3> QED
      BY <3>1, <3>2 DEF Answered, Justified, SearchKeys
  <2> QED
    BY <2>1, <2>2
<1>7. ASSUME NEW n \in Segs, SegStep(n) \/ SegFault(n) PROVE Answered'
  <2>1. ASSUME NEW t \in Tables, Expand(n, t) PROVE Answered'
    BY <2>1, AnsweredExpand
  <2>2. CASE Replace(n) \/ CallFails(n) \/ SegmentReset(n)
    <3>1. /\ call' = [call EXCEPT ![n] = NoCall]
          /\ UNCHANGED <<owner, ver, rejected, changed, moved, ext, wpc>>
      BY <2>2 DEF Replace, CallFails, SegmentReset
    <3>2. ~call'[n].on /\ \A m \in Segs \ {n} : call'[m] = call[m]
      BY <3>1 DEF IndInv, Typed, IsCalls, NoCall
    <3>3. /\ synced' \subseteq Segs
          /\ \A m \in synced' : \/ m \in synced /\ blocked'[m] \in {{}, blocked[m]}
                                \/ m = n /\ call[n].on /\ blocked'[n] = call[n].files
      <4>1. CASE Replace(n)
        BY <4>1 DEF Replace, Answered, IndInv, Typed
      <4>2. CASE CallFails(n)
        BY <4>2 DEF CallFails, Answered
      <4>3. CASE SegmentReset(n)
        BY <4>3 DEF SegmentReset, Answered, IndInv, Typed
      <4> QED
        BY <2>2, <4>1, <4>2, <4>3
    <3> QED
      BY <3>1, <3>2, <3>3 DEF Answered, Justified, SearchKeys
  <2> QED
    BY <1>7, <2>1, <2>2 DEF SegStep, SegFault
<1>8. CASE DropStep
  BY <1>8 DEF DropStep, DropAsks, LauncherStops, DropCommits, InvalidateSeg, Answered
<1>9. CASE UNCHANGED vars
  BY <1>9, AnsweredFrame DEF vars
<1> QED
  BY <1>1, <1>2, <1>3, <1>4, <1>5, <1>6, <1>7, <1>8, <1>9 DEF Next, WorkerStep

\* Between rounds, a segment in step with the coordinator refuses no session
\* whose table has no target in the coordinator's map, for any number of
\* tables, segments, rounds and faults: what a flush set free is free there
\* too, though refresh_rejectmap is told of active tables only.
THEOREM BlockedOnlyIfRejectedAlways == Spec => []BlockedOnlyIfRejected
<1>1. Init => Answered
  BY DEF Init, Answered, Justified, NoCall
<1>2. Answered => BlockedOnlyIfRejected
  BY DEF Answered, Justified, BlockedOnlyIfRejected, Refused
<1> QED
  BY <1>1, <1>2, PairedInit, PairedNext, AnsweredNext, PTL DEF Spec
=============================================================================
