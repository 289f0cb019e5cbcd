------------------------- MODULE QuotaConfigProofs -------------------------
(***************************************************************************)
(* Proofs about QuotaConfig: no circle of waits, and what the tables hold  *)
(* however calls and the worker's cleaning overlap.  First the invariant   *)
(* and its preservation by the statements of a call, by locks and          *)
(* failures, and by the worker's cleaning up to its commit; then the       *)
(* commits, the sequence of rowId and the theorems.                        *)
(***************************************************************************)
EXTENDS QuotaConfig, TLAPS

CE == <<"config", "Exclusive">>
CR == <<"config", "RowExclusive">>
CS == <<"config", "RowShare">>
TE == <<"target", "Exclusive">>
TR == <<"target", "RowExclusive">>

\* The state's types, with one type for every transaction.
SomeRowIds == UNION {[D -> {None} \cup Ids] : D \in SUBSET Pairs}
SomeRows   == UNION {[D -> Rows] : D \in SUBSET Keys}
AllTx      == TxRecords(Quotas \cup {None}, SomeRowIds, SomeRows)
TypeInv ==
    /\ alive \in SUBSET Objects
    /\ target \in [Pairs -> {None} \cup Ids] /\ config \in [Keys -> Rows]
    /\ limits \in [Quotas -> Rows]
    /\ nextId \in 2 .. MaxCalls + 2
    /\ tx \in [Procs -> AllTx]
    /\ calls \in 0 .. MaxCalls /\ events \in 0 .. MaxEvents
    /\ last \in [Quotas -> SUBSET Values] /\ crossed \in SUBSET Spaces /\ wild \in BOOLEAN

(***************************************************************************)
(* Locks and control.                                                      *)
(***************************************************************************)
\* An EXCLUSIVE lock is held alone.
Exclusion ==
    \A s, u \in Procs : s # u =>
        /\ CE \in tx[s].held => tx[u].held \cap {CE, CR, CS} = {}
        /\ TE \in tx[s].held => tx[u].held \cap {TE, TR} = {}

\* What a session at each statement holds and has changed.
AtCall(t) ==
    t.pc # "idle" => /\ t.q \in Quotas
                     /\ t.v \in {Delete} \cup (IF t.q \in Spaces THEN Ratios ELSE Limits)
AtFirst(t) ==
    /\ t.pc = "lock" => t.q \in Spaces /\ t.held \subseteq {CE} /\ t.newT = Empty
    /\ t.pc = "insertT" =>
         t.q \in Pairs /\ t.v # Delete /\ t.held \subseteq {TR} /\ t.newT = Empty
    /\ t.pc = "deleteT" =>
         t.q \in Pairs /\ t.v = Delete /\ t.held \subseteq {TE} /\ t.newT = Empty
AtInsert(t) ==
    /\ t.pc = "share" =>
         /\ t.q \in Pairs /\ t.v # Delete /\ t.id # None
         /\ TR \in t.held /\ t.held \subseteq {TR, CS} /\ t.newT = One(t.q, t.id)
    /\ t.pc = "insertC" => t.v # Delete
    /\ t.pc = "insertC" /\ t.q \in Pairs =>
         /\ t.id # None /\ {TR, CS} \subseteq t.held /\ t.held \subseteq {TR, CS, CR}
         /\ t.newT = One(t.q, t.id)
    /\ t.pc = "insertC" /\ t.q \in Spaces =>
         CE \in t.held /\ t.held \subseteq {CE, CR} /\ t.newT = Empty
    /\ t.pc = "insertC" /\ t.q \in Primaries => t.held \subseteq {CR} /\ t.newT = Empty
AtChange(t) ==
    /\ t.pc = "updateC" =>
         /\ t.v # Delete /\ t.newT = Empty /\ t.held \subseteq {CE}
         /\ t.q \in Spaces => CE \in t.held
         /\ t.q \in Pairs => t.id # None
    /\ t.pc = "deleteC" => t.v = Delete
    /\ t.pc = "deleteC" /\ t.q \in Objects =>
         /\ t.newT = Empty /\ t.held \subseteq {CE}
         /\ t.q \in Spaces => CE \in t.held
    /\ t.pc = "deleteC" /\ t.q \in Pairs =>
         /\ t.id # None /\ TE \in t.held /\ t.held \subseteq {TE, CE}
         /\ t.newT = One(t.q, None) \/ (wild /\ t.newT = Empty)
AtEnd(t) ==
    /\ t.pc = "spread" =>
         t.q \in Spaces /\ CE \in t.held /\ t.newT = Empty /\ DOMAIN t.newC \subseteq {t.q}
    /\ t.pc = "commit" /\ t.q \in Spaces =>
         CE \in t.held /\ t.newT = Empty /\ DOMAIN t.newC \subseteq {t.q} \cup Ids
    /\ t.pc = "commit" /\ t.q \in Primaries => t.newT = Empty /\ DOMAIN t.newC \subseteq {t.q}
    /\ t.pc = "commit" /\ t.q \in Pairs =>
         /\ DOMAIN t.newT \subseteq {t.q} /\ DOMAIN t.newC \subseteq Ids
         /\ t.newT # Empty /\ t.newT[t.q] = None => TE \in t.held

Shape(t) ==
    /\ t.pc = "idle" => t = Idle
    /\ t.pc \notin {"cleanT", "cleanC"}
    /\ t.pc \notin {"idle", "spread", "commit"} =>
         /\ t.newC = Empty /\ t.snapC \in [Keys -> Rows]
         /\ \A k \in Ids : t.snapC[k] # NoRow => k < nextId
    /\ DOMAIN t.newC # {} => t.held \cap {CE, CR} # {}
    /\ DOMAIN t.newT # {} => t.held \cap {TE, TR} # {}
    /\ AtCall(t) /\ AtFirst(t) /\ AtInsert(t) /\ AtChange(t) /\ AtEnd(t)

\* The same of the worker, and what its cleaning takes away.
WorkerShape(t) ==
    /\ t.pc \in {"idle", "cleanT", "cleanC", "commit"} /\ t.q = None
    /\ t.pc = "idle" => t = Idle
    /\ t.pc = "cleanT" => t.newT = Empty /\ t.newC = Empty /\ t.held \subseteq {TE}
    /\ t.pc = "cleanC" => TE \in t.held /\ t.held \subseteq {TE, CE} /\ t.newC = Empty
    /\ t.pc = "commit" => {TE, CE} \subseteq t.held
    /\ \A q \in DOMAIN t.newT : t.newT[q] = None /\ ~(PartsOf(q) \subseteq alive)
    /\ \A k \in DOMAIN t.newC :
         /\ t.newC[k] = NoRow
         /\ k \in Objects => k \notin alive
         /\ k \in Ids => \A q \in Pairs : Over(t.newT, target)[q] # k

Control ==
    /\ Exclusion
    /\ \A s \in Sessions : Shape(tx[s])
    /\ WorkerShape(tx[Worker])

(***************************************************************************)
(* Row ids: each belongs to one pair for ever.                             *)
(***************************************************************************)
\* Nobody but s has, or is about to have, k as the row id of a pair.
Own(s, k) ==
    /\ k < nextId
    /\ \A r \in Pairs \ {tx[s].q} : target[r] # k
    /\ \A u \in Procs \ {s} : \A r \in DOMAIN tx[u].newT : tx[u].newT[r] # k

Unique ==
    /\ \A q, r \in Pairs : target[q] # None /\ target[q] = target[r] => q = r
    /\ \A q \in Pairs : target[q] < nextId
    /\ \A k \in Ids : config[k] # NoRow => k < nextId /\ config[k].limit # None

\* The row a session writes for a pair is that pair's.
RowIds(s) ==
    LET t == tx[s] IN
    /\ t.pc = "updateC" /\ t.q \in Pairs => Own(s, t.id)
    /\ t.pc \in {"share", "insertC"} /\ t.q \in Pairs => Own(s, t.id) /\ target[t.q] # t.id
    /\ t.pc = "deleteC" /\ t.q \in Pairs /\ ~wild => target[t.q] = t.id
    /\ t.pc = "commit" /\ t.q \in Pairs =>
         /\ \A k \in DOMAIN t.newC :
              /\ t.newC[k] # NoRow => Own(s, k) /\ t.newC[k].limit = t.v
              /\ t.newC[k] = NoRow /\ ~wild => target[t.q] = k /\ t.newT = One(t.q, None)
         /\ t.newT # Empty /\ t.newT[t.q] # None =>
              /\ Own(s, t.newT[t.q]) /\ target[t.q] # t.newT[t.q]
              /\ DOMAIN t.newC = {t.newT[t.q]} /\ t.newC[t.newT[t.q]] # NoRow
    /\ t.pc = "commit" /\ t.q \in Spaces =>
         \A k \in DOMAIN t.newC \cap Ids :
            /\ config[k] # NoRow /\ t.newC[k].limit = config[k].limit
            /\ \A r \in Pairs : r[2] # t.q => target[r] # k

(***************************************************************************)
(* What a call relies on as long as no other call for the same quota has   *)
(* committed meanwhile, and what it is about to write.                     *)
(***************************************************************************)
Amount(q, row) == IF q \in Spaces THEN row.ratio ELSE row.limit
AskedFor(t) == IF ToDelete(t.v) THEN None ELSE t.v
Alone(t) == PartsOf(t.q) \subseteq alive /\ t.others = {}

Outcome(s) ==
    LET t == tx[s] IN
    /\ t.others # {} => t.others = last[t.q]
    /\ t.pc = "lock" /\ Alone(t) => (t.snapC[t.q] = NoRow <=> config[t.q] = NoRow)
    /\ t.pc = "updateC" /\ t.q \in Objects /\ Alone(t) => config[t.q] # NoRow
    /\ t.pc \in {"spread", "commit"} /\ t.q \in Objects =>
         /\ t.q \in DOMAIN t.newC => Amount(t.q, t.newC[t.q]) = AskedFor(t)
         /\ t.q \notin DOMAIN t.newC /\ Alone(t) => Amount(t.q, config[t.q]) = AskedFor(t)
    /\ ~wild /\ t.pc = "updateC" /\ t.q \in Pairs /\ Alone(t) =>
         target[t.q] = t.id /\ config[t.id] # NoRow
    /\ t.pc = "commit" /\ t.q \in Pairs =>
         /\ t.newT # Empty /\ t.newT[t.q] = None => t.v = Delete
         /\ t.newT = Empty /\ ~wild /\ Alone(t) =>
              /\ DOMAIN t.newC = {} => t.v = Delete /\ target[t.q] = None
              /\ \A k \in DOMAIN t.newC : target[t.q] = k

\* The ratio of a tablespace and of the rows about to be written.
RatioKept(s) ==
    LET t == tx[s] IN
    /\ t.pc = "insertC" /\ t.q \in Pairs => t.ratio = config[t.q[2]].ratio
    /\ t.pc = "commit" /\ t.q \in Pairs /\ t.q[2] \in alive /\ t.q[2] \notin crossed =>
         \A k \in DOMAIN t.newC :
            t.newC[k] # NoRow /\ (t.newT # Empty \/ target[t.q] = k) =>
                t.newC[k].ratio = config[t.q[2]].ratio
    /\ t.pc = "commit" /\ t.q \in Spaces =>
         \A p \in Primaries :
            LET i == target[<<p, t.q>>] IN
            i # None /\ FreshC(s)[i] # NoRow => FreshC(s)[i].ratio = AskedFor(t)

IndInv ==
    /\ TypeInv /\ Control /\ Unique
    /\ \A s \in Sessions : RowIds(s) /\ Outcome(s) /\ RatioKept(s)
    /\ TargetHasConfig /\ RatioFollowsTablespace /\ QuotaIsAnOutcome

-----------------------------------------------------------------------------
(***************************************************************************)
(* Kinds, tables and locks.                                                *)
(***************************************************************************)
\* A row id that was given stays one when the sequence goes on.
LEMMA LessNext == \A k, n \in Nat : k < n => k < n + 1
OBVIOUS

\* A value of the sequence, and a step that takes none.
LEMMA IdKept ==
    ASSUME nextId \in 2 .. MaxCalls + 2, nextId' = nextId
    PROVE  nextId \in Nat /\ nextId' \in 2 .. MaxCalls + 2 /\ nextId' >= nextId
BY ConfigAssumption

\* The kinds of quotas, and the keys they have.
LEMMA Kinds ==
    /\ Quotas = Primaries \cup Spaces \cup Pairs
    /\ \A q \in Quotas : /\ IsPair(q) <=> q \in Pairs
                         /\ IsPair(q) <=> q \notin Objects
                         /\ q \in Pairs => q \notin Spaces /\ q \notin Primaries
                         /\ q \in Spaces => q \notin Primaries
                         /\ q \in Objects => q \in Keys /\ q \notin Ids /\ q # None
                         /\ q \in Pairs => q = <<q[1], q[2]>> /\ q[1] \in Primaries /\ q[2] \in Spaces
    /\ \A k \in Keys : k \in Objects <=> k \notin Ids
    /\ Ids \subseteq Keys /\ Objects \subseteq Keys /\ Ids \subseteq Nat /\ None \notin Ids
    /\ Primaries \subseteq Objects /\ Spaces \subseteq Objects
BY KindsAssumption, ConfigAssumption DEF Quotas, Objects, Keys, IsPair, Ids, None, Pairs

\* A single row, and no row.
LEMMA OneRow ==
    /\ \A k, r : DOMAIN One(k, r) = {k} /\ One(k, r)[k] = r
    /\ DOMAIN Empty = {}
    /\ \A k, r : One(k, r) # Empty
BY Zenon DEF One, Empty

\* The types of what a transaction has changed.
LEMMA SomeTypes ==
    /\ \A f : f \in SomeRowIds <=> f \in [DOMAIN f -> {None} \cup Ids] /\ DOMAIN f \in SUBSET Pairs
    /\ \A f : f \in SomeRows <=> f \in [DOMAIN f -> Rows] /\ DOMAIN f \in SUBSET Keys
<1>1. \A f : f \in SomeRowIds <=> f \in [DOMAIN f -> {None} \cup Ids] /\ DOMAIN f \in SUBSET Pairs
  BY Zenon DEF SomeRowIds
<1>2. \A f : f \in SomeRows <=> f \in [DOMAIN f -> Rows] /\ DOMAIN f \in SUBSET Keys
  BY Zenon DEF SomeRows
<1> QED
  BY <1>1, <1>2, Zenon

\* No change, and the change of one row.
LEMMA OneTypes ==
    /\ Empty \in SomeRowIds /\ Empty \in SomeRows
    /\ \A q \in Pairs, i \in {None} \cup Ids : One(q, i) \in SomeRowIds
    /\ \A k \in Keys, r \in Rows : Over(One(k, r), Empty) \in SomeRows /\ Over(One(k, r), Empty) = One(k, r)
<1>1. Empty \in [{} -> {None} \cup Ids] /\ Empty \in [{} -> Rows]
  BY Zenon DEF Empty
<1>2. ASSUME NEW q \in Pairs, NEW i \in {None} \cup Ids PROVE One(q, i) \in SomeRowIds
  BY SomeTypes, Zenon DEF One
<1>3. ASSUME NEW k \in Keys, NEW r \in Rows
      PROVE  Over(One(k, r), Empty) \in SomeRows /\ Over(One(k, r), Empty) = One(k, r)
  <2>1. Over(One(k, r), Empty) = One(k, r)
    BY Zenon DEF One, Over, Empty
  <2>2. One(k, r) \in SomeRows
    BY SomeTypes, Zenon DEF One
  <2> QED
    BY <2>1, <2>2, Zenon
<1> QED
  BY <1>1, <1>2, <1>3, OneRow, SomeTypes, Zenon

\* A row is NoRow or not; the fields of rows.
LEMMA RowTypes ==
    /\ NoRow \in Rows /\ NoRow.limit = None /\ NoRow.ratio = None
    /\ \A r \in Rows : r.limit \in Limits \cup {None} /\ r.ratio \in Ratios \cup {None}
    /\ \A r \in Rows : r = NoRow <=> r.limit = None /\ r.ratio = None
    /\ \A l \in Limits \cup {None}, m \in Ratios \cup {None} : [limit |-> l, ratio |-> m] \in Rows
    /\ None \notin Limits /\ None \notin Ratios
BY ConfigAssumption DEF Rows, NoRow, None

\* The locks and the statements that take them.
LEMMA LockNames ==
    /\ LockOf["lock"] = CE /\ LockOf["insertT"] = TR /\ LockOf["deleteT"] = TE
    /\ LockOf["cleanT"] = TE /\ LockOf["share"] = CS /\ LockOf["insertC"] = CR
    /\ LockOf["updateC"] = CE /\ LockOf["deleteC"] = CE /\ LockOf["spread"] = CE
    /\ LockOf["cleanC"] = CE
    /\ DOMAIN LockOf = Pcs \ {"idle", "commit"}
    /\ {CE, CR, CS, TE, TR} \subseteq Locks
    /\ CE # CR /\ CE # CS /\ CR # CS /\ CE # TE /\ CE # TR /\ CR # TE /\ CR # TR /\ CS # TE /\ CS # TR
    /\ TE # TR
<1>1. DOMAIN LockOf = Pcs \ {"idle", "commit"}
  BY Zenon DEF LockOf, Pcs
<1> QED
  BY <1>1 DEF LockOf, Locks, CE, CR, CS, TE, TR

\* Which of them conflict.
LEMMA Conflicts ==
    /\ \A m \in {CE, CR, CS} : Conflict(CE, m) /\ Conflict(m, CE)
    /\ \A m \in {TE, TR} : Conflict(TE, m) /\ Conflict(m, TE)
    /\ \A l, m \in {CR, CS, TR} : ~Conflict(l, m)
    /\ \A l \in {CE, CR, CS}, m \in {TE, TR} : ~Conflict(l, m) /\ ~Conflict(m, l)
BY DEF Conflict, CE, CR, CS, TE, TR

\* The types of the fields of a transaction.
LEMMA TxFields ==
    ASSUME NEW t \in AllTx
    PROVE  /\ t.pc \in Pcs /\ t.q \in Quotas \cup {None} /\ t.v \in Values \cup {Delete}
           /\ t.id \in {None} \cup Ids /\ t.ratio \in Ratios \cup {None}
           /\ t.snapC \in {Empty} \cup [Keys -> Rows] /\ t.held \in SUBSET Locks
           /\ t.newT \in SomeRowIds /\ t.newC \in SomeRows /\ t.others \in SUBSET Values
BY Zenon DEF AllTx, TxRecords

\* Nothing is open.
LEMMA IdleTx ==
    /\ Idle \in AllTx
    /\ Idle.pc = "idle" /\ Idle.held = {} /\ Idle.newT = Empty /\ Idle.newC = Empty
    /\ Idle.others = {} /\ Idle.q = None
<1>1. /\ "idle" \in Pcs /\ None \in Values /\ {} \in SUBSET Values /\ {} \in SUBSET Locks
  BY Zenon DEF Pcs, Values
<1> QED
  BY <1>1, OneTypes, Zenon DEF Idle, AllTx, TxRecords

\* Goto changes the control point, and forgets before the commit.
LEMMA GotoTx ==
    ASSUME NEW t \in AllTx, NEW pc \in Pcs
    PROVE  /\ Goto(t, pc) \in AllTx
           /\ Goto(t, pc).pc = pc /\ Goto(t, pc).q = t.q /\ Goto(t, pc).v = t.v
           /\ Goto(t, pc).held = t.held /\ Goto(t, pc).newT = t.newT
           /\ Goto(t, pc).newC = t.newC /\ Goto(t, pc).others = t.others
           /\ pc # "commit" => /\ Goto(t, pc).id = t.id /\ Goto(t, pc).ratio = t.ratio
                               /\ Goto(t, pc).snapC = t.snapC
BY Zenon DEF Goto, AllTx, TxRecords

-----------------------------------------------------------------------------
(***************************************************************************)
(* No circle of waits: whoever waits has come less far than whom it waits  *)
(* for.                                                                    *)
(***************************************************************************)
Rank(s) ==
    LET t == tx[s] IN
    IF DOMAIN t.newC # {} \/ t.pc \in {"spread", "commit"} THEN 5
    ELSE IF t.held \cap {CE, CR, CS} # {} THEN 4
    ELSE IF t.pc \in {"lock", "share", "insertC", "updateC", "deleteC", "cleanC"} THEN 3
    ELSE IF t.held # {} THEN 2 ELSE 1

\* A transaction waits only for one of a higher rank.
LEMMA WaitsUp ==
    ASSUME TypeInv, Control, NEW s \in Procs, NEW u \in Procs, s # u, Waits(s, u)
    PROVE  Rank(s) < Rank(u)
<1> DEFINE t == tx[s]  w == tx[u]
<1>1. t \in AllTx /\ w \in AllTx
  BY Zenon DEF TypeInv
<1>2. (s \in Sessions => Shape(t)) /\ (u \in Sessions => Shape(w))
      /\ (s = Worker => WorkerShape(t)) /\ (u = Worker => WorkerShape(w))
      /\ (s \in Sessions \/ s = Worker) /\ (u \in Sessions \/ u = Worker)
  BY Zenon DEF Control, Procs
<1>3. /\ CE \in t.held => w.held \cap {CE, CR, CS} = {}
      /\ TE \in t.held => w.held \cap {TE, TR} = {}
      /\ CE \in w.held => t.held \cap {CE, CR, CS} = {}
      /\ TE \in w.held => t.held \cap {TE, TR} = {}
  BY Zenon DEF Control, Exclusion
<1>4. /\ Rank(s) = IF DOMAIN t.newC # {} \/ t.pc \in {"spread", "commit"} THEN 5
                   ELSE IF t.held \cap {CE, CR, CS} # {} THEN 4
                   ELSE IF t.pc \in {"lock", "share", "insertC", "updateC", "deleteC", "cleanC"} THEN 3
                   ELSE IF t.held # {} THEN 2 ELSE 1
      /\ Rank(u) = IF DOMAIN w.newC # {} \/ w.pc \in {"spread", "commit"} THEN 5
                   ELSE IF w.held \cap {CE, CR, CS} # {} THEN 4
                   ELSE IF w.pc \in {"lock", "share", "insertC", "updateC", "deleteC", "cleanC"} THEN 3
                   ELSE IF w.held # {} THEN 2 ELSE 1
  BY Zenon DEF Rank
<1>5. Rank(s) \in Nat /\ Rank(u) \in Nat /\ (w.held # {} => Rank(u) >= 2)
  BY <1>4
<1>6. t.held \subseteq {CE, CR, CS, TE, TR} \/ t.pc = "commit" \/ t.pc = "spread"
  BY <1>1, <1>2, TxFields, IdleTx, Zenon DEF Shape, WorkerShape, AtFirst, AtInsert, AtChange, AtCall, Pcs, Quotas, Objects
<1>7. CASE t.pc \in DOMAIN LockOf /\ LockOf[t.pc] \notin t.held
           /\ \E m \in w.held : Conflict(LockOf[t.pc], m)
  <2>1. PICK m \in w.held : Conflict(LockOf[t.pc], m)
    BY <1>7, Zenon
  <2>2. m \in Locks /\ t.pc \in Pcs \ {"idle", "commit"}
    BY <1>1, <1>7, TxFields, LockNames, Zenon
  <2>3. CASE t.pc \in {"insertT", "deleteT", "cleanT"}
    <3>1. t.held = {} /\ t.newC = Empty
      BY <1>2, <1>7, <2>3, LockNames DEF Shape, WorkerShape, AtFirst
    <3>2. Rank(s) = 1
      BY <1>4, <2>3, <3>1, OneRow, Zenon
    <3> QED
      BY <1>5, <2>1, <3>2, SMTT(30)
  <2>4. CASE t.pc \in {"lock", "share", "insertC", "updateC", "deleteC", "cleanC"}
    <3>1. t.newC = Empty
      BY <1>2, <2>4, Zenon DEF Shape, WorkerShape
    <3>2. m \in {CE, CR, CS} /\ (t.pc \in {"share", "insertC"} => m = CE)
      BY <2>1, <2>2, <2>4 DEF Conflict, LockOf, Locks, CE, CR, CS
    <3>3. Rank(u) >= 4
      BY <1>4, <2>1, <3>2
    <3>4. t.held \cap {CE, CR, CS} = {}
      <4>1. CASE t.pc \in {"share", "insertC"}
        BY <1>3, <2>1, <3>2, <4>1, Zenon
      <4>2. CASE t.pc \in {"lock", "updateC", "deleteC", "cleanC"}
        <5>1. LockOf[t.pc] = CE
          BY <4>2, LockNames, Zenon
        <5>2. t.held \subseteq {CE, TE}
          BY <1>2, <4>2, Zenon DEF Shape, WorkerShape, AtFirst, AtChange, AtCall, Quotas
        <5> QED
          BY <1>7, <5>1, <5>2, LockNames, Zenon
      <4> QED
        BY <2>4, <4>1, <4>2, Zenon
    <3>5. Rank(s) = 3
      BY <1>4, <2>4, <3>1, <3>4, OneRow, Zenon
    <3> QED
      BY <1>5, <3>3, <3>5
  <2>5. CASE t.pc = "spread"
    BY <1>2, <1>7, <2>5, LockNames, Zenon DEF Shape, WorkerShape, AtEnd
  <2> QED
    BY <2>2, <2>3, <2>4, <2>5, Zenon DEF Pcs
<1>8. CASE At(s, "insertT") /\ t.q \in DOMAIN w.newT
  <2>1. t.pc = "insertT" /\ t.held = {TR} /\ t.newC = Empty
    BY <1>2, <1>8, LockNames, Zenon DEF At, Shape, WorkerShape, AtFirst
  <2>2. Rank(s) = 2
    BY <1>4, <2>1, OneRow, LockNames
  <2>3. w.pc \notin {"idle", "lock", "insertT", "deleteT", "cleanT"}
    BY <1>2, <1>8, OneRow, IdleTx, Zenon DEF Shape, WorkerShape, AtFirst
  <2>4. Rank(u) >= 3
    BY <1>1, <1>4, <2>3, TxFields DEF Pcs
  <2> QED
    BY <1>5, <2>2, <2>4
<1>9. CASE At(s, "insertC") /\ KeyOf(t) \in DOMAIN w.newC
  <2>1. t.pc = "insertC" /\ CR \in t.held /\ t.newC = Empty
    BY <1>2, <1>9, LockNames, Zenon DEF At, Shape, WorkerShape
  <2>2. Rank(s) = 4 /\ Rank(u) = 5
    BY <1>4, <1>9, <2>1, OneRow, Zenon
  <2> QED
    BY <2>2
<1> QED
  BY <1>7, <1>8, <1>9, Zenon DEF Waits

\* Among any transactions there is one that waits for none of the others.
LEMMA SomeoneGoesOn == TypeInv /\ Control => NoWaitCycle
<1> SUFFICES ASSUME TypeInv, Control, NEW ps \in SUBSET Procs, ps # {}
             PROVE  \E s \in ps : \A u \in ps \ {s} : ~Waits(s, u)
  BY Zenon DEF NoWaitCycle
<1>1. \A s \in ps : Rank(s) \in 1 .. 5
  BY DEF Rank
<1>2. \E s \in ps : \A u \in ps : Rank(u) <= Rank(s)
  <2>1. CASE \E s \in ps : Rank(s) = 5
    BY <1>1, <2>1
  <2>2. CASE (\A s \in ps : Rank(s) < 5) /\ \E s \in ps : Rank(s) = 4
    BY <1>1, <2>2
  <2>3. CASE (\A s \in ps : Rank(s) < 4) /\ \E s \in ps : Rank(s) = 3
    BY <1>1, <2>3
  <2>4. CASE (\A s \in ps : Rank(s) < 3) /\ \E s \in ps : Rank(s) = 2
    BY <1>1, <2>4
  <2>5. CASE \A s \in ps : Rank(s) < 2
    BY <1>1, <2>5
  <2> QED
    BY <1>1, <2>1, <2>2, <2>3, <2>4, <2>5
<1>3. PICK s \in ps : \A u \in ps : Rank(u) <= Rank(s)
  BY <1>2, Zenon
<1>4. ASSUME NEW u \in ps \ {s} PROVE ~Waits(s, u)
  BY <1>1, <1>3, WaitsUp
<1> QED
  BY <1>3, <1>4, Zenon

-----------------------------------------------------------------------------
(***************************************************************************)
(* Steps that change one transaction and leave the tables alone.           *)
(***************************************************************************)
\* The changes of the others bring no row id but the next of the sequence.
IdsFrame(u) ==
    \A w \in Procs \ {u} : \A r \in DOMAIN tx'[w].newT :
        \/ tx'[w].newT[r] \in {None, nextId}
        \/ r \in DOMAIN tx[w].newT /\ tx'[w].newT[r] = tx[w].newT[r]

\* A session's own rows stay its own.
LEMMA OwnFrame ==
    ASSUME TypeInv, NEW u \in Procs, tx'[u].q = tx[u].q, UNCHANGED target, IdsFrame(u),
           nextId' \in Nat, nextId' >= nextId, NEW k \in Ids, Own(u, k)
    PROVE  Own(u, k)'
<1>1. k < nextId /\ k < nextId' /\ k # None /\ k # nextId
  BY Kinds DEF Own, TypeInv
<1>2. ASSUME NEW w \in Procs \ {u}, NEW r \in DOMAIN tx'[w].newT PROVE tx'[w].newT[r] # k
  BY <1>1, Zenon DEF Own, IdsFrame
<1> QED
  BY <1>1, <1>2, Zenon DEF Own

\* The row ids a session has to do with are ids.
LEMMA RowIdTypes ==
    ASSUME TypeInv, Control, NEW s \in Sessions
    PROVE  LET t == tx[s] IN
           /\ t.pc = "updateC" /\ t.q \in Pairs => t.id \in Ids
           /\ t.pc \in {"share", "insertC"} /\ t.q \in Pairs => t.id \in Ids
           /\ t.pc = "commit" /\ t.q \in Pairs =>
                /\ DOMAIN t.newC \subseteq Ids
                /\ t.newT # Empty => DOMAIN t.newT = {t.q} /\ t.newT[t.q] \in {None} \cup Ids
<1> DEFINE t == tx[s]
<1>1. t \in AllTx /\ Shape(t)
  BY Zenon DEF TypeInv, Control, Procs
<1>2. t.id \in {None} \cup Ids /\ t.newT \in SomeRowIds
  BY <1>1, TxFields, Zenon
<1>3. t.newT \in [DOMAIN t.newT -> {None} \cup Ids]
  BY <1>2, SomeTypes, Zenon
<1>4. DOMAIN t.newT = {} => t.newT = Empty
  BY <1>3, Zenon DEF Empty
<1> QED
  BY <1>1, <1>2, <1>3, <1>4, Zenon DEF Shape, AtInsert, AtChange, AtEnd

\* Where a session is and what row ids it has hold after a step in which it
\* takes no part and which leaves the tables alone.
LEMMA BystanderIds ==
    ASSUME IndInv, NEW u \in Sessions, tx'[u] = tx[u], IdsFrame(u), UNCHANGED <<target, config>>,
           nextId' \in Nat, nextId' >= nextId, wild => wild'
    PROVE  Shape(tx[u])' /\ RowIds(u)'
<1> USE DEF IndInv
<1>1. Shape(tx[u])'
  <2>1. Shape(tx[u]) /\ nextId \in Nat /\ Ids \subseteq Nat
    BY Kinds, SMTT(30) DEF Control, TypeInv
  <2>2. AtCall(tx[u])' /\ AtFirst(tx[u])' /\ AtInsert(tx[u])' /\ AtChange(tx[u])' /\ AtEnd(tx[u])'
    BY <2>1 DEF Shape, AtCall, AtFirst, AtInsert, AtChange, AtEnd
  <2> QED
    BY <2>1, <2>2 DEF Shape
<1>2. RowIds(u)'
  <2>1. RowIds(u) /\ u \in Procs
    BY Zenon DEF Procs
  <2>2. \A k \in Ids : Own(u, k) => Own(u, k)'
    BY <2>1, OwnFrame, Zenon
  <2> DEFINE t == tx[u]
  <2>3. ASSUME t.pc \in {"updateC", "share", "insertC"}, t.q \in Pairs PROVE Own(u, t.id)'
    <3>1. PICK k \in Ids : k = t.id
      BY <2>3, RowIdTypes, Zenon
    <3>2. Own(u, k)'
      BY <2>1, <2>2, <2>3, <3>1, Zenon DEF RowIds
    <3> QED
      BY <3>1, <3>2, Zenon DEF Own
  <2>4. ASSUME t.pc = "commit", t.q \in Pairs PROVE \A k \in DOMAIN t.newC : t.newC[k] # NoRow => Own(u, k)'
    BY <2>1, <2>2, <2>4, RowIdTypes, Zenon DEF RowIds
  <2>5. ASSUME t.pc = "commit", t.q \in Pairs, t.newT # Empty, t.newT[t.q] # None
        PROVE  Own(u, t.newT[t.q])'
    <3>1. PICK k \in Ids : k = t.newT[t.q]
      BY <2>5, RowIdTypes, Zenon
    <3>2. Own(u, k)'
      BY <2>1, <2>2, <2>5, <3>1, Zenon DEF RowIds
    <3> QED
      BY <3>1, <3>2, Zenon DEF Own
  <2> HIDE DEF IndInv
  <2>6. CASE t.pc = "commit" /\ t.q \in Spaces
    <3>1. \A k \in DOMAIN t.newC \cap Ids :
             /\ config[k] # NoRow /\ t.newC[k].limit = config[k].limit
             /\ \A r \in Pairs : r[2] # t.q => target[r] # k
      BY <2>1, <2>6, Zenon DEF RowIds
    <3>2. t.q \notin Pairs
      BY <2>6, Kinds, Zenon DEF Quotas, Objects
    <3> QED
      BY <2>6, <3>1, <3>2, Zenon DEF RowIds
  <2>7. CASE t.pc = "commit" /\ t.q \in Pairs
    <3>1. t.q \notin Spaces
      BY <2>7, Kinds, Zenon DEF Quotas
    <3> QED
      BY <2>1, <2>4, <2>5, <2>7, <3>1, Zenon DEF RowIds
  <2>8. CASE t.pc # "commit" \/ (t.q \notin Pairs /\ t.q \notin Spaces)
    BY <2>1, <2>3, <2>8, Zenon DEF RowIds
  <2> QED
    BY <2>6, <2>7, <2>8, Zenon
<1> QED
  BY <1>1, <1>2, Zenon

\* The same of all that is known of a session.
LEMMA Bystander ==
    ASSUME IndInv, NEW u \in Sessions, tx'[u] = tx[u], IdsFrame(u),
           UNCHANGED <<alive, target, config, last, crossed>>,
           nextId' \in Nat, nextId' >= nextId, wild => wild'
    PROVE  Shape(tx[u])' /\ RowIds(u)' /\ Outcome(u)' /\ RatioKept(u)'
<1> USE DEF IndInv
<1>1. Shape(tx[u])' /\ RowIds(u)'
  BY BystanderIds, Zenon
<1>3. Outcome(u)'
  <2>1. Outcome(u)
    BY Zenon
  <2> QED
    BY <2>1, ZenonT(40) DEF Outcome, Alone, Amount, AskedFor
<1>4. RatioKept(u)'
  <2>1. RatioKept(u) /\ FreshC(u)' = FreshC(u)
    BY Zenon DEF FreshC, Over
  <2> QED
    BY <2>1, Zenon DEF RatioKept, AskedFor
<1> QED
  BY <1>1, <1>3, <1>4, Zenon

\* The same of the worker.
LEMMA WorkerBystander ==
    ASSUME IndInv, tx'[Worker] = tx[Worker], UNCHANGED <<alive, target>>
    PROVE  WorkerShape(tx[Worker])'
<1>1. WorkerShape(tx[Worker])
  BY Zenon DEF IndInv, Control
<1>2. Over(tx[Worker].newT, target)' = Over(tx[Worker].newT, target)
  BY Zenon DEF Over
<1>3. \A q \in DOMAIN tx'[Worker].newT :
         tx'[Worker].newT[q] = None /\ ~(PartsOf(q) \subseteq alive')
  BY <1>1, Zenon DEF WorkerShape
<1> QED
  BY <1>1, <1>2, <1>3, Zenon DEF WorkerShape

\* A step of s alone.
LEMMA LocalStep ==
    ASSUME IndInv, NEW s \in Procs, NEW v \in AllTx, tx' = [tx EXCEPT ![s] = v],
           UNCHANGED <<alive, target, config, last, crossed>>,
           limits' \in [Quotas -> Rows],
           nextId' \in 2 .. MaxCalls + 2, nextId' >= nextId,
           calls' \in 0 .. MaxCalls, events' \in 0 .. MaxEvents,
           wild' \in BOOLEAN, wild => wild',
           Exclusion',
           \A r \in DOMAIN v.newT :
              \/ v.newT[r] \in {None, nextId}
              \/ r \in DOMAIN tx[s].newT /\ v.newT[r] = tx[s].newT[r],
           s \in Sessions => Shape(tx[s])' /\ RowIds(s)' /\ Outcome(s)' /\ RatioKept(s)',
           s = Worker => WorkerShape(tx[Worker])'
    PROVE  IndInv'
<1>1. /\ tx \in [Procs -> AllTx] /\ tx' \in [Procs -> AllTx] /\ tx'[s] = v
      /\ \A u \in Procs \ {s} : tx'[u] = tx[u]
      /\ nextId' \in Nat
  BY DEF IndInv, TypeInv
<1>2. TypeInv'
  BY <1>1, Zenon DEF IndInv, TypeInv
<1>3. \A u \in Procs : IdsFrame(u)
  BY <1>1, Zenon DEF IdsFrame
<1>4. ASSUME NEW u \in Sessions
      PROVE  Shape(tx[u])' /\ RowIds(u)' /\ Outcome(u)' /\ RatioKept(u)'
  <2>1. CASE u = s
    BY <2>1, Zenon
  <2>2. CASE u # s
    <3>1. u \in Procs /\ tx'[u] = tx[u]
      BY <1>1, <2>2, Zenon DEF Procs
    <3> QED
      BY <1>1, <1>3, <3>1, Bystander, Zenon
  <2> QED
    BY <2>1, <2>2, Zenon
<1>5. WorkerShape(tx[Worker])'
  BY <1>1, WorkerBystander, Zenon DEF Procs
<1>7. Unique'
  <2>1. Unique /\ nextId \in Nat /\ target \in [Pairs -> {None} \cup Ids] /\ Ids \subseteq Nat /\ None \in Nat
    BY Kinds DEF IndInv, TypeInv, None
  <2>2. \A q \in Pairs : target'[q] < nextId'
    <3>1. \A q \in Pairs : target[q] \in Nat /\ target[q] < nextId
      BY <2>1, Zenon DEF Unique
    <3> QED
      BY <1>1, <2>1, <3>1
  <2>3. \A k \in Ids : config'[k] # NoRow => k < nextId' /\ config'[k].limit # None
    <3>1. \A k \in Ids : k \in Nat /\ (config[k] # NoRow => k < nextId /\ config[k].limit # None)
      BY <2>1, Zenon DEF Unique
    <3> QED
      BY <1>1, <2>1, <3>1
  <2> QED
    BY <2>1, <2>2, <2>3, Zenon DEF Unique
<1>8. TargetHasConfig' /\ RatioFollowsTablespace' /\ QuotaIsAnOutcome'
  BY Zenon DEF IndInv, TargetHasConfig, RatioFollowsTablespace, QuotaIsAnOutcome, RowOf
<1> QED
  BY <1>2, <1>4, <1>5, <1>7, <1>8, ZenonT(40) DEF IndInv, Control

\* Giving up locks keeps the others exclusive.
LEMMA ExclusionFrame ==
    ASSUME TypeInv, Exclusion, NEW s \in Procs, NEW v \in AllTx, tx' = [tx EXCEPT ![s] = v],
           v.held \subseteq tx[s].held
    PROVE  Exclusion'
<1>1. \A u \in Procs : tx'[u].held \subseteq tx[u].held
  BY Zenon DEF TypeInv
<1> QED
  BY <1>1, Zenon DEF Exclusion

\* A statement of a session: it keeps its locks and leaves the tables alone.
LEMMA SessionStep ==
    ASSUME IndInv, NEW s \in Sessions, NEW v \in AllTx, tx' = [tx EXCEPT ![s] = v],
           UNCHANGED <<alive, tables, limits, calls, events, last, crossed>>,
           \/ nextId' = nextId
           \/ nextId' = nextId + 1 /\ nextId \in Ids,
           wild' \in BOOLEAN, wild => wild',
           v.held \subseteq tx[s].held,
           \A r \in DOMAIN v.newT :
              \/ v.newT[r] \in {None, nextId}
              \/ r \in DOMAIN tx[s].newT /\ v.newT[r] = tx[s].newT[r],
           Shape(tx[s])', RowIds(s)', Outcome(s)', RatioKept(s)'
    PROVE  IndInv'
<1>1. s \in Procs /\ s # Worker
  BY ConfigAssumption, Zenon DEF Procs
<1>2. nextId' \in 2 .. MaxCalls + 2 /\ nextId' >= nextId
  BY ConfigAssumption DEF IndInv, TypeInv, Ids
<1>3. Exclusion'
  BY <1>1, ExclusionFrame, Zenon DEF IndInv, Control
<1>4. limits' \in [Quotas -> Rows] /\ calls' \in 0 .. MaxCalls /\ events' \in 0 .. MaxEvents
  BY Zenon DEF IndInv, TypeInv
<1> QED
  BY <1>1, <1>2, <1>3, <1>4, LocalStep, Zenon DEF tables

\* The transaction of a session is rolled back.
LEMMA SessionEnds ==
    ASSUME IndInv, NEW s \in Sessions, tx' = [tx EXCEPT ![s] = Idle],
           UNCHANGED <<alive, tables, limits, calls, last, crossed, wild>>,
           events' \in 0 .. MaxEvents,
           \/ nextId' = nextId
           \/ nextId' = nextId + 1 /\ nextId \in Ids
    PROVE  IndInv'
<1>1. s \in Procs /\ s # Worker /\ tx'[s] = Idle
  BY ConfigAssumption, Zenon DEF Procs, IndInv, TypeInv
<1>2. nextId' \in 2 .. MaxCalls + 2 /\ nextId' >= nextId
  BY ConfigAssumption DEF IndInv, TypeInv, Ids
<1>3. Exclusion'
  BY <1>1, IdleTx, ExclusionFrame, Zenon DEF IndInv, Control
<1>4. limits' \in [Quotas -> Rows] /\ calls' \in 0 .. MaxCalls /\ wild' \in BOOLEAN
  BY Zenon DEF IndInv, TypeInv
<1>5. Shape(tx[s])' /\ RowIds(s)' /\ Outcome(s)' /\ RatioKept(s)'
  BY <1>1, IdleTx, OneRow, Zenon DEF Shape, AtCall, AtFirst, AtInsert, AtChange, AtEnd, RowIds, Outcome,
     RatioKept
<1> QED
  BY <1>1, <1>2, <1>3, <1>4, <1>5, IdleTx, OneRow, LocalStep, Zenon DEF tables

\* What the worker and the sessions have changed in target: row ids that are
\* nobody's yet.
LEMMA NewIds ==
    ASSUME IndInv, NEW u \in Procs, NEW r \in DOMAIN tx[u].newT, tx[u].newT[r] # None
    PROVE  /\ u \in Sessions /\ r = tx[u].q /\ tx[u].newT[r] < nextId
           /\ \A q \in Pairs : target[q] # tx[u].newT[r]
<1> DEFINE t == tx[u]
<1>1. u \in Sessions
  BY Zenon DEF IndInv, Control, WorkerShape, Procs
<1>2. t \in AllTx /\ Shape(t) /\ RowIds(u)
  BY <1>1, Zenon DEF IndInv, TypeInv, Control
<1>3. t.newT # Empty /\ t.pc \in Pcs /\ (t.pc # "idle" => t.q \in Primaries \cup Spaces \cup Pairs)
  BY <1>2, OneRow, TxFields, Kinds, Zenon DEF Shape, AtCall
<1>4. t.pc \in {"share", "insertC", "deleteC", "commit"} /\ t.q \in Pairs
  <2>1. t.pc \notin {"idle", "lock", "insertT", "deleteT", "updateC", "spread", "cleanT", "cleanC"}
    BY <1>2, <1>3, IdleTx, Zenon DEF Shape, AtFirst, AtChange, AtEnd
  <2>2. t.q \notin Spaces /\ t.q \notin Primaries
    BY <1>2, <1>3, <2>1, Kinds, Zenon DEF Shape, AtInsert, AtChange, AtEnd, Pcs
  <2> QED
    BY <1>3, <2>1, <2>2, Zenon DEF Pcs
<1>5. Own(u, t.newT[r]) /\ target[r] # t.newT[r] /\ r = t.q
  <2>1. CASE t.pc \in {"share", "insertC"}
    <3>1. t.newT = One(t.q, t.id)
      BY <1>2, <1>4, <2>1, Zenon DEF Shape, AtInsert
    <3>2. DOMAIN t.newT = {t.q} /\ t.newT[t.q] = t.id
      BY <3>1, Zenon DEF One
    <3> QED
      BY <1>2, <1>4, <2>1, <3>2, Zenon DEF RowIds
  <2>2. CASE t.pc = "deleteC"
    <3>1. t.newT = One(t.q, None)
      BY <1>2, <1>3, <1>4, <2>2, Zenon DEF Shape, AtChange
    <3>2. DOMAIN t.newT = {t.q} /\ t.newT[t.q] = None
      BY <3>1, Zenon DEF One
    <3> QED
      BY <3>2, Zenon
  <2>3. CASE t.pc = "commit"
    <3>1. r = t.q
      BY <1>2, <1>4, <2>3, Zenon DEF Shape, AtEnd
    <3> QED
      BY <1>2, <1>3, <1>4, <2>3, <3>1, Zenon DEF RowIds
  <2> QED
    BY <1>4, <2>1, <2>2, <2>3, Zenon
<1> QED
  BY <1>1, <1>4, <1>5, Zenon DEF Own

\* What a session asks for, and the statement that follows for its row.
LEMMA ConfigPcIs ==
    ASSUME NEW q \in Quotas, NEW v \in {Delete} \cup Limits \cup Ratios, NEW k, NEW f
    PROVE  /\ ToDelete(v) <=> v = Delete
           /\ v # None
           /\ AfterConfig(q) = IF q \in Spaces THEN "spread" ELSE "commit"
           /\ v = Delete /\ k # None /\ f[k] # NoRow => ConfigPc(q, v, k, f) = "deleteC"
           /\ v = Delete /\ (k = None \/ f[k] = NoRow) => ConfigPc(q, v, k, f) = AfterConfig(q)
           /\ v # Delete /\ k # None /\ f[k] # NoRow => ConfigPc(q, v, k, f) = "updateC"
           /\ v # Delete /\ (k = None \/ f[k] = NoRow) =>
                ConfigPc(q, v, k, f) = IF q \in Pairs THEN "share" ELSE "insertC"
<1>1. (ToDelete(v) <=> v = Delete) /\ v # None
  BY ConfigAssumption DEF ToDelete, Delete, None
<1>2. IsPair(q) <=> q \in Pairs
  BY Kinds, Zenon
<1> QED
  BY <1>1, <1>2, Zenon DEF ConfigPc, AfterConfig

\* What is known of a session between two of its statements.
LEMMA SessionFacts ==
    ASSUME IndInv, NEW s \in Sessions
    PROVE  /\ s \in Procs /\ s # Worker /\ tx \in [Procs -> AllTx] /\ tx[s] \in AllTx
           /\ Shape(tx[s]) /\ RowIds(s) /\ Outcome(s) /\ RatioKept(s)
           /\ target \in [Pairs -> {None} \cup Ids] /\ config \in [Keys -> Rows]
           /\ nextId \in Nat /\ nextId >= 2 /\ wild \in BOOLEAN
BY ConfigAssumption DEF IndInv, TypeInv, Control, Procs

\* What it sees of the tables before it has changed them.
LEMMA FreshTables ==
    ASSUME IndInv, NEW s \in Procs
    PROVE  /\ FreshT(s) \in [Pairs -> {None} \cup Ids] /\ FreshC(s) \in [Keys -> Rows]
           /\ \A q \in Pairs : FreshT(s)[q] = IF q \in DOMAIN tx[s].newT THEN tx[s].newT[q] ELSE target[q]
           /\ \A k \in Keys : FreshC(s)[k] = IF k \in DOMAIN tx[s].newC THEN tx[s].newC[k] ELSE config[k]
<1>1. tx[s] \in AllTx /\ target \in [Pairs -> {None} \cup Ids] /\ config \in [Keys -> Rows]
  BY Zenon DEF IndInv, TypeInv
<1>2. /\ tx[s].newT \in [DOMAIN tx[s].newT -> {None} \cup Ids] /\ DOMAIN tx[s].newT \subseteq Pairs
      /\ tx[s].newC \in [DOMAIN tx[s].newC -> Rows] /\ DOMAIN tx[s].newC \subseteq Keys
  BY <1>1, TxFields, SomeTypes, Zenon
<1>3. /\ FreshT(s) \in [Pairs -> {None} \cup Ids]
      /\ \A q \in Pairs : FreshT(s)[q] = IF q \in DOMAIN tx[s].newT THEN tx[s].newT[q] ELSE target[q]
  BY <1>1, <1>2, Zenon DEF FreshT, Over
<1>4. /\ FreshC(s) \in [Keys -> Rows]
      /\ \A k \in Keys : FreshC(s)[k] = IF k \in DOMAIN tx[s].newC THEN tx[s].newC[k] ELSE config[k]
  BY <1>1, <1>2, Zenon DEF FreshC, Over
<1> QED
  BY <1>3, <1>4, Zenon

\* LOCK TABLE has been granted: the call goes on by what it saw at its begin.
LEMMA LockTableInv ==
    ASSUME IndInv, NEW s \in Sessions, LockTable(s)
    PROVE  IndInv'
<1> DEFINE t == tx[s]
           pc == ConfigPc(t.q, t.v, t.q, t.snapC)
           v == [t EXCEPT !.pc = pc]
<1>1. /\ t.pc = "lock" /\ CE \in t.held /\ tx' = [tx EXCEPT ![s] = v]
      /\ UNCHANGED <<alive, tables, nextId, limits, calls, events, last, crossed, wild>>
  BY LockNames, Zenon DEF LockTable, At, Only, history
<1>2. /\ t \in AllTx /\ Shape(t) /\ Outcome(s) /\ s \in Procs /\ tx \in [Procs -> AllTx] /\ wild \in BOOLEAN
  BY SessionFacts, Zenon
<1>3. /\ t.q \in Spaces /\ t.q \in Quotas /\ t.q \in Objects /\ t.q \in Keys /\ t.q # None
      /\ t.q \notin Pairs /\ t.q \notin Primaries
      /\ t.v \in {Delete} \cup Ratios /\ t.newT = Empty /\ t.newC = Empty
      /\ t.held = {CE} /\ t.snapC \in [Keys -> Rows] /\ \A k \in Ids : t.snapC[k] # NoRow => k < nextId
  <2>1. t.q \in Spaces /\ t.q \in Quotas
    BY <1>1, <1>2, Zenon DEF Shape, AtCall, AtFirst
  <2> QED
    BY <1>1, <1>2, <2>1, Kinds DEF Shape, AtCall, AtFirst
<1>4. /\ t.v = Delete /\ t.snapC[t.q] # NoRow => pc = "deleteC"
      /\ t.v = Delete /\ t.snapC[t.q] = NoRow => pc = "spread"
      /\ t.v # Delete /\ t.snapC[t.q] # NoRow => pc = "updateC"
      /\ t.v # Delete /\ t.snapC[t.q] = NoRow => pc = "insertC"
      /\ (ToDelete(t.v) <=> t.v = Delete)
  <2>1. t.v \in Values \cup {Delete}
    BY <1>3, Zenon DEF Values
  <2> QED
    BY <1>3, <2>1, ConfigPcIs
<1>5. pc \in {"deleteC", "spread", "updateC", "insertC"}
  BY <1>4, Zenon
<1>6. /\ v \in AllTx /\ v.pc = pc /\ v.q = t.q /\ v.v = t.v /\ v.held = t.held /\ v.newT = t.newT
      /\ v.newC = t.newC /\ v.others = t.others /\ v.snapC = t.snapC /\ v.id = t.id
  BY <1>2, <1>5, ZenonT(40) DEF AllTx, TxRecords, Pcs
<1> HIDE DEF v, pc
<1>7. tx'[s] = v
  BY <1>1, <1>2, Zenon
<1>8. Shape(tx[s])'
  BY <1>1, <1>3, <1>4, <1>5, <1>6, <1>7, OneRow
     DEF Shape, AtCall, AtFirst, AtInsert, AtChange, AtEnd
<1>9. RowIds(s)' /\ RatioKept(s)'
  BY <1>3, <1>5, <1>6, <1>7, Zenon DEF RowIds, RatioKept
<1>10. Outcome(s)'
  <2>1. config'[t.q] = config[t.q] /\ last' = last /\ alive' = alive
    BY <1>1, Zenon DEF tables
  <2>3. v.others # {} => v.others = last'[v.q]
    BY <1>2, <1>6, <2>1, Zenon DEF Outcome
  <2>4. pc = "updateC" /\ Alone(t) => config[t.q] # NoRow
    BY <1>1, <1>2, <1>4, Zenon DEF Outcome
  <2>5. pc = "spread" /\ Alone(t) => Amount(t.q, config[t.q]) = AskedFor(v)
    BY <1>1, <1>2, <1>3, <1>4, <1>6, RowTypes, Zenon DEF Outcome, Amount, AskedFor
  <2> QED
    BY <1>3, <1>5, <1>6, <1>7, <2>1, <2>3, <2>4, <2>5, OneRow, Zenon DEF Outcome, Alone, Amount, AskedFor
<1> QED
  BY <1>1, <1>2, <1>3, <1>5, <1>6, <1>7, <1>8, <1>9, <1>10, SessionStep, Zenon

\* The ratio is read under the ROW SHARE lock.
LEMMA GetRatioInv ==
    ASSUME IndInv, NEW s \in Sessions, GetRatio(s)
    PROVE  IndInv'
<1> DEFINE t == tx[s]
           x == RatioOf(s, t.q[2])
           v == [t EXCEPT !.ratio = x, !.pc = "insertC"]
<1>1. /\ t.pc = "share" /\ CS \in t.held /\ tx' = [tx EXCEPT ![s] = v]
      /\ UNCHANGED <<alive, tables, nextId, limits, calls, events, last, crossed, wild>>
  BY LockNames, Zenon DEF GetRatio, At, Only, history
<1>2. /\ t \in AllTx /\ Shape(t) /\ Outcome(s) /\ RowIds(s) /\ s \in Procs
      /\ tx \in [Procs -> AllTx] /\ wild \in BOOLEAN /\ config \in [Keys -> Rows]
  BY SessionFacts, Zenon
<1>3. /\ t.q \in Pairs /\ t.q \in Quotas /\ t.q \notin Spaces /\ t.q \notin Primaries
      /\ t.q \notin Objects
      /\ t.newC = Empty /\ t.newT = One(t.q, t.id) /\ t.id # None /\ t.v # Delete
      /\ t.held = {TR, CS}
  BY <1>1, <1>2, Kinds DEF Shape, AtCall, AtInsert
<1>4. x = config[t.q[2]].ratio /\ x \in Ratios \cup {None}
  <2>1. t.q[2] \in Keys
    BY <1>3, Kinds, Zenon DEF Keys
  <2>2. FreshC(s)[t.q[2]] = config[t.q[2]]
    BY <1>2, <1>3, <2>1, FreshTables, OneRow, ZenonT(40)
  <2> QED
    BY <1>2, <2>1, <2>2, RowTypes, Zenon DEF RatioOf
<1>5. /\ v \in AllTx /\ v.pc = "insertC" /\ v.q = t.q /\ v.v = t.v /\ v.held = t.held
      /\ v.newT = t.newT /\ v.newC = t.newC /\ v.others = t.others /\ v.snapC = t.snapC
      /\ v.id = t.id /\ v.ratio = x
  BY <1>2, <1>4, Zenon DEF AllTx, TxRecords, Pcs
<1> HIDE DEF v, x
<1>6. tx'[s] = v /\ \A u \in Procs \ {s} : tx'[u] = tx[u]
  BY <1>1, <1>2, Zenon
<1>7. Shape(tx[s])'
  BY <1>1, <1>2, <1>3, <1>5, <1>6, OneRow, Zenon DEF Shape, AtCall, AtFirst, AtInsert, AtChange, AtEnd
<1>8. RowIds(s)'
  <2>1. Own(s, t.id) /\ target[t.q] # t.id
    BY <1>1, <1>2, <1>3, Zenon DEF RowIds
  <2> QED
    BY <1>1, <1>5, <1>6, <2>1 DEF RowIds, Own, tables
<1>9. RatioKept(s)'
  BY <1>1, <1>4, <1>5, <1>6, Zenon DEF RatioKept, tables
<1>10. Outcome(s)'
  BY <1>1, <1>2, <1>5, <1>6, Zenon DEF Outcome
<1> QED
  BY <1>1, <1>2, <1>5, <1>6, <1>7, <1>8, <1>9, <1>10, SessionStep, Zenon

\* The transaction after a first change to quota_config.
LEMMA PutTx ==
    ASSUME NEW t \in AllTx, t.newC = Empty, NEW k \in Keys, NEW row \in Rows, NEW pc \in Pcs
    PROVE  LET v == Goto([t EXCEPT !.newC = Over(One(k, row), t.newC)], pc) IN
           /\ v \in AllTx /\ v.pc = pc /\ v.q = t.q /\ v.v = t.v /\ v.held = t.held
           /\ v.newT = t.newT /\ v.others = t.others
           /\ v.newC = One(k, row) /\ DOMAIN v.newC = {k} /\ v.newC[k] = row
<1> DEFINE w == [t EXCEPT !.newC = Over(One(k, row), t.newC)]
<1>1. Over(One(k, row), t.newC) = One(k, row) /\ One(k, row) \in SomeRows
  BY OneTypes, Zenon
<1>2. /\ w \in AllTx /\ w.q = t.q /\ w.v = t.v /\ w.held = t.held /\ w.newT = t.newT
      /\ w.others = t.others /\ w.newC = One(k, row)
  BY <1>1, Zenon DEF AllTx, TxRecords
<1> HIDE DEF w
<1>3. DOMAIN One(k, row) = {k} /\ One(k, row)[k] = row
  BY Zenon DEF One
<1>4. Goto(w, pc).newC = One(k, row)
  BY <1>2, GotoTx, Zenon
<1>5. /\ Goto(w, pc) \in AllTx /\ Goto(w, pc).pc = pc /\ Goto(w, pc).q = t.q /\ Goto(w, pc).v = t.v
      /\ Goto(w, pc).held = t.held /\ Goto(w, pc).newT = t.newT /\ Goto(w, pc).others = t.others
  BY <1>2, GotoTx, Zenon
<1>6. LET v == Goto(w, pc) IN
           /\ v \in AllTx /\ v.pc = pc /\ v.q = t.q /\ v.v = t.v /\ v.held = t.held
           /\ v.newT = t.newT /\ v.others = t.others
           /\ v.newC = One(k, row) /\ DOMAIN v.newC = {k} /\ v.newC[k] = row
  BY <1>3, <1>4, <1>5, Zenon
<1> QED
  BY <1>6, Zenon DEF w

\* A session about to change a row of quota_config.
LEMMA Changing ==
    ASSUME IndInv, NEW s \in Sessions, tx[s].pc \in {"insertC", "updateC", "deleteC"}
    PROVE  LET t == tx[s] IN
           /\ t.q \in Primaries \/ t.q \in Spaces \/ t.q \in Pairs
           /\ t.q \in Quotas /\ t.newC = Empty
           /\ t.v \in {Delete} \cup (IF t.q \in Spaces THEN Ratios ELSE Limits)
           /\ AfterConfig(t.q) = IF t.q \in Spaces THEN "spread" ELSE "commit"
           /\ AfterConfig(t.q) \in Pcs
           /\ KeyOf(t) \in Keys
           /\ t.q \in Objects => KeyOf(t) = t.q
           /\ t.q \in Pairs => KeyOf(t) = t.id /\ t.id \in Ids
           /\ FreshC(s)[KeyOf(t)] = config[KeyOf(t)]
<1> DEFINE t == tx[s]
<1>1. s \in Procs /\ t \in AllTx /\ Shape(t)
  BY SessionFacts, Zenon
<1>2. /\ t.q \in Quotas /\ t.newC = Empty
      /\ t.v \in {Delete} \cup (IF t.q \in Spaces THEN Ratios ELSE Limits)
  BY <1>1, Zenon DEF Shape, AtCall
<1>3. t.q \in Pairs => t.id \in Ids
  BY <1>1, TxFields, Zenon DEF Shape, AtInsert, AtChange
<1>4. AfterConfig(t.q) = (IF t.q \in Spaces THEN "spread" ELSE "commit") /\ AfterConfig(t.q) \in Pcs
  BY Zenon DEF AfterConfig, Pcs
<1>5. /\ KeyOf(t) \in Keys
      /\ t.q \in Objects => KeyOf(t) = t.q
      /\ t.q \in Pairs => KeyOf(t) = t.id
      /\ t.q \in Primaries \/ t.q \in Spaces \/ t.q \in Pairs
  BY <1>2, <1>3, Kinds, Zenon DEF KeyOf
<1>6. FreshC(s)[KeyOf(t)] = config[KeyOf(t)]
  BY <1>1, <1>2, <1>5, FreshTables, OneRow, Zenon
<1> QED
  BY <1>2, <1>3, <1>4, <1>5, <1>6, Zenon

\* The value of a call that does not delete.
LEMMA ChangingValue ==
    ASSUME IndInv, NEW s \in Sessions, tx[s].pc \in {"insertC", "updateC", "deleteC"},
           tx[s].v # Delete
    PROVE  /\ tx[s].v \in (IF tx[s].q \in Spaces THEN Ratios ELSE Limits)
           /\ tx[s].v # None /\ ~ToDelete(tx[s].v)
<1>1. tx[s].q \in Quotas /\ tx[s].v \in {Delete} \cup (IF tx[s].q \in Spaces THEN Ratios ELSE Limits)
  BY Changing, Zenon
<1>2. tx[s].v \in {Delete} \cup Limits \cup Ratios
  BY <1>1, Zenon
<1>3. (ToDelete(tx[s].v) <=> tx[s].v = Delete) /\ tx[s].v # None
  BY <1>1, <1>2, ConfigPcIs, Zenon
<1> QED
  BY <1>1, <1>3, Zenon

\* A change of one row of quota_config, by what has to be known of the row.
LEMMA PutStep ==
    ASSUME IndInv, NEW s \in Sessions, tx[s].pc \in {"insertC", "updateC", "deleteC"},
           tx[s].held \cap {CE, CR} # {}, NEW row \in Rows,
           Put(s, row, AfterConfig(tx[s].q)),
           tx[s].q \in Objects => Amount(tx[s].q, row) = AskedFor(tx[s]),
           tx[s].q \in Pairs =>
              /\ row # NoRow => Own(s, tx[s].id) /\ row.limit = tx[s].v
              /\ row = NoRow /\ ~wild => target[tx[s].q] = tx[s].id /\ tx[s].newT = One(tx[s].q, None)
              /\ tx[s].newT # Empty /\ tx[s].newT[tx[s].q] # None =>
                   row # NoRow /\ target[tx[s].q] # tx[s].id /\ tx[s].newT[tx[s].q] = tx[s].id
              /\ tx[s].newT # Empty /\ tx[s].newT[tx[s].q] = None => tx[s].v = Delete
              /\ tx[s].newT = Empty /\ ~wild /\ Alone(tx[s]) => target[tx[s].q] = tx[s].id
              /\ /\ row # NoRow /\ (tx[s].newT # Empty \/ target[tx[s].q] = tx[s].id)
                 /\ tx[s].q[2] \in alive /\ tx[s].q[2] \notin crossed
                 => row.ratio = config[tx[s].q[2]].ratio
    PROVE  IndInv'
<1> DEFINE t == tx[s]
<1>1. /\ s \in Procs /\ tx \in [Procs -> AllTx] /\ t \in AllTx /\ Shape(t) /\ RowIds(s) /\ Outcome(s)
      /\ wild \in BOOLEAN
  BY SessionFacts, Zenon
<1>k. PICK k \in Keys : k = KeyOf(t)
  BY Changing, Zenon
<1>3. /\ t.q \in Primaries \/ t.q \in Spaces \/ t.q \in Pairs
      /\ t.q \in Quotas /\ t.newC = Empty /\ k \in Keys
      /\ t.v \in {Delete} \cup (IF t.q \in Spaces THEN Ratios ELSE Limits)
      /\ AfterConfig(t.q) = IF t.q \in Spaces THEN "spread" ELSE "commit"
      /\ AfterConfig(t.q) \in Pcs
      /\ t.q \in Objects => k = t.q
      /\ t.q \in Pairs => k = t.id /\ k \in Ids
  BY <1>k, Changing, Zenon
<1>v. PICK v : v = Goto([t EXCEPT !.newC = Over(One(k, row), t.newC)], AfterConfig(t.q))
  BY Zenon
<1>2. /\ tx' = [tx EXCEPT ![s] = v]
      /\ UNCHANGED <<alive, tables, nextId, limits, calls, events, last, crossed, wild>>
  BY <1>k, <1>v, Zenon DEF Put, Only, history
<1>4. /\ v \in AllTx /\ v.pc = AfterConfig(t.q) /\ v.q = t.q /\ v.v = t.v /\ v.held = t.held
      /\ v.newT = t.newT /\ v.others = t.others
      /\ v.newC = One(k, row) /\ DOMAIN v.newC = {k} /\ v.newC[k] = row
  BY <1>1, <1>3, <1>v, PutTx
<1>5. tx'[s] = v /\ \A u \in Procs \ {s} : tx'[u] = tx[u]
  BY <1>1, <1>2, Zenon
<1>6. /\ t.q \in Spaces => v.pc = "spread" /\ t.q \in Objects /\ t.q \notin Pairs /\ t.q \notin Primaries
      /\ t.q \in Primaries => v.pc = "commit" /\ t.q \in Objects /\ t.q \notin Pairs /\ t.q \notin Spaces
      /\ t.q \in Pairs => v.pc = "commit" /\ t.q \notin Objects /\ t.q \notin Spaces /\ t.q \notin Primaries
  BY <1>3, <1>4, Kinds, Zenon
<1>7. /\ t.q \in Spaces => t.newT = Empty /\ CE \in t.held
      /\ t.q \in Primaries => t.newT = Empty
      /\ t.q \in Pairs => /\ DOMAIN t.newT \subseteq {t.q}
                          /\ t.newT # Empty /\ t.newT[t.q] = None => TE \in t.held
      /\ DOMAIN t.newT # {} => t.held \cap {TE, TR} # {}
  <2>1. \A i : DOMAIN One(t.q, i) = {t.q} /\ One(t.q, i)[t.q] = i
    BY Zenon DEF One
  <2>2. /\ t.pc = "insertC" \/ t.pc = "updateC" \/ t.pc = "deleteC"
        /\ AtInsert(t) /\ AtChange(t)
        /\ DOMAIN t.newT # {} => t.held \cap {TE, TR} # {}
    BY <1>1, Zenon DEF Shape
  <2>3. t.q \in Spaces => t.newT = Empty /\ CE \in t.held
    BY <1>6, <2>2, Zenon DEF AtInsert, AtChange
  <2>4. t.q \in Primaries => t.newT = Empty
    BY <1>6, <2>2, Zenon DEF AtInsert, AtChange
  <2>5. t.q \in Pairs => DOMAIN t.newT \subseteq {t.q}
    <3>1. t.q \in Pairs => t.newT = Empty \/ \E i : t.newT = One(t.q, i)
      BY <1>6, <2>2, Zenon DEF AtInsert, AtChange
    <3>2. t.newT = Empty => DOMAIN t.newT = {}
      BY OneRow, Zenon
    <3>3. ASSUME NEW i, t.newT = One(t.q, i) PROVE DOMAIN t.newT = {t.q}
      BY <2>1, <3>3, Zenon
    <3> QED
      BY <3>1, <3>2, <3>3, Zenon
  <2>6. ASSUME t.q \in Pairs, t.newT # Empty, t.newT[t.q] = None PROVE TE \in t.held
    BY <1>6, <2>1, <2>2, <2>6, Zenon DEF AtInsert, AtChange
  <2> QED
    BY <2>2, <2>3, <2>4, <2>5, <2>6, Zenon
<1>8. Shape(tx[s])'
  <2>1. AtCall(v) /\ v.pc \in {"spread", "commit"}
    BY <1>1, <1>3, <1>4, Zenon DEF Shape, AtCall
  <2>2. AtEnd(v)
    <3>1. v.q \in Pairs => /\ DOMAIN v.newT \subseteq {v.q} /\ DOMAIN v.newC \subseteq Ids
                           /\ v.newT # Empty /\ v.newT[v.q] = None => TE \in v.held
      BY <1>3, <1>4, <1>7, Zenon
    <3>2. /\ v.q \in Spaces => v.newT = Empty /\ CE \in v.held /\ DOMAIN v.newC \subseteq {v.q}
          /\ v.q \in Primaries => v.newT = Empty /\ DOMAIN v.newC \subseteq {v.q}
          /\ v.pc = "spread" => v.q \in Spaces
      BY <1>3, <1>4, <1>6, <1>7, Zenon
    <3> QED
      BY <3>1, <3>2, Zenon DEF AtEnd
  <2>3. AtFirst(v) /\ AtInsert(v)
    BY <2>1, Zenon DEF AtFirst, AtInsert
  <2> QED
    BY <1>4, <1>5, <1>7, <2>1, <2>2, <2>3, Zenon DEF Shape, AtCall, AtFirst, AtInsert, AtChange, AtEnd
<1>9. RowIds(s)'
  <2>1. CASE t.q \in Pairs
    <3>1. /\ row # NoRow => row.limit = v.v
          /\ row = NoRow /\ ~wild' => target'[t.q] = k /\ v.newT = One(v.q, None)
          /\ target' = target
      BY <1>2, <1>3, <1>4, <1>5, <2>1, Zenon DEF Own, tables
    <3>2. row # NoRow => Own(s, k)'
      <4>1. row # NoRow => Own(s, k)
        BY <1>3, <2>1, Zenon
      <4>2. target' = target /\ nextId' = nextId /\ tx'[s].q = t.q
        BY <1>2, <1>4, <1>5, Zenon DEF tables
      <4>3. ASSUME row # NoRow
            PROVE  /\ k < nextId'
                   /\ \A r \in Pairs \ {tx'[s].q} : target'[r] # k
                   /\ \A u \in Procs \ {s} : \A r \in DOMAIN tx'[u].newT : tx'[u].newT[r] # k
        <5>1. /\ k < nextId
              /\ \A r \in Pairs \ {t.q} : target[r] # k
              /\ \A u \in Procs \ {s} : \A r \in DOMAIN tx[u].newT : tx[u].newT[r] # k
          BY <4>1, <4>3, Zenon DEF Own
        <5> QED
          BY <1>5, <4>2, <5>1, Zenon
      <4> QED
        BY <4>3, Zenon DEF Own
    <3>3. v.newT # Empty /\ v.newT[v.q] # None =>
             v.newT[v.q] = k /\ target'[v.q] # v.newT[v.q] /\ row # NoRow
      BY <1>3, <1>4, <2>1, <3>1, Zenon
    <3>4. v.newT # Empty /\ v.newT[v.q] # None => Own(s, tx[s].newT[tx[s].q])'
      BY <1>5, <3>2, <3>3, Zenon DEF Own
    <3>5. v.pc = "commit" /\ v.q = t.q /\ v.q \notin Spaces
      BY <1>4, <1>6, <2>1, Zenon
    <3>6. ASSUME NEW i \in DOMAIN v.newC
          PROVE  /\ v.newC[i] # NoRow => Own(s, i)' /\ v.newC[i].limit = v.v
                 /\ v.newC[i] = NoRow /\ ~wild' => target'[v.q] = i /\ v.newT = One(v.q, None)
      BY <1>4, <3>1, <3>2, <3>5, Zenon
    <3>7. v.newT # Empty /\ v.newT[v.q] # None =>
             DOMAIN v.newC = {v.newT[v.q]} /\ v.newC[v.newT[v.q]] # NoRow
      BY <1>4, <3>3, Zenon
    <3> QED
      BY <1>5, <3>3, <3>4, <3>5, <3>6, <3>7, Zenon DEF RowIds
  <2>2. CASE t.q \notin Pairs
    BY <1>3, <1>4, <1>5, <1>6, <2>2, Zenon DEF RowIds
  <2> QED
    BY <2>1, <2>2, Zenon
<1>10. Outcome(s)'
  <2>1. /\ config' = config /\ target' = target /\ last' = last /\ alive' = alive /\ wild' = wild
    BY <1>2, Zenon DEF tables
  <2>2. v.others # {} => v.others = last'[v.q]
    BY <1>1, <1>4, <2>1, Zenon DEF Outcome
  <2>3. v.q \in Objects => v.q \in DOMAIN v.newC /\ Amount(v.q, v.newC[v.q]) = AskedFor(v)
    BY <1>3, <1>4, Zenon DEF AskedFor
  <2>4. v.q \in Pairs =>
         /\ v.newT # Empty /\ v.newT[v.q] = None => v.v = Delete
         /\ v.newT = Empty /\ ~wild' /\ PartsOf(v.q) \subseteq alive' /\ v.others = {} =>
              DOMAIN v.newC # {} /\ \A i \in DOMAIN v.newC : target'[v.q] = i
    BY <1>3, <1>4, <2>1, Zenon DEF Alone
  <2> QED
    BY <1>3, <1>4, <1>5, <2>2, <2>3, <2>4, Zenon DEF Outcome, Alone
<1>11. RatioKept(s)'
  <2>1. /\ config' = config /\ target' = target /\ alive' = alive /\ crossed' = crossed
    BY <1>2, Zenon DEF tables
  <2>2. v.pc # "insertC" /\ (v.pc = "commit" => v.q \notin Spaces)
    BY <1>3, <1>4, <1>6, Zenon
  <2> QED
    BY <1>3, <1>4, <1>5, <2>1, <2>2, Zenon DEF RatioKept
<1> QED
  BY <1>1, <1>2, <1>3, <1>4, <1>5, <1>8, <1>9, <1>10, <1>11, SessionStep, Zenon

\* INSERT into quota_config: the row is new, or the call fails.
LEMMA InsertConfigInv ==
    ASSUME IndInv, NEW s \in Sessions, InsertConfig(s)
    PROVE  IndInv'
<1> DEFINE t == tx[s]
           row == IF t.q \in Spaces THEN [limit |-> None, ratio |-> t.v]
                                    ELSE [limit |-> t.v, ratio |-> t.ratio]
<1>1. t.pc = "insertC" /\ CR \in t.held
  BY LockNames, Zenon DEF InsertConfig, At
<1>2. CASE FreshC(s)[KeyOf(t)] # NoRow
  <2>1. RollBack(s)
    BY <1>2, Zenon DEF InsertConfig
  <2>2. events' \in 0 .. MaxEvents
    BY <2>1, Zenon DEF RollBack, Only, IndInv, TypeInv
  <2> QED
    BY <2>1, <2>2, SessionEnds, Zenon DEF RollBack, Only, history
<1>3. CASE FreshC(s)[KeyOf(t)] = NoRow
  <2>1. Put(s, row, AfterConfig(t.q))
    BY <1>3, Zenon DEF InsertConfig
  <2>2. t \in AllTx /\ Shape(t) /\ RowIds(s) /\ RatioKept(s)
    BY SessionFacts, Zenon
  <2>3. /\ t.q \in Quotas /\ t.v \in (IF t.q \in Spaces THEN Ratios ELSE Limits)
        /\ t.ratio \in Ratios \cup {None} /\ t.v # None /\ ~ToDelete(t.v)
    <3>1. t.v # Delete
      BY <1>1, <2>2, Zenon DEF Shape, AtInsert
    <3>2. t.q \in Quotas /\ t.ratio \in Ratios \cup {None}
      BY <1>1, <2>2, Changing, TxFields, Zenon
    <3> QED
      BY <1>1, <3>1, <3>2, ChangingValue, Zenon
  <2>4. row \in Rows /\ Amount(t.q, row) = t.v
    BY <2>3, RowTypes, Zenon DEF Amount
  <2>5. t.q \in Pairs => row # NoRow /\ row.limit = t.v /\ row.ratio = t.ratio
    BY <2>3, Kinds, Zenon DEF NoRow
  <2>6. t.q \in Pairs => /\ t.newT = One(t.q, t.id) /\ t.id # None
                         /\ Own(s, t.id) /\ target[t.q] # t.id
                         /\ t.ratio = config[t.q[2]].ratio
    BY <1>1, <2>2, Zenon DEF Shape, AtInsert, RowIds, RatioKept
  <2>7. t.q \in Pairs => t.newT # Empty /\ t.newT[t.q] = t.id
    BY <2>6, OneRow, Zenon DEF One
  <2>8. Amount(t.q, row) = AskedFor(t)
    BY <2>3, <2>4, Zenon DEF AskedFor
  <2> HIDE DEF row
  <2> QED
    BY <1>1, <2>1, <2>4, <2>5, <2>6, <2>7, <2>8, PutStep, Zenon
<1> QED
  BY <1>2, <1>3, Zenon

\* UPDATE of a row of quota_config that is no longer there changes nothing: the
\* call was not alone.
LEMMA UpdateNothingInv ==
    ASSUME IndInv, NEW s \in Sessions, tx[s].pc = "updateC", CE \in tx[s].held,
           config[KeyOf(tx[s])] = NoRow,
           Only([tx EXCEPT ![s] = Goto(tx[s], AfterConfig(tx[s].q))])
    PROVE  IndInv'
<1> DEFINE t == tx[s]
<1>1. /\ s \in Procs /\ tx \in [Procs -> AllTx] /\ t \in AllTx /\ Shape(t) /\ RowIds(s) /\ Outcome(s)
      /\ wild \in BOOLEAN
  BY SessionFacts, Zenon
<1>2. PICK v : v = Goto(t, AfterConfig(t.q))
  BY Zenon
<1>3. /\ tx' = [tx EXCEPT ![s] = v]
      /\ UNCHANGED <<alive, tables, nextId, limits, calls, events, last, crossed, wild>>
  BY <1>2, Zenon DEF Only, history
<1>4. /\ t.q \in Primaries \/ t.q \in Spaces \/ t.q \in Pairs
      /\ t.q \in Quotas /\ t.newC = Empty /\ t.newT = Empty /\ t.held \subseteq {CE}
      /\ AfterConfig(t.q) = IF t.q \in Spaces THEN "spread" ELSE "commit"
      /\ AfterConfig(t.q) \in Pcs
  BY <1>1, Changing, Zenon DEF Shape, AtChange
<1>5. /\ v \in AllTx /\ v.pc = AfterConfig(t.q) /\ v.q = t.q /\ v.v = t.v /\ v.held = t.held
      /\ v.newT = Empty /\ v.newC = Empty /\ v.others = t.others
  BY <1>1, <1>2, <1>4, GotoTx, Zenon
<1>6. tx'[s] = v
  BY <1>1, <1>3, Zenon
<1>7. /\ t.q \in Spaces => v.pc = "spread" /\ t.q \in Objects /\ t.q \notin Pairs /\ t.q \notin Primaries
      /\ t.q \in Primaries => v.pc = "commit" /\ t.q \in Objects /\ t.q \notin Pairs /\ t.q \notin Spaces
      /\ t.q \in Pairs => v.pc = "commit" /\ t.q \notin Objects /\ t.q \notin Spaces /\ t.q \notin Primaries
  BY <1>4, <1>5, Kinds, Zenon
<1>8. Shape(tx[s])'
  <2>1. AtCall(v) /\ v.pc \in {"spread", "commit"}
    BY <1>1, <1>4, <1>5, Zenon DEF Shape, AtCall
  <2>2. AtEnd(v)
    BY <1>4, <1>5, <1>7, OneRow, Zenon DEF AtEnd
  <2> QED
    BY <1>5, <1>6, <2>1, <2>2, OneRow, Zenon DEF Shape, AtCall, AtFirst, AtInsert, AtChange, AtEnd
<1>9. RowIds(s)' /\ RatioKept(s)'
  BY <1>4, <1>5, <1>6, <1>7, OneRow, Zenon DEF RowIds, RatioKept
<1>10. Outcome(s)'
  <2>1. /\ config' = config /\ target' = target /\ last' = last /\ alive' = alive /\ wild' = wild
    BY <1>3, Zenon DEF tables
  <2>2. Alone(t) => t.q \in Pairs /\ wild
    BY <1>1, <1>4, <1>7, Changing, Zenon DEF Outcome
  <2>3. v.others # {} => v.others = last'[v.q]
    BY <1>1, <1>5, <2>1, Zenon DEF Outcome
  <2> QED
    BY <1>4, <1>5, <1>6, <1>7, <2>1, <2>2, <2>3, OneRow, Zenon DEF Outcome, Alone
<1> QED
  BY <1>1, <1>3, <1>4, <1>5, <1>6, <1>8, <1>9, <1>10, OneRow, SessionStep, Zenon

\* UPDATE of quota_config.
LEMMA UpdateConfigInv ==
    ASSUME IndInv, NEW s \in Sessions, UpdateConfig(s)
    PROVE  IndInv'
<1> DEFINE t == tx[s]
<1>1. t.pc = "updateC" /\ CE \in t.held
  BY LockNames, Zenon DEF UpdateConfig, At
<1>2. PICK old : old = config[KeyOf(t)]
  BY Zenon
<1>3. FreshC(s)[KeyOf(t)] = old /\ KeyOf(t) \in Keys /\ config \in [Keys -> Rows]
  BY <1>1, <1>2, Changing, SessionFacts, Zenon
<1>4. CASE old = NoRow
  BY <1>1, <1>2, <1>3, <1>4, UpdateNothingInv, Zenon DEF UpdateConfig
<1>5. CASE old # NoRow
  <2>1. PICK row : row = Updated(t, old)
    BY Zenon
  <2>2. Put(s, row, AfterConfig(t.q))
    BY <1>3, <1>5, <2>1, Zenon DEF UpdateConfig
  <2>3. t \in AllTx /\ Shape(t) /\ RowIds(s) /\ Outcome(s) /\ old \in Rows
    BY <1>2, <1>3, SessionFacts, Zenon
  <2>4. /\ t.q \in Quotas /\ t.v \in (IF t.q \in Spaces THEN Ratios ELSE Limits)
        /\ t.v # None /\ ~ToDelete(t.v) /\ t.newT = Empty
    <3>1. t.v # Delete /\ t.newT = Empty
      BY <1>1, <2>3, Zenon DEF Shape, AtChange
    <3>2. t.q \in Quotas
      BY <1>1, Changing, Zenon
    <3> QED
      BY <1>1, <3>1, <3>2, ChangingValue, Zenon
  <2>5. row \in Rows /\ Amount(t.q, row) = t.v
    BY <2>1, <2>3, <2>4, RowTypes, Zenon DEF Amount, Updated, Rows
  <2>6. t.q \in Pairs => row # NoRow /\ row.limit = t.v /\ row.ratio = old.ratio
    BY <2>1, <2>3, <2>4, Kinds, RowTypes, ZenonT(40) DEF Updated, Rows
  <2>7. t.q \in Pairs => /\ Own(s, t.id) /\ t.id = KeyOf(t) /\ t.id # None
                         /\ ~wild /\ Alone(t) => target[t.q] = t.id
    <3>1. t.q \in Pairs => Own(s, t.id)
      BY <1>1, <2>3, Zenon DEF RowIds
    <3>2. t.q \in Pairs => t.id = KeyOf(t) /\ t.id # None
      BY <1>1, Changing, Kinds, Zenon
    <3>3. t.q \in Pairs /\ ~wild /\ Alone(t) => target[t.q] = t.id
      BY <1>1, <2>3, Zenon DEF Outcome
    <3> QED
      BY <3>1, <3>2, <3>3, Zenon
  <2>8. Amount(t.q, row) = AskedFor(t)
    BY <2>4, <2>5, Zenon DEF AskedFor
  <2>9. /\ t.q \in Pairs /\ target[t.q] = t.id /\ t.q[2] \in alive /\ t.q[2] \notin crossed
        => row.ratio = config[t.q[2]].ratio
    BY <1>2, <1>5, <2>6, <2>7, Zenon DEF IndInv, RatioFollowsTablespace
  <2> QED
    BY <1>1, <2>2, <2>4, <2>5, <2>6, <2>7, <2>8, <2>9, PutStep, Zenon
<1> QED
  BY <1>4, <1>5, Zenon

\* DELETE from quota_config.
LEMMA DeleteConfigInv ==
    ASSUME IndInv, NEW s \in Sessions, DeleteConfig(s)
    PROVE  IndInv'
<1> DEFINE t == tx[s]
<1>1. t.pc = "deleteC" /\ CE \in t.held /\ Put(s, NoRow, AfterConfig(t.q))
  BY LockNames, Zenon DEF DeleteConfig, At
<1>2. t \in AllTx /\ Shape(t) /\ RowIds(s)
  BY SessionFacts, Zenon
<1>3. t.v = Delete /\ AskedFor(t) = None
  <2>1. t.v = Delete
    BY <1>1, <1>2, Zenon DEF Shape, AtChange
  <2>2. ToDelete(Delete)
    BY DEF ToDelete, Delete
  <2> QED
    BY <2>1, <2>2, Zenon DEF AskedFor
<1>4. NoRow \in Rows /\ Amount(t.q, NoRow) = None
  BY RowTypes, Zenon DEF Amount
<1>5. t.q \in Pairs => /\ t.newT = One(t.q, None) \/ (wild /\ t.newT = Empty)
                       /\ ~wild => target[t.q] = t.id
  BY <1>1, <1>2, Zenon DEF Shape, AtChange, RowIds
<1>6. One(t.q, None)[t.q] = None
  BY Zenon DEF One
<1> QED
  BY <1>1, <1>3, <1>4, <1>5, <1>6, PutStep, Zenon

\* The ratio of a tablespace is written into the rows of its quotas.
LEMMA SpreadInv ==
    ASSUME IndInv, NEW s \in Sessions, Spread(s)
    PROVE  IndInv'
<1> DEFINE t == tx[s]
           rows == {i \in Ids : /\ FreshC(s)[i] # NoRow
                                /\ \E p \in Primaries : FreshT(s)[<<p, t.q>>] = i}
           put == [i \in rows |-> [FreshC(s)[i] EXCEPT !.ratio = SpreadRatio(t.v)]]
           w == [t EXCEPT !.newC = Over(put, t.newC)]
<1>1. /\ s \in Procs /\ tx \in [Procs -> AllTx] /\ t \in AllTx /\ Shape(t) /\ Outcome(s)
      /\ wild \in BOOLEAN /\ config \in [Keys -> Rows] /\ target \in [Pairs -> {None} \cup Ids]
  BY SessionFacts, Zenon
<1>2. /\ t.pc = "spread" /\ tx' = [tx EXCEPT ![s] = Goto(w, "commit")]
      /\ UNCHANGED <<alive, tables, nextId, limits, calls, events, last, crossed, wild>>
  BY Zenon DEF Spread, At, Only, history
<1>3. /\ t.q \in Spaces /\ t.q \in Quotas /\ t.q \in Objects /\ t.q \notin Ids /\ t.q \notin Pairs
      /\ t.q \notin Primaries
      /\ CE \in t.held /\ t.newT = Empty /\ DOMAIN t.newC \subseteq {t.q}
      /\ t.v \in {Delete} \cup Ratios /\ t.newC \in SomeRows
  <2>1. t.q \in Spaces /\ t.q \in Quotas
    BY <1>1, <1>2, Zenon DEF Shape, AtEnd, AtCall
  <2> QED
    BY <1>1, <1>2, <2>1, Kinds, TxFields, Zenon DEF Shape, AtCall, AtEnd
<1>4. \A i \in Ids : FreshC(s)[i] = config[i] /\ i \notin DOMAIN t.newC /\ config[i] \in Rows
  BY <1>1, <1>3, FreshTables, Kinds, SMTT(30)
<1>5. \A p \in Primaries : FreshT(s)[<<p, t.q>>] = target[<<p, t.q>>] /\ <<p, t.q>> \in Pairs
  <2>1. \A p \in Primaries : <<p, t.q>> \in Pairs
    BY <1>3, Zenon DEF Pairs
  <2> QED
    BY <1>1, <1>3, <2>1, FreshTables, OneRow, Zenon
<1>6. /\ \A i \in Ids : i \in rows <=> config[i] # NoRow /\ \E p \in Primaries : target[<<p, t.q>>] = i
      /\ rows \subseteq Ids
  BY <1>4, <1>5, Zenon
<1>7. SpreadRatio(t.v) = AskedFor(t) /\ AskedFor(t) \in Ratios \cup {None}
  BY <1>3, ConfigPcIs, Zenon DEF SpreadRatio, AskedFor
<1>8. /\ put \in [rows -> Rows]
      /\ \A i \in rows : put[i].limit = config[i].limit /\ put[i].ratio = AskedFor(t)
  <2>1. \A i \in rows : /\ put[i] \in Rows
                        /\ put[i].limit = config[i].limit /\ put[i].ratio = AskedFor(t)
    BY <1>4, <1>7, Zenon DEF Rows
  <2> QED
    BY <2>1, Zenon
<1> HIDE DEF rows, put
<1>9. /\ Over(put, t.newC) \in SomeRows
      /\ DOMAIN Over(put, t.newC) = rows \cup DOMAIN t.newC
      /\ \A i \in rows : Over(put, t.newC)[i] = put[i]
      /\ t.q \in DOMAIN t.newC => Over(put, t.newC)[t.q] = t.newC[t.q]
  <2>1. /\ t.newC \in [DOMAIN t.newC -> Rows] /\ DOMAIN t.newC \subseteq Keys /\ rows \subseteq Keys
        /\ DOMAIN put = rows /\ t.q \notin rows
    BY <1>3, <1>6, <1>8, SomeTypes, Kinds, Zenon
  <2>2. /\ Over(put, t.newC) \in [rows \cup DOMAIN t.newC -> Rows]
        /\ DOMAIN Over(put, t.newC) = rows \cup DOMAIN t.newC
    BY <1>8, <2>1, Zenon DEF Over
  <2>3. Over(put, t.newC) \in SomeRows
    BY <2>1, <2>2, SomeTypes, Zenon
  <2> QED
    BY <2>1, <2>2, <2>3, Zenon DEF Over
<1>10. PICK new : new = Over(put, t.newC)
  BY Zenon
<1>11. PICK v : v = Goto(w, "commit")
  BY Zenon
<1>12. /\ v \in AllTx /\ v.pc = "commit" /\ v.q = t.q /\ v.v = t.v /\ v.held = t.held /\ v.newT = Empty
       /\ v.newC = new /\ v.others = t.others
  <2>1. /\ w \in AllTx /\ w.q = t.q /\ w.v = t.v /\ w.held = t.held /\ w.newT = Empty
        /\ w.newC = new /\ w.others = t.others
    BY <1>1, <1>3, <1>9, <1>10, Zenon DEF AllTx, TxRecords
  <2> HIDE DEF w
  <2>2. "commit" \in Pcs
    BY Zenon DEF Pcs
  <2> QED
    BY <1>11, <2>1, <2>2, GotoTx, Zenon
<1> HIDE DEF w
<1>13. tx'[s] = v /\ tx' = [tx EXCEPT ![s] = v]
  BY <1>1, <1>2, <1>11, Zenon
<1>14. Shape(tx[s])'
  <2>1. AtCall(v) /\ DOMAIN v.newC \subseteq {t.q} \cup Ids
    BY <1>1, <1>2, <1>3, <1>6, <1>9, <1>10, <1>12, Zenon DEF Shape, AtCall
  <2>2. AtEnd(v)
    BY <1>3, <1>12, <2>1, Zenon DEF AtEnd
  <2> QED
    BY <1>3, <1>12, <1>13, <2>1, <2>2, OneRow, Zenon DEF Shape, AtCall, AtFirst, AtInsert, AtChange, AtEnd
<1>15. RowIds(s)'
  <2>1. ASSUME NEW k \in DOMAIN new \cap Ids
        PROVE  /\ config[k] # NoRow /\ new[k].limit = config[k].limit
               /\ \A r \in Pairs : r[2] # t.q => target[r] # k
    <3>1. k \in rows
      BY <1>4, <1>9, <1>10, <2>1, Zenon
    <3>2. PICK p \in Primaries : target[<<p, t.q>>] = k
      BY <1>6, <3>1, Zenon
    <3>3. \A r \in Pairs : r[2] # t.q => target[r] # k
      BY <1>5, <3>2, Kinds, Zenon DEF IndInv, Unique
    <3> QED
      BY <1>6, <1>8, <1>9, <1>10, <3>1, <3>3, Zenon
  <2> QED
    BY <1>2, <1>3, <1>12, <1>13, <2>1 DEF RowIds, tables
<1>16. RatioKept(s)'
  <2>1. FreshC(s)' = Over(new, config) /\ target' = target
    BY <1>2, <1>12, <1>13, Zenon DEF FreshC, tables
  <2>2. ASSUME NEW p \in Primaries, target[<<p, t.q>>] # None, Over(new, config)[target[<<p, t.q>>]] # NoRow
        PROVE  Over(new, config)[target[<<p, t.q>>]].ratio = AskedFor(t)
    <3>1. PICK i \in Ids : i = target[<<p, t.q>>]
      BY <1>1, <1>5, <2>2, Zenon
    <3>2. Over(new, config)[i] = IF i \in DOMAIN new THEN new[i] ELSE config[i]
      BY <1>1, Kinds, Zenon DEF Over
    <3>3. i \in rows
      BY <1>4, <1>6, <1>9, <1>10, <2>2, <3>1, <3>2, Zenon
    <3> QED
      BY <1>8, <1>9, <1>10, <3>1, <3>2, <3>3, ZenonT(40)
  <2>3. AskedFor(v) = AskedFor(t)
    BY <1>12, Zenon DEF AskedFor
  <2> QED
    BY <1>3, <1>12, <1>13, <2>1, <2>2, <2>3, Zenon DEF RatioKept
<1>17. Outcome(s)'
  <2>1. /\ config' = config /\ target' = target /\ last' = last /\ alive' = alive /\ wild' = wild
    BY <1>2, Zenon DEF tables
  <2>2. v.others # {} => v.others = last'[v.q]
    BY <1>1, <1>12, <2>1, Zenon DEF Outcome
  <2>3. (t.q \in DOMAIN new <=> t.q \in DOMAIN t.newC) /\ (t.q \in DOMAIN new => new[t.q] = t.newC[t.q])
    BY <1>3, <1>6, <1>9, <1>10, Zenon
  <2>4. /\ t.q \in DOMAIN t.newC => Amount(t.q, t.newC[t.q]) = AskedFor(t)
        /\ t.q \notin DOMAIN t.newC /\ Alone(t) => Amount(t.q, config[t.q]) = AskedFor(t)
        /\ AskedFor(v) = AskedFor(t)
    BY <1>1, <1>2, <1>3, <1>12, Zenon DEF Outcome, AskedFor
  <2> QED
    BY <1>3, <1>12, <1>13, <2>1, <2>2, <2>3, <2>4, Zenon DEF Outcome, Alone
<1> QED
  BY <1>1, <1>2, <1>12, <1>13, <1>14, <1>15, <1>16, <1>17, OneRow, SessionStep, Zenon

\* Nobody has the next value of the sequence yet.
LEMMA NextIdIsNew ==
    ASSUME IndInv, NEW s \in Sessions, tx[s].pc = "insertT", nextId \in Ids
    PROVE  /\ nextId # None
           /\ \A q \in Pairs : target[q] # nextId
           /\ \A u \in Procs : \A r \in DOMAIN tx[u].newT : tx[u].newT[r] # nextId
           /\ tx[s].snapC[nextId] = NoRow
<1>1. nextId \in Nat /\ nextId >= 2
  BY ConfigAssumption DEF IndInv, TypeInv
<1>3. \A q \in Pairs : target[q] # nextId
  BY <1>1 DEF IndInv, Unique
<1>4. ASSUME NEW u \in Procs, NEW r \in DOMAIN tx[u].newT PROVE tx[u].newT[r] # nextId
  <2>1. CASE tx[u].newT[r] = None
    BY <1>1, <2>1 DEF None
  <2>2. CASE tx[u].newT[r] # None
    BY <1>1, <2>2, NewIds, SMTT(30)
  <2> QED
    BY <2>1, <2>2, Zenon
<1>5. tx[s].snapC[nextId] = NoRow
  BY <1>1, SessionFacts DEF Shape
<1> QED
  BY <1>1, <1>3, <1>4, <1>5 DEF None

\* INSERT into target.
LEMMA InsertTargetInv ==
    ASSUME IndInv, NEW s \in Sessions, nextId \in Ids, InsertTarget(s)
    PROVE  IndInv'
<1> DEFINE t == tx[s]
<1>1. /\ s \in Procs /\ tx \in [Procs -> AllTx] /\ t \in AllTx /\ Shape(t) /\ Outcome(s)
      /\ wild \in BOOLEAN /\ nextId \in Nat
  BY SessionFacts, Zenon
<1>2. /\ t.pc = "insertT" /\ TR \in t.held /\ nextId' = nextId + 1
      /\ UNCHANGED <<alive, tables, limits, calls, events, last, crossed, wild>>
  BY LockNames, Zenon DEF InsertTarget, At, history
<1>3. CASE FreshT(s)[t.q] # None
  <2>1. tx' = [tx EXCEPT ![s] = Idle]
    BY <1>3, Zenon DEF InsertTarget
  <2>2. events' \in 0 .. MaxEvents
    BY <1>2, Zenon DEF IndInv, TypeInv
  <2> QED
    BY <1>2, <2>1, <2>2, SessionEnds, Zenon
<1>4. CASE FreshT(s)[t.q] = None
  <2>1. /\ t.q \in Pairs /\ t.q \in Quotas /\ t.v \in Limits /\ t.v # Delete /\ t.held = {TR}
        /\ t.newT = Empty /\ t.newC = Empty /\ t.snapC \in [Keys -> Rows]
        /\ t.q \notin Spaces /\ t.q \notin Objects /\ t.q \notin Primaries
        /\ \A k \in Ids : t.snapC[k] # NoRow => k < nextId
    <3>1. t.q \in Pairs /\ t.q \in Quotas
      BY <1>1, <1>2, Zenon DEF Shape, AtCall, AtFirst
    <3>2. t.q \notin Spaces /\ t.q \notin Objects /\ t.q \notin Primaries
      BY <3>1, Kinds, Zenon
    <3> QED
      BY <1>1, <1>2, <3>1, <3>2, Zenon DEF Shape, AtCall, AtFirst
  <2>2. /\ nextId \in Ids /\ nextId # None
        /\ \A q \in Pairs : target[q] # nextId
        /\ \A u \in Procs : \A r \in DOMAIN tx[u].newT : tx[u].newT[r] # nextId
        /\ t.snapC[nextId] = NoRow
    BY <1>2, NextIdIsNew, Zenon
  <2>3. ConfigPc(t.q, t.v, nextId, t.snapC) = "share"
    BY <2>1, <2>2, ConfigPcIs, ZenonT(40)
  <2>4. PICK v : v = Goto([t EXCEPT !.newT = One(t.q, nextId), !.id = nextId], "share")
    BY Zenon
  <2>5. tx' = [tx EXCEPT ![s] = v]
    BY <1>4, <2>3, <2>4, Zenon DEF InsertTarget
  <2>6. /\ v \in AllTx /\ v.pc = "share" /\ v.q = t.q /\ v.v = t.v /\ v.held = t.held
        /\ v.newT = One(t.q, nextId) /\ v.newC = t.newC /\ v.others = t.others
        /\ v.id = nextId /\ v.snapC = t.snapC
    <3>1. One(t.q, nextId) \in SomeRowIds /\ "share" \in Pcs
      BY <2>1, <2>2, OneTypes, Zenon DEF Pcs
    <3>2. nextId \in {None} \cup Ids /\ "share" # "commit"
      BY <2>2, Zenon
    <3> DEFINE w == [t EXCEPT !.newT = One(t.q, nextId), !.id = nextId]
    <3>3. /\ w \in AllTx /\ w.q = t.q /\ w.v = t.v /\ w.held = t.held /\ w.newT = One(t.q, nextId)
          /\ w.newC = t.newC /\ w.others = t.others /\ w.id = nextId /\ w.snapC = t.snapC
          /\ v = Goto(w, "share")
      BY <1>1, <2>4, <3>1, <3>2, Zenon DEF AllTx, TxRecords
    <3> HIDE DEF w
    <3> QED
      BY <3>1, <3>2, <3>3, GotoTx, Zenon
  <2>7. tx'[s] = v /\ \A u \in Procs \ {s} : tx'[u] = tx[u]
    BY <1>1, <2>5, Zenon
  <2>8. Shape(tx[s])'
    <3>1. \A k \in Ids : t.snapC[k] # NoRow => k < nextId'
      <4>1. Ids \subseteq Nat
        BY Kinds, Zenon
      <4> QED
        BY <1>1, <1>2, <2>1, <4>1, LessNext, Zenon
    <3>2. AtCall(v)
      BY <1>1, <1>2, <2>6, Zenon DEF Shape, AtCall
    <3> QED
      BY <2>1, <2>2, <2>6, <2>7, <3>1, <3>2, OneRow, Zenon DEF Shape, AtCall, AtFirst, AtInsert, AtChange, AtEnd
  <2>9. PICK k : k = nextId
    BY Zenon
  <2>10. Own(s, k)' /\ target' = target /\ target[t.q] # k
    BY <1>1, <1>2, <2>1, <2>2, <2>6, <2>7, <2>9 DEF Own, tables
  <2>11. RowIds(s)'
    BY <2>6, <2>7, <2>9, <2>10, Zenon DEF RowIds, Own
  <2>12. Outcome(s)' /\ RatioKept(s)'
    BY <1>1, <1>2, <2>6, <2>7, Zenon DEF Outcome, RatioKept
  <2>13. \A r \in DOMAIN v.newT : v.newT[r] \in {None, nextId}
    BY <2>6, Zenon DEF One
  <2> QED
    BY <1>1, <1>2, <2>5, <2>6, <2>7, <2>8, <2>11, <2>12, <2>13, SessionStep, Zenon
<1> QED
  BY <1>3, <1>4, Zenon

\* A session about to delete a row of target.
LEMMA Deleting ==
    ASSUME IndInv, NEW s \in Sessions, At(s, "deleteT"), NEW id \in {None} \cup Ids
    PROVE  LET t == tx[s] IN
           /\ t.q \in Pairs /\ t.q \in Quotas /\ t.v = Delete /\ t.held = {TE}
           /\ t.newT = Empty /\ t.newC = Empty /\ t.snapC \in [Keys -> Rows]
           /\ t.q \notin Spaces /\ t.q \notin Objects /\ t.q \notin Primaries
           /\ FreshT(s)[t.q] = target[t.q]
           /\ ConfigPc(t.q, t.v, id, t.snapC) \in {"deleteC", "commit"}
           /\ ConfigPc(t.q, t.v, id, t.snapC) = "deleteC" => id # None
<1> DEFINE t == tx[s]
<1>1. s \in Procs /\ t \in AllTx /\ Shape(t) /\ t.pc = "deleteT" /\ TE \in t.held
  BY SessionFacts, LockNames, Zenon DEF At
<1>2. /\ t.q \in Pairs /\ t.q \in Quotas /\ t.v = Delete /\ t.held = {TE}
      /\ t.newT = Empty /\ t.newC = Empty /\ t.snapC \in [Keys -> Rows]
      /\ t.q \notin Spaces /\ t.q \notin Objects /\ t.q \notin Primaries
  <2>1. t.q \in Pairs /\ t.q \in Quotas
    BY <1>1, Zenon DEF Shape, AtCall, AtFirst
  <2>2. t.q \notin Spaces /\ t.q \notin Objects /\ t.q \notin Primaries
    BY <2>1, Kinds, Zenon
  <2> QED
    BY <1>1, <2>1, <2>2, Zenon DEF Shape, AtCall, AtFirst
<1>3. FreshT(s)[t.q] = target[t.q]
  BY <1>1, <1>2, FreshTables, OneRow, SMTT(30)
<1>4. /\ ConfigPc(t.q, t.v, id, t.snapC) \in {"deleteC", "commit"}
      /\ ConfigPc(t.q, t.v, id, t.snapC) = "deleteC" => id # None
  BY <1>2, ConfigPcIs
<1> QED
  BY <1>2, <1>3, <1>4, Zenon

\* DELETE from target.
LEMMA DeleteTargetInv ==
    ASSUME IndInv, NEW s \in Sessions, DeleteTarget(s)
    PROVE  IndInv'
<1> DEFINE t == tx[s]
<1>1. /\ s \in Procs /\ tx \in [Procs -> AllTx] /\ t \in AllTx /\ Shape(t) /\ Outcome(s)
      /\ wild \in BOOLEAN /\ target \in [Pairs -> {None} \cup Ids]
  BY SessionFacts, Zenon
<1>2. At(s, "deleteT")
  BY Zenon DEF DeleteTarget
<1>3. t.q \in Pairs /\ FreshT(s)[t.q] = target[t.q]
  BY <1>2, Deleting, Zenon
<1>4. PICK id \in Ids : id = target[t.q]
  BY <1>1, <1>3, Zenon DEF DeleteTarget
<1>5. /\ t.q \in Quotas /\ t.v = Delete /\ t.held = {TE}
      /\ t.newT = Empty /\ t.newC = Empty /\ t.snapC \in [Keys -> Rows]
      /\ t.q \notin Spaces /\ t.q \notin Objects /\ t.q \notin Primaries
  BY <1>2, <1>4, Deleting, Zenon
<1>6. PICK pc \in {"deleteC", "commit"} : pc = ConfigPc(t.q, t.v, id, t.snapC)
  BY <1>2, <1>4, Deleting, Zenon
<1> DEFINE w == [t EXCEPT !.newT = One(t.q, None), !.id = id]
<1>7. PICK v : v = Goto(w, pc)
  BY Zenon
<1>8. /\ tx' = [tx EXCEPT ![s] = v]
      /\ UNCHANGED <<alive, tables, nextId, limits, calls, events, last, crossed, wild>>
  BY <1>3, <1>4, <1>6, <1>7, Zenon DEF DeleteTarget, Only, history
<1>9. /\ v \in AllTx /\ v.pc = pc /\ v.q = t.q /\ v.v = Delete /\ v.held = {TE}
      /\ v.newT = One(t.q, None) /\ v.newC = Empty /\ v.others = t.others
      /\ pc = "deleteC" => v.id = id /\ v.snapC = t.snapC
  <2>1. One(t.q, None) \in SomeRowIds /\ pc \in Pcs
    BY <1>3, OneTypes, Zenon DEF Pcs
  <2>2. /\ w \in AllTx /\ w.q = t.q /\ w.v = t.v /\ w.held = t.held /\ w.newT = One(t.q, None)
        /\ w.newC = t.newC /\ w.others = t.others /\ w.id = id /\ w.snapC = t.snapC
    BY <1>1, <2>1, Zenon DEF AllTx, TxRecords
  <2> HIDE DEF w
  <2> QED
    BY <1>5, <1>7, <2>1, <2>2, GotoTx, ZenonT(40)
<1> HIDE DEF w
<1>10. tx'[s] = v /\ id # None /\ t.pc = "deleteT"
  BY <1>1, <1>2, <1>8, Kinds, Zenon DEF At
<1>11. DOMAIN v.newT = {t.q} /\ v.newT[t.q] = None /\ v.newT # Empty
  BY <1>9, OneRow, Zenon DEF One
<1>12. Shape(tx[s])'
  <2>1. pc = "deleteC" => \A k \in Ids : v.snapC[k] # NoRow => k < nextId'
    BY <1>1, <1>8, <1>9, <1>10, Zenon DEF Shape
  <2>2. AtCall(v)
    BY <1>5, <1>9, Zenon DEF AtCall
  <2> QED
    BY <1>3, <1>5, <1>6, <1>9, <1>10, <1>11, <2>1, <2>2, OneRow, Zenon
       DEF Shape, AtCall, AtFirst, AtInsert, AtChange, AtEnd
<1>13. RowIds(s)'
  BY <1>4, <1>5, <1>6, <1>8, <1>9, <1>10, <1>11, OneRow, ZenonT(40) DEF RowIds, tables
<1>14. Outcome(s)' /\ RatioKept(s)'
  BY <1>1, <1>5, <1>6, <1>8, <1>9, <1>10, <1>11, OneRow, Zenon DEF Outcome, RatioKept
<1> QED
  BY <1>1, <1>5, <1>6, <1>8, <1>9, <1>10, <1>11, <1>12, <1>13, <1>14, SessionStep, Zenon

\* The same when another call has deleted the row, and the server goes on.
LEMMA DeleteNothingInv ==
    ASSUME IndInv, NEW s \in Sessions, At(s, "deleteT"), NEW id \in {None} \cup Ids, wild' = TRUE,
           tx' = [tx EXCEPT ![s] = Goto([tx[s] EXCEPT !.id = id],
                                        ConfigPc(tx[s].q, tx[s].v, id, tx[s].snapC))],
           UNCHANGED <<alive, tables, nextId, limits, calls, events, last, crossed>>
    PROVE  IndInv'
<1> DEFINE t == tx[s]
<1>1. /\ s \in Procs /\ tx \in [Procs -> AllTx] /\ t \in AllTx /\ Shape(t) /\ Outcome(s)
  BY SessionFacts, Zenon
<1>2. /\ t.q \in Pairs /\ t.q \in Quotas /\ t.v = Delete /\ t.held = {TE}
      /\ t.newT = Empty /\ t.newC = Empty /\ t.snapC \in [Keys -> Rows]
      /\ t.q \notin Spaces /\ t.q \notin Objects /\ t.q \notin Primaries
  BY Deleting, Zenon
<1>3. PICK pc \in {"deleteC", "commit"} : pc = ConfigPc(t.q, t.v, id, t.snapC)
  BY Deleting, Zenon
<1>4. pc = "deleteC" => id # None
  BY <1>3, Deleting, Zenon
<1> DEFINE w == [t EXCEPT !.id = id]
<1>5. PICK v : v = Goto(w, pc)
  BY Zenon
<1>6. tx' = [tx EXCEPT ![s] = v]
  BY <1>3, <1>5, Zenon
<1>7. /\ v \in AllTx /\ v.pc = pc /\ v.q = t.q /\ v.v = Delete /\ v.held = {TE}
      /\ v.newT = Empty /\ v.newC = Empty /\ v.others = t.others
      /\ pc = "deleteC" => v.id = id /\ v.snapC = t.snapC
  <2>1. pc \in Pcs
    BY Zenon DEF Pcs
  <2>2. /\ w \in AllTx /\ w.q = t.q /\ w.v = t.v /\ w.held = t.held /\ w.newT = t.newT
        /\ w.newC = t.newC /\ w.others = t.others /\ w.id = id /\ w.snapC = t.snapC
    BY <1>1, Zenon DEF AllTx, TxRecords
  <2> HIDE DEF w
  <2> QED
    BY <1>2, <1>5, <2>1, <2>2, GotoTx, ZenonT(40)
<1> HIDE DEF w
<1>8. tx'[s] = v /\ t.pc = "deleteT"
  BY <1>1, <1>6, Zenon DEF At
<1>9. Shape(tx[s])'
  <2>1. pc = "deleteC" => \A k \in Ids : v.snapC[k] # NoRow => k < nextId'
    BY <1>1, <1>7, <1>8, Zenon DEF Shape
  <2>2. AtCall(v)
    BY <1>2, <1>7, Zenon DEF AtCall
  <2> QED
    BY <1>2, <1>3, <1>4, <1>7, <1>8, <2>1, <2>2, OneRow, Zenon
       DEF Shape, AtCall, AtFirst, AtInsert, AtChange, AtEnd
<1>10. RowIds(s)'
  BY <1>2, <1>3, <1>7, <1>8, OneRow, Zenon DEF RowIds
<1>11. Outcome(s)' /\ RatioKept(s)'
  BY <1>1, <1>2, <1>3, <1>7, <1>8, OneRow, Zenon DEF Outcome, RatioKept
<1> QED
  BY <1>1, <1>2, <1>3, <1>6, <1>7, <1>8, <1>9, <1>10, <1>11, OneRow, SessionStep, Zenon

\* The same when the server's processes end.
LEMMA RestartInv ==
    ASSUME IndInv, tx' = [u \in Procs |-> Idle], limits' = [q \in Quotas |-> NoRow], wild' = TRUE,
           UNCHANGED <<alive, tables, nextId, calls, events, last, crossed>>
    PROVE  IndInv'
<1>1. TypeInv'
  BY IdleTx, RowTypes, Zenon DEF IndInv, TypeInv, tables
<1>3. \A s \in Sessions : Shape(tx[s])' /\ RowIds(s)' /\ Outcome(s)' /\ RatioKept(s)'
  BY IdleTx, OneRow, ZenonT(40) DEF Shape, AtCall, AtFirst, AtInsert, AtChange, AtEnd, RowIds, Outcome,
     RatioKept, Procs
<1>4. WorkerShape(tx[Worker])' /\ Exclusion'
  BY IdleTx, OneRow, Zenon DEF WorkerShape, Exclusion, Procs
<1>5. Unique' /\ TargetHasConfig' /\ RatioFollowsTablespace' /\ QuotaIsAnOutcome'
  BY Zenon DEF IndInv, Unique, TargetHasConfig, RatioFollowsTablespace, QuotaIsAnOutcome, tables
<1> QED
  BY <1>1, <1>3, <1>4, <1>5, Zenon DEF IndInv, Control

\* The first statement of a call.
LEMMA FirstStatement ==
    ASSUME IndInv, NEW q \in Quotas, NEW v \in {Delete} \cup (IF q \in Spaces THEN Ratios ELSE Limits)
    PROVE  LET id == IF IsPair(q) THEN SelectTarget(q) ELSE None
               pc == CASE q \in Spaces                           -> "lock"
                       [] q \in Primaries                        -> ConfigPc(q, v, q, config)
                       [] IsPair(q) /\ id = None /\ ~ToDelete(v) -> "insertT"
                       [] IsPair(q) /\ id # None /\ ToDelete(v)  -> "deleteT"
                       [] OTHER                                  -> ConfigPc(q, v, id, config)
           IN  /\ q \in Spaces => pc = "lock"
               /\ q \in Primaries => \/ pc = "deleteC" /\ v = Delete
                                     \/ pc = "commit" /\ v = Delete /\ config[q] = NoRow
                                     \/ pc = "updateC" /\ v # Delete /\ config[q] # NoRow
                                     \/ pc = "insertC" /\ v # Delete
               /\ q \in Pairs => \/ pc = "insertT" /\ v # Delete
                                 \/ pc = "deleteT" /\ v = Delete
                                 \/ pc = "commit" /\ v = Delete /\ (wild \/ target[q] = None)
                                 \/ /\ pc = "updateC" /\ v # Delete
                                    /\ id # None /\ id = target[q] /\ config[id] # NoRow
               /\ id \in {None} \cup Ids /\ pc \in Pcs
<1> DEFINE id == IF IsPair(q) THEN SelectTarget(q) ELSE None
           pc == CASE q \in Spaces                           -> "lock"
                   [] q \in Primaries                        -> ConfigPc(q, v, q, config)
                   [] IsPair(q) /\ id = None /\ ~ToDelete(v) -> "insertT"
                   [] IsPair(q) /\ id # None /\ ToDelete(v)  -> "deleteT"
                   [] OTHER                                  -> ConfigPc(q, v, id, config)
<1>1. /\ target \in [Pairs -> {None} \cup Ids] /\ config \in [Keys -> Rows] /\ wild \in BOOLEAN
  BY Zenon DEF IndInv, TypeInv
<1>2. v \in {Delete} \cup Limits \cup Ratios /\ (ToDelete(v) <=> v = Delete)
  BY ConfigPcIs
<1>3. CASE q \in Spaces
  BY <1>3, Kinds, Zenon DEF Pcs
<1>4. CASE q \in Primaries
  <2>1. q \notin Spaces /\ q \notin Pairs /\ ~IsPair(q) /\ q # None
    BY <1>4, KindsAssumption, Kinds, Zenon
  <2>2. pc = ConfigPc(q, v, q, config) /\ id = None
    BY <1>4, <2>1, Zenon
  <2>3. \/ ConfigPc(q, v, q, config) = "deleteC" /\ v = Delete
        \/ ConfigPc(q, v, q, config) = "commit" /\ v = Delete /\ config[q] = NoRow
        \/ ConfigPc(q, v, q, config) = "updateC" /\ v # Delete /\ config[q] # NoRow
        \/ ConfigPc(q, v, q, config) = "insertC" /\ v # Delete
    BY <1>2, <2>1, ConfigPcIs, ZenonT(40)
  <2> QED
    BY <2>1, <2>2, <2>3, Zenon DEF Pcs
<1>5. CASE q \in Pairs
  <2>1. q \notin Spaces /\ q \notin Primaries /\ IsPair(q)
    BY <1>5, Kinds, Zenon
  <2>2. /\ id \in {None} \cup Ids
        /\ id # None => id = target[q] /\ config[id] # NoRow
        /\ id = None => wild \/ target[q] = None
    BY <1>1, <1>5, <2>1, Zenon DEF SelectTarget, IndInv, TargetHasConfig
  <2> HIDE DEF id
  <2>3. /\ id = None /\ v # Delete => pc = "insertT"
        /\ id # None /\ v = Delete => pc = "deleteT"
        /\ id = None /\ v = Delete => pc = ConfigPc(q, v, id, config)
        /\ id # None /\ v # Delete => pc = ConfigPc(q, v, id, config)
    BY <1>2, <2>1, Zenon
  <2>4. /\ id = None /\ v = Delete => ConfigPc(q, v, id, config) = "commit"
        /\ id # None /\ v # Delete => ConfigPc(q, v, id, config) = "updateC"
    BY <1>2, <2>1, <2>2, ConfigPcIs, ZenonT(40)
  <2>5. \/ pc = "insertT" /\ v # Delete
        \/ pc = "deleteT" /\ v = Delete
        \/ pc = "commit" /\ v = Delete /\ (wild \/ target[q] = None)
        \/ /\ pc = "updateC" /\ v # Delete
           /\ id # None /\ id = target[q] /\ config[id] # NoRow
    BY <2>2, <2>3, <2>4, Zenon
  <2>6. pc \in Pcs
    BY <2>5, Zenon DEF Pcs
  <2> QED
    BY <2>1, <2>2, <2>5, <2>6, Zenon DEF id
<1> QED
  BY <1>3, <1>4, <1>5, Kinds, Zenon

\* A call begins.
LEMMA CallInv ==
    ASSUME IndInv, NEW s \in Sessions, NEW q \in Quotas,
           NEW v \in {Delete} \cup (IF q \in Spaces THEN Ratios ELSE Limits), Call(s, q, v)
    PROVE  IndInv'
<1>1. /\ s \in Procs /\ tx \in [Procs -> AllTx] /\ Shape(tx[s]) /\ wild \in BOOLEAN /\ s # Worker
      /\ target \in [Pairs -> {None} \cup Ids] /\ config \in [Keys -> Rows] /\ nextId \in Nat
  BY SessionFacts, Zenon
<1>2. tx[s] = Idle
  BY <1>1, Zenon DEF Call, Shape
<1>3. PICK id : id = IF IsPair(q) THEN SelectTarget(q) ELSE None
  BY Zenon
<1>4. PICK pc : pc = CASE q \in Spaces                           -> "lock"
                       [] q \in Primaries                        -> ConfigPc(q, v, q, config)
                       [] IsPair(q) /\ id = None /\ ~ToDelete(v) -> "insertT"
                       [] IsPair(q) /\ id # None /\ ToDelete(v)  -> "deleteT"
                       [] OTHER                                  -> ConfigPc(q, v, id, config)
  BY Zenon
<1>5. /\ q \in Spaces => pc = "lock"
      /\ q \in Primaries => \/ pc = "deleteC" /\ v = Delete
                            \/ pc = "commit" /\ v = Delete /\ config[q] = NoRow
                            \/ pc = "updateC" /\ v # Delete /\ config[q] # NoRow
                            \/ pc = "insertC" /\ v # Delete
      /\ q \in Pairs => \/ pc = "insertT" /\ v # Delete
                        \/ pc = "deleteT" /\ v = Delete
                        \/ pc = "commit" /\ v = Delete /\ (wild \/ target[q] = None)
                        \/ /\ pc = "updateC" /\ v # Delete
                           /\ id # None /\ id = target[q] /\ config[id] # NoRow
      /\ id \in {None} \cup Ids /\ pc \in Pcs
  BY <1>3, <1>4, FirstStatement, ZenonT(40)
<1>6. /\ q \in Primaries \/ q \in Spaces \/ q \in Pairs
      /\ q \in Spaces => q \in Objects /\ q \notin Primaries /\ q \notin Pairs
      /\ q \in Primaries => q \in Objects /\ q \notin Spaces /\ q \notin Pairs
      /\ q \in Pairs => q \notin Objects /\ q \notin Spaces /\ q \notin Primaries
  BY Kinds, Zenon
<1> DEFINE z == [Idle EXCEPT !.q = q, !.v = v, !.id = id, !.snapC = config]
<1>7. PICK w : w = Goto(z, pc)
  BY Zenon
<1>8. /\ tx' = [tx EXCEPT ![s] = w] /\ calls < MaxCalls /\ calls' = calls + 1
      /\ UNCHANGED <<alive, target, config, nextId, limits, events, last, crossed, wild>>
  BY <1>3, <1>4, <1>7, Zenon DEF Call, tables, history
<1>9. /\ w \in AllTx /\ w.pc = pc /\ w.q = q /\ w.v = v /\ w.held = {}
      /\ w.newT = Empty /\ w.newC = Empty /\ w.others = {}
      /\ pc # "commit" => w.id = id /\ w.snapC = config
  <2>1. v \in Values \cup {Delete}
    BY Zenon DEF Values
  <2>2. /\ z \in AllTx /\ z.q = q /\ z.v = v /\ z.held = {} /\ z.newT = Empty
        /\ z.newC = Empty /\ z.others = {} /\ z.id = id /\ z.snapC = config
    BY <1>1, <1>5, <2>1, IdleTx, Zenon DEF AllTx, TxRecords
  <2> HIDE DEF z
  <2> QED
    BY <1>5, <1>7, <2>2, GotoTx, Zenon
<1> HIDE DEF z
<1>10. tx'[s] = w /\ \A u \in Procs \ {s} : tx'[u] = tx[u]
  BY <1>1, <1>8, Zenon
<1>11. calls' \in 0 .. MaxCalls
  BY <1>8, ConfigAssumption DEF IndInv, TypeInv
<1>12. Exclusion'
  BY <1>1, <1>8, <1>9, ExclusionFrame, Zenon DEF IndInv, Control
<1>13. Shape(tx[s])'
  <2>1. \A k \in Ids : config[k] # NoRow => k < nextId'
    BY <1>8, Zenon DEF IndInv, Unique
  <2>2. AtCall(w) /\ AtEnd(w)
    BY <1>5, <1>6, <1>9, OneRow, Zenon DEF AtCall, AtEnd
  <2>3. AtFirst(w) /\ AtInsert(w)
    BY <1>5, <1>6, <1>9, OneRow, Zenon DEF AtFirst, AtInsert
  <2>4. AtChange(tx[s])'
    BY <1>5, <1>6, <1>9, <1>10, OneRow, Zenon DEF AtChange
  <2>5. pc \notin {"cleanT", "cleanC", "idle"}
    BY <1>5, <1>6, Zenon
  <2> QED
    BY <1>1, <1>9, <1>10, <2>1, <2>2, <2>3, <2>4, <2>5, OneRow, Zenon
       DEF Shape, AtCall, AtFirst, AtInsert, AtEnd
<1>14. RowIds(s)'
  <2>1. ASSUME pc = "updateC", q \in Pairs PROVE Own(s, id)'
    <3>1. id = target[q] /\ id # None
      BY <1>5, <1>6, <2>1, Zenon
    <3>2. id < nextId /\ \A r \in Pairs \ {q} : target[r] # id
      BY <2>1, <3>1, Zenon DEF IndInv, Unique
    <3>3. \A u \in Procs \ {s} : \A r \in DOMAIN tx[u].newT : tx[u].newT[r] # id
      BY <2>1, <3>1, NewIds, Zenon
    <3> QED
      BY <1>8, <1>9, <1>10, <3>2, <3>3, Zenon DEF Own
  <2>2. pc # "share" /\ (q \in Pairs => pc \notin {"insertC", "deleteC"}) /\ (q \in Spaces => pc # "commit")
    BY <1>5, <1>6, Zenon
  <2>3. pc = "updateC" /\ q \in Pairs => Own(s, tx[s].id)'
    BY <1>9, <1>10, <2>1, Zenon DEF Own
  <2> QED
    BY <1>9, <1>10, <2>2, <2>3, OneRow, Zenon DEF RowIds
<1>15. Outcome(s)'
  <2>1. pc = "commit" /\ q \in Objects => Amount(q, config[q]) = AskedFor(w)
    BY <1>5, <1>6, <1>9, RowTypes, ConfigPcIs, Zenon DEF Amount, AskedFor
  <2> QED
    BY <1>5, <1>6, <1>8, <1>9, <1>10, <2>1, OneRow, Zenon DEF Outcome
<1>16. RatioKept(s)'
  BY <1>5, <1>6, <1>9, <1>10, OneRow, Zenon DEF RatioKept
<1>17. limits' \in [Quotas -> Rows] /\ nextId' \in 2 .. MaxCalls + 2 /\ events' \in 0 .. MaxEvents
       /\ wild' \in BOOLEAN /\ nextId' >= nextId
  BY <1>1, <1>8 DEF IndInv, TypeInv
<1> QED
  BY <1>1, <1>8, <1>9, <1>11, <1>12, <1>13, <1>14, <1>15, <1>16, <1>17, OneRow, LocalStep, Zenon

-----------------------------------------------------------------------------
(***************************************************************************)
(* Locks, failures, the worker and dropped objects.                        *)
(***************************************************************************)
\* A lock is granted to whom it does not conflict with.
LEMMA AcquireInv ==
    ASSUME IndInv, NEW s \in Procs, Acquire(s)
    PROVE  IndInv'
<1> DEFINE t == tx[s]
<1>1. /\ tx \in [Procs -> AllTx] /\ t \in AllTx /\ Exclusion /\ nextId \in Nat /\ wild \in BOOLEAN
      /\ (s \in Sessions => Shape(t) /\ RowIds(s) /\ Outcome(s) /\ RatioKept(s))
      /\ (s = Worker => WorkerShape(t))
  BY DEF IndInv, TypeInv, Control
<1>2. PICK l : l = LockOf[t.pc]
  BY Zenon
<1>3. PICK v : v = [t EXCEPT !.held = @ \cup {l}]
  BY Zenon
<1>4. /\ t.pc \in Pcs \ {"idle", "commit"}
      /\ \A u \in Procs \ {s} : \A m \in tx[u].held : ~Conflict(l, m)
      /\ tx' = [tx EXCEPT ![s] = v]
      /\ UNCHANGED <<alive, target, config, nextId, limits, calls, events, last, crossed, wild>>
  BY <1>2, <1>3, LockNames, Zenon DEF Acquire, tables, history
<1>5. l \in Locks /\ l \in {CE, CR, CS, TE, TR}
  BY <1>2, <1>4, LockNames, Zenon DEF Pcs
<1>6. /\ v \in AllTx /\ v.held = t.held \cup {l}
      /\ v.pc = t.pc /\ v.q = t.q /\ v.v = t.v /\ v.id = t.id /\ v.ratio = t.ratio
      /\ v.snapC = t.snapC /\ v.newT = t.newT /\ v.newC = t.newC /\ v.others = t.others
  BY <1>1, <1>3, <1>5, Zenon DEF AllTx, TxRecords
<1>7. tx'[s] = v /\ \A u \in Procs \ {s} : tx'[u] = tx[u]
  BY <1>1, <1>4, Zenon
<1>8. Exclusion'
  <2>1. ASSUME NEW u \in Procs, u # s
        PROVE  /\ CE \in v.held => tx[u].held \cap {CE, CR, CS} = {}
               /\ TE \in v.held => tx[u].held \cap {TE, TR} = {}
               /\ CE \in tx[u].held => v.held \cap {CE, CR, CS} = {}
               /\ TE \in tx[u].held => v.held \cap {TE, TR} = {}
    <3>1. \A m \in tx[u].held : ~Conflict(l, m)
      BY <1>4, <2>1, Zenon
    <3>2. /\ CE \in t.held => tx[u].held \cap {CE, CR, CS} = {}
          /\ TE \in t.held => tx[u].held \cap {TE, TR} = {}
          /\ CE \in tx[u].held => t.held \cap {CE, CR, CS} = {}
          /\ TE \in tx[u].held => t.held \cap {TE, TR} = {}
      BY <1>1, <2>1, Zenon DEF Exclusion
    <3> QED
      BY <1>5, <1>6, <3>1, <3>2, Conflicts, LockNames
  <2> QED
    BY <1>1, <1>7, <2>1, SMTT(30) DEF Exclusion
<1>9. nextId' \in 2 .. MaxCalls + 2 /\ nextId' >= nextId
  BY <1>4, IdKept, Zenon DEF IndInv, TypeInv
<1>10. ASSUME s \in Sessions PROVE Shape(tx[s])'
  <2>1. AtCall(v) /\ AtEnd(v)
    BY <1>1, <1>4, <1>6, <1>10, Zenon DEF Shape, AtCall, AtEnd
  <2>2. AtFirst(v)
    BY <1>1, <1>2, <1>6, <1>10, LockNames, ZenonT(40) DEF Shape, AtFirst
  <2>3. AtInsert(v)
    BY <1>1, <1>2, <1>6, <1>10, LockNames, Zenon DEF Shape, AtInsert
  <2>4. AtChange(v)
    BY <1>1, <1>2, <1>6, <1>10, LockNames, ZenonT(40) DEF Shape, AtChange
  <2>5. AtCall(tx[s])' /\ AtFirst(tx[s])' /\ AtInsert(tx[s])' /\ AtEnd(tx[s])' /\ AtChange(tx[s])'
    <3>1. AtCall(tx[s])' /\ AtEnd(tx[s])'
      BY <1>7, <2>1, Zenon DEF AtCall, AtEnd
    <3>2. AtFirst(tx[s])'
      BY <1>7, <2>2, Zenon DEF AtFirst
    <3>3. AtInsert(tx[s])'
      BY <1>7, <2>3, Zenon DEF AtInsert
    <3>4. AtChange(tx[s])'
      BY <1>4, <1>7, <2>4, Zenon DEF AtChange
    <3> QED
      BY <3>1, <3>2, <3>3, <3>4, Zenon
  <2>6. /\ v.pc \notin {"idle", "cleanT", "cleanC"}
        /\ v.pc \notin {"idle", "spread", "commit"} =>
             /\ v.newC = Empty /\ v.snapC \in [Keys -> Rows]
             /\ \A k \in Ids : v.snapC[k] # NoRow => k < nextId'
        /\ DOMAIN v.newC # {} => v.held \cap {CE, CR} # {}
        /\ DOMAIN v.newT # {} => v.held \cap {TE, TR} # {}
    BY <1>1, <1>4, <1>6, <1>10, Zenon DEF Shape
  <2> QED
    BY <1>7, <2>5, <2>6, Zenon DEF Shape
<1>11. ASSUME s \in Sessions PROVE RowIds(s)' /\ Outcome(s)' /\ RatioKept(s)'
  <2>1. \A k : Own(s, k) => Own(s, k)'
    BY <1>4, <1>6, <1>7 DEF Own
  <2>2. (t.q \in Pairs /\ t.pc \in {"updateC", "share", "insertC"} => Own(s, tx[s].id)')
    <3>1. PICK i : i = t.id
      BY Zenon
    <3>2. t.q \in Pairs /\ t.pc \in {"updateC", "share", "insertC"} => Own(s, i)'
      BY <1>1, <1>11, <2>1, <3>1, Zenon DEF RowIds
    <3> QED
      BY <1>6, <1>7, <3>1, <3>2, Zenon DEF Own
  <2>3. RowIds(s)'
    BY <1>1, <1>4, <1>6, <1>7, <1>11, <2>2, Zenon DEF RowIds
  <2>4. Outcome(s)'
    BY <1>1, <1>4, <1>6, <1>7, <1>11, Zenon DEF Outcome, Alone, Amount, AskedFor
  <2>5. RatioKept(s)'
    BY <1>1, <1>4, <1>6, <1>7, <1>11, Zenon DEF RatioKept
  <2> QED
    BY <2>3, <2>4, <2>5, Zenon
<1>12. ASSUME s = Worker PROVE WorkerShape(tx[Worker])'
  <2>1. Over(v.newT, target') = Over(t.newT, target)
    BY <1>4, <1>6, Zenon
  <2>2. /\ v.pc \in {"cleanT", "cleanC"} /\ v.q = None
        /\ v.pc = "cleanT" => v.newT = Empty /\ v.newC = Empty /\ v.held \subseteq {TE}
        /\ v.pc = "cleanC" => TE \in v.held /\ v.held \subseteq {TE, CE} /\ v.newC = Empty
    <3>1. t.pc \in {"cleanT", "cleanC"} /\ t.q = None
      BY <1>1, <1>4, <1>12, Zenon DEF WorkerShape
    <3>2. CASE t.pc = "cleanT"
      <4>1. l = TE /\ t.newT = Empty /\ t.newC = Empty /\ t.held \subseteq {TE}
        BY <1>1, <1>2, <1>12, <3>2, LockNames, Zenon DEF WorkerShape
      <4> QED
        BY <1>6, <3>1, <3>2, <4>1, Zenon
    <3>3. CASE t.pc = "cleanC"
      <4>1. l = CE /\ TE \in t.held /\ t.held \subseteq {TE, CE} /\ t.newC = Empty
        BY <1>1, <1>2, <1>12, <3>3, LockNames, Zenon DEF WorkerShape
      <4> QED
        BY <1>6, <3>1, <3>3, <4>1, Zenon
    <3> QED
      BY <3>1, <3>2, <3>3, Zenon
  <2>3. /\ \A q \in DOMAIN v.newT : v.newT[q] = None /\ ~(PartsOf(q) \subseteq alive')
        /\ \A k \in DOMAIN v.newC :
             /\ v.newC[k] = NoRow
             /\ k \in Objects => k \notin alive'
             /\ k \in Ids => \A q \in Pairs : Over(v.newT, target')[q] # k
    <3>1. \A q \in DOMAIN v.newT : v.newT[q] = None /\ ~(PartsOf(q) \subseteq alive')
      BY <1>1, <1>4, <1>6, <1>12, ZenonT(40) DEF WorkerShape
    <3>2. ASSUME NEW k \in DOMAIN v.newC
          PROVE  /\ v.newC[k] = NoRow
                 /\ k \in Objects => k \notin alive'
                 /\ k \in Ids => \A q \in Pairs : Over(v.newT, target')[q] # k
      <4>1. k \in DOMAIN t.newC
        BY <1>6, <3>2, Zenon
      <4>2. /\ t.newC[k] = NoRow
            /\ k \in Objects => k \notin alive
            /\ k \in Ids => \A q \in Pairs : Over(t.newT, target)[q] # k
        BY <1>1, <1>12, <4>1, Zenon DEF WorkerShape
      <4> QED
        BY <1>4, <1>6, <2>1, <4>2, Zenon
    <3> QED
      BY <3>1, <3>2, Zenon
  <2> QED
    BY <1>7, <1>12, <2>2, <2>3, Zenon DEF WorkerShape
<1>13. limits' \in [Quotas -> Rows] /\ calls' \in 0 .. MaxCalls /\ events' \in 0 .. MaxEvents
       /\ wild' \in BOOLEAN /\ (wild => wild')
  BY <1>4, Zenon DEF IndInv, TypeInv
<1> QED
  BY <1>1, <1>4, <1>6, <1>8, <1>9, <1>10, <1>11, <1>12, <1>13, LocalStep, Zenon

\* A step of the worker that leaves the tables alone.
LEMMA WorkerStep ==
    ASSUME IndInv, NEW v \in AllTx, tx' = [tx EXCEPT ![Worker] = v],
           UNCHANGED <<alive, tables, nextId, calls, history>>,
           limits' \in [Quotas -> Rows], events' \in 0 .. MaxEvents,
           v.held \subseteq tx[Worker].held,
           \A q \in DOMAIN v.newT : v.newT[q] = None,
           WorkerShape(tx[Worker])'
    PROVE  IndInv'
<1>1. /\ Worker \in Procs /\ Worker \notin Sessions /\ tx'[Worker] = v
      /\ UNCHANGED <<target, config, last, crossed, wild>>
  BY ConfigAssumption, Zenon DEF IndInv, TypeInv, Procs, tables, history
<1>3. nextId' \in 2 .. MaxCalls + 2 /\ nextId' >= nextId
  BY IdKept, Zenon DEF IndInv, TypeInv
<1>4. Exclusion'
  BY <1>1, ExclusionFrame, Zenon DEF IndInv, Control
<1>5. calls' \in 0 .. MaxCalls /\ wild' \in BOOLEAN /\ (wild => wild')
  BY <1>1, Zenon DEF IndInv, TypeInv
<1> QED
  BY <1>1, <1>3, <1>4, <1>5, LocalStep, Zenon

\* The worker has nothing open.
LEMMA IdleWorker ==
    ASSUME tx'[Worker] = Idle PROVE WorkerShape(tx[Worker])'
BY IdleTx, OneRow, Zenon DEF WorkerShape

\* A statement fails.
LEMMA FailInv ==
    ASSUME IndInv, NEW s \in Procs, Fail(s)
    PROVE  IndInv'
<1>1. /\ tx' = [tx EXCEPT ![s] = Idle] /\ tx \in [Procs -> AllTx]
      /\ UNCHANGED <<alive, tables, nextId, limits, calls, last, crossed, wild>>
      /\ events' \in 0 .. MaxEvents
  BY ConfigAssumption DEF Fail, IndInv, TypeInv, history
<1>2. CASE s \in Sessions
  BY <1>1, <1>2, SessionEnds, Zenon
<1>3. CASE s = Worker
  <2>1. tx'[Worker] = Idle /\ limits' \in [Quotas -> Rows]
    BY <1>1, <1>3, Zenon DEF IndInv, TypeInv
  <2> QED
    BY <1>1, <1>3, <2>1, IdleTx, OneRow, IdleWorker, WorkerStep, Zenon DEF history
<1> QED
  BY <1>2, <1>3, Zenon DEF Procs

\* The worker reads the tables.
LEMMA LoadInv ==
    ASSUME IndInv, Load
    PROVE  IndInv'
<1>1. /\ tx \in [Procs -> AllTx] /\ Worker \in Procs /\ WorkerShape(tx[Worker])
      /\ target \in [Pairs -> {None} \cup Ids] /\ config \in [Keys -> Rows] /\ events \in 0 .. MaxEvents
  BY Zenon DEF IndInv, TypeInv, Control, Procs
<1>2. tx[Worker] = Idle
  BY <1>1, Zenon DEF Load, WorkerShape
<1>3. PICK pc \in {"idle", "cleanT"} : tx' = [tx EXCEPT ![Worker].pc = pc]
  BY Zenon DEF Load
<1>4. PICK v : v = [Idle EXCEPT !.pc = pc]
  BY Zenon
<1>5. /\ v \in AllTx /\ v.pc = pc /\ v.held = {} /\ v.newT = Empty /\ v.newC = Empty
      /\ v.q = None
      /\ pc = "idle" => v = Idle
  <2>1. pc \in Pcs
    BY Zenon DEF Pcs
  <2> QED
    BY <1>4, <2>1, IdleTx, Zenon DEF AllTx, TxRecords
<1>6. tx' = [tx EXCEPT ![Worker] = v] /\ tx'[Worker] = v
  BY <1>1, <1>2, <1>3, <1>4, Zenon
<1>7. limits' \in [Quotas -> Rows]
  <2>1. \A q \in Quotas : RowOf(q) \in Rows
    BY <1>1, Kinds, RowTypes, Zenon DEF RowOf
  <2> QED
    BY <2>1, RowTypes, Zenon DEF Load
<1>8. WorkerShape(tx[Worker])'
  BY <1>5, <1>6, OneRow, Zenon DEF WorkerShape
<1> QED
  BY <1>1, <1>2, <1>5, <1>6, <1>7, <1>8, OneRow, IdleTx, WorkerStep, Zenon DEF Load

\* The load fails before it has read anything.
LEMMA LoadFailsInv ==
    ASSUME IndInv, LoadFails
    PROVE  IndInv'
<1>1. /\ tx \in [Procs -> AllTx] /\ Worker \in Procs /\ WorkerShape(tx[Worker]) /\ Idle \in AllTx
  BY IdleTx, Zenon DEF IndInv, TypeInv, Control, Procs
<1>2. tx[Worker] = Idle /\ tx' = tx
  BY <1>1, Zenon DEF LoadFails, WorkerShape
<1>3. tx' = [tx EXCEPT ![Worker] = Idle] /\ tx'[Worker] = Idle
  BY <1>1, <1>2, Zenon
<1>4. limits' \in [Quotas -> Rows] /\ events' \in 0 .. MaxEvents
  BY RowTypes, ConfigAssumption DEF LoadFails, IndInv, TypeInv
<1> QED
  BY <1>1, <1>2, <1>3, <1>4, IdleTx, OneRow, IdleWorker, WorkerStep, Zenon DEF LoadFails

\* The worker deletes the rows of target of dropped objects.
LEMMA CleanTargetInv ==
    ASSUME IndInv, CleanTarget
    PROVE  IndInv'
<1> DEFINE t == tx[Worker]
<1>1. /\ tx \in [Procs -> AllTx] /\ Worker \in Procs /\ t \in AllTx /\ WorkerShape(t)
      /\ t.pc = "cleanT" /\ TE \in t.held
      /\ UNCHANGED <<alive, tables, nextId, limits, calls, events, history>>
  BY LockNames, Zenon DEF IndInv, TypeInv, Control, Procs, CleanTarget, At, Only
<1>2. PICK gone \in SUBSET Pairs :
         /\ \A q \in gone : ~(PartsOf(q) \subseteq alive)
         /\ tx' = [tx EXCEPT ![Worker].newT = [q \in gone |-> None], ![Worker].pc = "cleanC"]
  <2> DEFINE g == {q \in Pairs : FreshT(Worker)[q] # None /\ ~(PartsOf(q) \subseteq alive)}
  <2>1. tx' = [tx EXCEPT ![Worker].newT = [q \in g |-> None], ![Worker].pc = "cleanC"]
    BY Zenon DEF CleanTarget, Only
  <2>2. g \in SUBSET Pairs /\ \A q \in g : ~(PartsOf(q) \subseteq alive)
    BY Zenon
  <2> HIDE DEF g
  <2> QED
    BY <2>1, <2>2, Zenon
<1>3. PICK new : new = [q \in gone |-> None]
  BY Zenon
<1>4. new \in SomeRowIds /\ DOMAIN new = gone /\ \A q \in gone : new[q] = None
  BY <1>3, SomeTypes, Zenon
<1>5. PICK v : v = [t EXCEPT !.newT = new, !.pc = "cleanC"]
  BY Zenon
<1>6. /\ v \in AllTx /\ v.pc = "cleanC" /\ v.q = t.q /\ v.held = t.held /\ v.newT = new /\ v.newC = t.newC
  BY <1>1, <1>4, <1>5, Zenon DEF AllTx, TxRecords, Pcs
<1>7. tx' = [tx EXCEPT ![Worker] = v] /\ tx'[Worker] = v
  BY <1>1, <1>2, <1>3, <1>5, Zenon
<1>8. t.held \subseteq {TE} /\ t.newC = Empty /\ t.q = None
  BY <1>1, Zenon DEF WorkerShape
<1>9. WorkerShape(tx[Worker])'
  BY <1>1, <1>2, <1>4, <1>6, <1>7, <1>8, OneRow, Zenon DEF WorkerShape
<1>10. limits' \in [Quotas -> Rows] /\ events' \in 0 .. MaxEvents
  BY <1>1, Zenon DEF IndInv, TypeInv
<1> QED
  BY <1>1, <1>4, <1>6, <1>7, <1>9, <1>10, WorkerStep, Zenon

\* The worker deletes the rows of quota_config of dropped objects and of no
\* pair of target.
LEMMA CleanConfigInv ==
    ASSUME IndInv, CleanConfig
    PROVE  IndInv'
<1> DEFINE t == tx[Worker]
<1>1. /\ tx \in [Procs -> AllTx] /\ Worker \in Procs /\ t \in AllTx /\ WorkerShape(t)
      /\ t.pc = "cleanC" /\ CE \in t.held
      /\ UNCHANGED <<alive, tables, nextId, limits, calls, events, history>>
  BY LockNames, Zenon DEF IndInv, TypeInv, Control, Procs, CleanConfig, At, Only
<1>2. PICK gone \in SUBSET Keys :
         /\ \A k \in gone : IF k \in Objects THEN k \notin alive
                            ELSE \A q \in Pairs : FreshT(Worker)[q] # k
         /\ tx' = [tx EXCEPT ![Worker].newC = [k \in gone |-> NoRow], ![Worker].pc = "commit"]
  <2> DEFINE g == {k \in Keys : /\ FreshC(Worker)[k] # NoRow
                                /\ IF k \in Objects THEN k \notin alive
                                   ELSE \A q \in Pairs : FreshT(Worker)[q] # k}
  <2>1. tx' = [tx EXCEPT ![Worker].newC = [k \in g |-> NoRow], ![Worker].pc = "commit"]
    BY Zenon DEF CleanConfig, Only
  <2>2. g \in SUBSET Keys /\ \A k \in g : IF k \in Objects THEN k \notin alive
                                          ELSE \A q \in Pairs : FreshT(Worker)[q] # k
    BY Zenon
  <2> HIDE DEF g
  <2> QED
    BY <2>1, <2>2, Zenon
<1>3. PICK new : new = [k \in gone |-> NoRow]
  BY Zenon
<1>4. new \in SomeRows /\ DOMAIN new = gone /\ \A k \in gone : new[k] = NoRow
  BY <1>3, SomeTypes, RowTypes, Zenon
<1>5. PICK v : v = [t EXCEPT !.newC = new, !.pc = "commit"]
  BY Zenon
<1>6. /\ v \in AllTx /\ v.pc = "commit" /\ v.q = t.q /\ v.held = t.held /\ v.newC = new /\ v.newT = t.newT
  BY <1>1, <1>4, <1>5, Zenon DEF AllTx, TxRecords, Pcs
<1>7. tx' = [tx EXCEPT ![Worker] = v] /\ tx'[Worker] = v
  BY <1>1, <1>2, <1>3, <1>5, Zenon
<1>8. /\ TE \in t.held /\ t.q = None
      /\ \A q \in DOMAIN t.newT : t.newT[q] = None /\ ~(PartsOf(q) \subseteq alive)
  BY <1>1, Zenon DEF WorkerShape
<1>9. Over(v.newT, target') = FreshT(Worker) /\ alive' = alive
  BY <1>1, <1>6, Zenon DEF FreshT, tables
<1>10. \A k \in DOMAIN v.newC :
             /\ v.newC[k] = NoRow
             /\ k \in Objects => k \notin alive'
             /\ k \in Ids => \A q \in Pairs : Over(v.newT, target')[q] # k
  <2>1. \A k \in Ids : k \notin Objects
    BY KindsAssumption, Zenon
  <2> QED
    BY <1>2, <1>4, <1>6, <1>9, <2>1, Zenon
<1>11. WorkerShape(tx[Worker])'
  BY <1>1, <1>6, <1>7, <1>8, <1>9, <1>10, Zenon DEF WorkerShape
<1>12. limits' \in [Quotas -> Rows] /\ events' \in 0 .. MaxEvents
  BY <1>1, Zenon DEF IndInv, TypeInv
<1> QED
  BY <1>1, <1>6, <1>7, <1>8, <1>11, <1>12, WorkerStep, Zenon

\* An object is dropped.
LEMMA DropInv ==
    ASSUME IndInv, NEW o \in Objects, Drop(o)
    PROVE  IndInv'
<1>1. /\ alive' = alive \ {o} /\ events' \in 0 .. MaxEvents /\ events < MaxEvents
      /\ UNCHANGED <<target, config, nextId, limits, tx, calls, last, crossed, wild>>
  BY ConfigAssumption DEF Drop, IndInv, TypeInv, tables, history
<1>2. TypeInv' /\ Exclusion' /\ Unique'
  BY <1>1, Zenon DEF IndInv, TypeInv, Control, Exclusion, Unique
<1>3. ASSUME NEW s \in Sessions
      PROVE  Shape(tx[s])' /\ RowIds(s)' /\ Outcome(s)' /\ RatioKept(s)'
  <2>1. Shape(tx[s]) /\ RowIds(s) /\ Outcome(s) /\ RatioKept(s) /\ FreshC(s)' = FreshC(s)
    BY <1>1, SessionFacts, Zenon DEF FreshC
  <2>2. IdsFrame(s) /\ nextId' \in Nat /\ nextId' >= nextId
    <3>1. nextId \in Nat
      BY SessionFacts, Zenon
    <3>2. nextId' \in Nat /\ nextId' >= nextId
      BY <1>1, <3>1
    <3>3. IdsFrame(s)
      BY <1>1, Zenon DEF IdsFrame
    <3> QED
      BY <3>2, <3>3, Zenon
  <2>3. Shape(tx[s])' /\ RowIds(s)'
    BY <1>1, <2>2, BystanderIds, Zenon
  <2>4. Outcome(s)'
    BY <1>1, <2>1, Zenon DEF Outcome, Alone
  <2>5. RatioKept(s)'
    BY <1>1, <2>1, Zenon DEF RatioKept
  <2> QED
    BY <2>3, <2>4, <2>5, Zenon
<1>4. WorkerShape(tx[Worker])'
  BY <1>1, Zenon DEF IndInv, Control, WorkerShape
<1>5. TargetHasConfig' /\ RatioFollowsTablespace' /\ QuotaIsAnOutcome'
  <2>1. \A q : RowOf(q)' = RowOf(q)
    BY <1>1, Zenon DEF RowOf
  <2> QED
    BY <1>1, <2>1, Zenon DEF IndInv, TargetHasConfig, RatioFollowsTablespace, QuotaIsAnOutcome
<1> QED
  BY <1>2, <1>3, <1>4, <1>5, Zenon DEF IndInv, Control

-----------------------------------------------------------------------------
(***************************************************************************)
(* The end of a call.                                                      *)
(***************************************************************************)
\* What a session has changed when it commits.
LEMMA Committing ==
    ASSUME IndInv, NEW s \in Sessions, tx[s].pc = "commit"
    PROVE  LET t == tx[s] IN
           /\ t.q \in Quotas /\ (t.q \in Primaries \/ t.q \in Spaces \/ t.q \in Pairs)
           /\ t.q \in Spaces => t.q \in Objects /\ t.q \notin Primaries /\ t.q \notin Pairs
           /\ t.q \in Primaries => t.q \in Objects /\ t.q \notin Spaces /\ t.q \notin Pairs
           /\ t.q \in Pairs => t.q \notin Objects /\ t.q \notin Spaces /\ t.q \notin Primaries
           /\ t.v \in {Delete} \cup (IF t.q \in Spaces THEN Ratios ELSE Limits) /\ t.v # None
           /\ t.v \in Limits => AskedFor(t) = t.v
           /\ t.v = Delete => AskedFor(t) = None
           /\ AskedFor(t) \in Values
           /\ DOMAIN t.newC \subseteq {t.q} \cup Ids
           /\ t.newC \in [DOMAIN t.newC -> Rows]
           /\ t.newT # Empty => DOMAIN t.newT = {t.q} /\ t.q \in Pairs /\ t.newT[t.q] \in {None} \cup Ids
           /\ t.q \in Spaces => CE \in t.held
           /\ t.q \in Primaries => DOMAIN t.newC \subseteq {t.q}
           /\ t.q \in Pairs => DOMAIN t.newC \subseteq Ids
           /\ t.newT # Empty /\ t.newT[t.q] = None => TE \in t.held
           /\ DOMAIN t.newC # {} => t.held \cap {CE, CR} # {}
           /\ t.newT # Empty => t.held \cap {TE, TR} # {}
           /\ t.newT # Empty /\ t.newT[t.q] # None => DOMAIN t.newC = {t.newT[t.q]}
<1> DEFINE t == tx[s]
<1>1. t \in AllTx /\ Shape(t) /\ RowIds(s)
  BY SessionFacts, Zenon
<1>2. t.q \in Quotas /\ t.v \in {Delete} \cup (IF t.q \in Spaces THEN Ratios ELSE Limits)
  BY <1>1, Zenon DEF Shape, AtCall
<1>3. /\ t.q \in Primaries \/ t.q \in Spaces \/ t.q \in Pairs
      /\ t.q \in Spaces => t.q \in Objects /\ t.q \notin Primaries /\ t.q \notin Pairs
      /\ t.q \in Primaries => t.q \in Objects /\ t.q \notin Spaces /\ t.q \notin Pairs
      /\ t.q \in Pairs => t.q \notin Objects /\ t.q \notin Spaces /\ t.q \notin Primaries
  BY <1>2, Kinds, Zenon
<1>4. /\ t.v # None /\ (ToDelete(t.v) <=> t.v = Delete) /\ t.v \in Values \cup {Delete}
      /\ Delete \notin Limits
  <2>1. t.v # None /\ (ToDelete(t.v) <=> t.v = Delete)
    BY <1>2, ConfigPcIs, Zenon
  <2>2. t.v \in Values \cup {Delete}
    BY <1>1, TxFields, Zenon
  <2>3. Delete \notin Limits
    BY ConfigAssumption DEF Delete
  <2> QED
    BY <2>1, <2>2, <2>3, Zenon
<1>5. /\ AskedFor(t) \in Values /\ (t.v \in Limits => AskedFor(t) = t.v)
      /\ t.v = Delete => AskedFor(t) = None
  BY <1>4, Zenon DEF AskedFor, Values
<1>6. /\ t.newC \in [DOMAIN t.newC -> Rows] /\ t.newT \in [DOMAIN t.newT -> {None} \cup Ids]
      /\ DOMAIN t.newT = {} => t.newT = Empty
  <2>1. t.newC \in [DOMAIN t.newC -> Rows] /\ t.newT \in [DOMAIN t.newT -> {None} \cup Ids]
    BY <1>1, TxFields, SomeTypes, Zenon
  <2> QED
    BY <2>1, Zenon DEF Empty
<1>7. AtEnd(t) /\ (DOMAIN t.newC # {} => t.held \cap {CE, CR} # {})
      /\ (DOMAIN t.newT # {} => t.held \cap {TE, TR} # {})
  BY <1>1, Zenon DEF Shape
<1>8. t.newT # Empty => DOMAIN t.newT = {t.q} /\ t.q \in Pairs /\ t.newT[t.q] \in {None} \cup Ids
  BY <1>3, <1>6, <1>7, Zenon DEF AtEnd
<1>9. /\ t.q \in Spaces => CE \in t.held
      /\ t.q \in Primaries => DOMAIN t.newC \subseteq {t.q}
      /\ t.q \in Pairs => DOMAIN t.newC \subseteq Ids
      /\ DOMAIN t.newC \subseteq {t.q} \cup Ids
      /\ t.newT # Empty /\ t.newT[t.q] = None => TE \in t.held
  BY <1>3, <1>7, <1>8, Zenon DEF AtEnd
<1>10. t.newT # Empty /\ t.newT[t.q] # None => DOMAIN t.newC = {t.newT[t.q]}
  BY <1>1, <1>8, Zenon DEF RowIds
<1> QED
  BY <1>2, <1>3, <1>4, <1>5, <1>6, <1>7, <1>8, <1>9, <1>10, Zenon

\* The tables after the commit.
LEMMA CommitTables ==
    ASSUME IndInv, NEW s \in Sessions, tx[s].pc = "commit", target' = FreshT(s), config' = FreshC(s)
    PROVE  LET t == tx[s] IN
           /\ target' \in [Pairs -> {None} \cup Ids] /\ config' \in [Keys -> Rows]
           /\ target \in [Pairs -> {None} \cup Ids] /\ config \in [Keys -> Rows]
           /\ \A r \in Pairs : r # t.q => target'[r] = target[r]
           /\ t.newT = Empty => target' = target
           /\ t.newT # Empty => target'[t.q] = t.newT[t.q]
           /\ \A k \in Keys : config'[k] = IF k \in DOMAIN t.newC THEN t.newC[k] ELSE config[k]
           /\ DOMAIN t.newC = {} => config' = config
<1> DEFINE t == tx[s]
<1>1. s \in Procs /\ target \in [Pairs -> {None} \cup Ids] /\ config \in [Keys -> Rows]
  BY SessionFacts, Zenon
<1>2. /\ target' \in [Pairs -> {None} \cup Ids] /\ config' \in [Keys -> Rows]
      /\ \A q \in Pairs : target'[q] = IF q \in DOMAIN tx[s].newT THEN tx[s].newT[q] ELSE target[q]
      /\ \A k \in Keys : config'[k] = IF k \in DOMAIN tx[s].newC THEN tx[s].newC[k] ELSE config[k]
  BY <1>1, FreshTables, Zenon
<1>3. /\ t.newT # Empty => DOMAIN t.newT = {t.q} /\ t.q \in Pairs
      /\ t.newT = Empty => DOMAIN t.newT = {}
  BY Committing, OneRow, Zenon
<1>4. t.newT = Empty => target' = target
  <2>1. t.newT = Empty => \A q \in Pairs : target'[q] = target[q]
    BY <1>2, <1>3, Zenon
  <2> QED
    BY <1>1, <1>2, <2>1
<1>5. DOMAIN t.newC = {} => config' = config
  <2>1. DOMAIN t.newC = {} => \A k \in Keys : config'[k] = config[k]
    BY <1>2, Zenon
  <2> QED
    BY <1>1, <1>2, <2>1
<1>6. \A r \in Pairs : r # t.q => target'[r] = target[r]
  BY <1>2, <1>3, Zenon
<1>7. t.newT # Empty => target'[t.q] = t.newT[t.q]
  BY <1>2, <1>3, Zenon
<1> QED
  BY <1>1, <1>2, <1>4, <1>5, <1>6, <1>7, Zenon

\* The row ids stay those of one pair.
LEMMA CommitUnique ==
    ASSUME IndInv, NEW s \in Sessions, tx[s].pc = "commit", target' = FreshT(s), config' = FreshC(s),
           nextId' = nextId
    PROVE  Unique'
<1> DEFINE t == tx[s]
<1>1. Unique /\ RowIds(s) /\ nextId \in Nat /\ nextId >= 2
  BY SessionFacts, Zenon DEF IndInv
<1>2. t.newT # Empty /\ t.newT[t.q] # None =>
         t.newT[t.q] < nextId /\ \A r \in Pairs \ {t.q} : target[r] # t.newT[t.q]
  BY <1>1, Committing, Zenon DEF RowIds, Own
<1>3. \A q, r \in Pairs : target'[q] # None /\ target'[q] = target'[r] => q = r
  <2>1. CASE t.newT = Empty
    <3>1. target' = target
      BY <2>1, CommitTables, Zenon
    <3> QED
      BY <1>1, <3>1, Zenon DEF Unique
  <2>2. CASE t.newT # Empty
    <3>1. /\ t.q \in Pairs /\ target'[t.q] = t.newT[t.q]
          /\ \A r \in Pairs : r # t.q => target'[r] = target[r]
      BY <2>2, Committing, CommitTables, Zenon
    <3> QED
      BY <1>1, <1>2, <2>2, <3>1, ZenonT(40) DEF Unique
  <2> QED
    BY <2>1, <2>2, Zenon
<1>4. ASSUME NEW q \in Pairs PROVE target'[q] < nextId'
  <2>1. target[q] < nextId
    BY <1>1, Zenon DEF Unique
  <2>2. target'[q] = target[q] \/ (q = t.q /\ t.newT # Empty /\ target'[q] = t.newT[t.q])
    BY CommitTables, Zenon
  <2>3. None < nextId
    BY <1>1 DEF None
  <2> QED
    BY <1>2, <2>1, <2>2, <2>3, Zenon
<1>5. ASSUME NEW k \in Ids, config'[k] # NoRow PROVE k < nextId' /\ config'[k].limit # None
  <2>1. config'[k] = IF k \in DOMAIN t.newC THEN t.newC[k] ELSE config[k]
    BY CommitTables, Kinds, Zenon
  <2>2. CASE k \notin DOMAIN t.newC
    BY <1>1, <1>5, <2>1, <2>2, Zenon DEF Unique
  <2>3. CASE k \in DOMAIN t.newC /\ t.q \in Pairs
    <3>1. Own(s, k) /\ t.newC[k].limit = t.v
      BY <1>1, <1>5, <2>1, <2>3, Zenon DEF RowIds
    <3> QED
      BY <2>1, <2>3, <3>1, Committing, Zenon DEF Own
  <2>4. CASE k \in DOMAIN t.newC /\ t.q \in Spaces
    BY <1>1, <2>1, <2>4, Zenon DEF RowIds, Unique
  <2>5. CASE k \in DOMAIN t.newC /\ t.q \in Primaries
    <3>1. k = t.q /\ t.q \in Quotas /\ t.q \in Objects
      BY <2>5, Committing, Zenon
    <3> QED
      BY <3>1, Kinds, Zenon
  <2> QED
    BY <2>2, <2>3, <2>4, <2>5, Committing, Zenon
<1> QED
  BY <1>3, <1>4, <1>5, Zenon DEF Unique

\* What a commit does to the row of another quota: nothing, or it changes the
\* ratio.
LEMMA CommitOtherRow ==
    ASSUME IndInv, NEW s \in Sessions, tx[s].pc = "commit", target' = FreshT(s), config' = FreshC(s),
           ~wild, NEW q \in Pairs, q # tx[s].q, target[q] # None
    PROVE  /\ target'[q] = target[q] /\ target[q] \in Ids
           /\ config'[target[q]].limit = config[target[q]].limit
           /\ tx[s].q \notin Spaces => config'[target[q]] = config[target[q]]
           /\ config[target[q]] # NoRow => config'[target[q]] # NoRow
<1> DEFINE t == tx[s]
<1>1. Unique /\ RowIds(s)
  BY SessionFacts, Zenon DEF IndInv
<1>2. target'[q] = target[q] /\ target[q] \in Ids
  BY CommitTables, Zenon
<1>3. PICK k \in Ids : k = target[q]
  BY <1>2, Zenon
<1>4. config'[k] = (IF k \in DOMAIN t.newC THEN t.newC[k] ELSE config[k]) /\ config[k] \in Rows
      /\ config'[k] \in Rows
  BY CommitTables, Kinds, Zenon
<1>5. t.q \in Pairs => k \notin DOMAIN t.newC
  BY <1>1, <1>3, ZenonT(40) DEF RowIds, Own, Unique
<1>6. t.q \in Primaries => k \notin DOMAIN t.newC
  <2>1. t.q \in Primaries /\ k \in DOMAIN t.newC => k = t.q /\ t.q \in Quotas /\ t.q \in Objects
    BY Committing, Zenon
  <2> QED
    BY <2>1, Kinds, Zenon
<1>7. t.q \in Spaces /\ k \in DOMAIN t.newC => t.newC[k].limit = config[k].limit
  BY <1>1, Zenon DEF RowIds
<1>8. config'[k].limit = config[k].limit /\ (t.q \notin Spaces => config'[k] = config[k])
  BY <1>4, <1>5, <1>6, <1>7, Committing, Zenon
<1>9. config[k] # NoRow => config'[k] # NoRow
  <2>1. config[k] # NoRow => config[k].limit # None
    BY <1>1, Zenon DEF Unique
  <2> QED
    BY <1>8, <2>1, RowTypes, Zenon
<1> QED
  BY <1>2, <1>3, <1>8, <1>9, Zenon

\* A committed row of target has its row in quota_config.
LEMMA CommitTargetHasConfig ==
    ASSUME IndInv, NEW s \in Sessions, tx[s].pc = "commit", target' = FreshT(s), config' = FreshC(s),
           wild' = wild
    PROVE  TargetHasConfig'
<1> SUFFICES ASSUME ~wild, NEW q \in Pairs, target'[q] # None PROVE config'[target'[q]] # NoRow
  BY Zenon DEF TargetHasConfig
<1> DEFINE t == tx[s]
<1>1. Unique /\ RowIds(s) /\ \A r \in Pairs : target[r] # None => config[target[r]] # NoRow
  BY SessionFacts, Zenon DEF IndInv, TargetHasConfig
<1>2. CASE q # t.q
  BY <1>1, <1>2, CommitOtherRow, CommitTables, ZenonT(40)
<1>3. CASE q = t.q /\ t.newT # Empty
  <2>1. /\ target'[q] = t.newT[q] /\ t.newT[q] \in DOMAIN t.newC /\ t.newT[q] \in Keys
        /\ t.newC[t.newT[q]] # NoRow
    BY <1>1, <1>3, CommitTables, Committing, Kinds, Zenon DEF RowIds
  <2> QED
    BY <2>1, CommitTables, Zenon
<1>4. CASE q = t.q /\ t.newT = Empty
  <2>1. PICK k \in Ids : k = target[q]
    BY <1>4, CommitTables, Zenon
  <2>2. target'[q] = k /\ k # None /\ k \in Keys
    BY <1>4, <2>1, CommitTables, Kinds, ZenonT(40)
  <2>3. k \in DOMAIN t.newC => t.newC[k] # NoRow
    BY <1>1, <1>4, OneRow DEF RowIds
  <2>4. config'[k] = IF k \in DOMAIN t.newC THEN t.newC[k] ELSE config[k]
    BY <2>2, CommitTables, Zenon
  <2> QED
    BY <1>1, <2>1, <2>2, <2>3, <2>4, Zenon
<1> QED
  BY <1>2, <1>3, <1>4, Zenon

\* The quotas of a tablespace have its ratio.
LEMMA CommitRatioFollows ==
    ASSUME IndInv, NEW s \in Sessions, Commit(s)
    PROVE  RatioFollowsTablespace'
<1> DEFINE t == tx[s]
<1>1. /\ t.pc = "commit" /\ target' = FreshT(s) /\ config' = FreshC(s) /\ alive' = alive
      /\ crossed' = IF t.q \notin Spaces THEN crossed
                    ELSE IF t.others = {} THEN crossed \ {t.q} ELSE crossed \cup {t.q}
  BY Zenon DEF Commit
<1>2. Unique /\ RowIds(s) /\ RatioKept(s) /\ Outcome(s) /\ RatioFollowsTablespace
  BY SessionFacts, Zenon DEF IndInv
<1> SUFFICES ASSUME NEW q \in Pairs, q[2] \in alive, q[2] \notin crossed', target'[q] # None,
                    config'[target'[q]] # NoRow
             PROVE  config'[target'[q]].ratio = config'[q[2]].ratio
  BY <1>1, Zenon DEF RatioFollowsTablespace
<1>3. PICK k \in Ids : k = target'[q]
  BY <1>1, CommitTables, Zenon
<1>4. /\ k \in Keys /\ q[2] \in Keys /\ q[2] \in Spaces /\ q[2] \notin Ids
      /\ q = <<q[1], q[2]>> /\ q[1] \in Primaries
  BY Kinds, Zenon DEF Quotas
<1>5. /\ config'[k] = IF k \in DOMAIN t.newC THEN t.newC[k] ELSE config[k]
      /\ config'[q[2]] = IF q[2] \in DOMAIN t.newC THEN t.newC[q[2]] ELSE config[q[2]]
  BY <1>1, <1>4, CommitTables, Zenon
<1>6. CASE t.q \in Spaces
  <2>1. target[q] = k
    BY <1>1, <1>3, <1>6, CommitTables, Committing, Zenon
  <2>2. CASE q[2] = t.q
    <3>1. t.others = {}
      BY <1>1, <1>6, <2>2, Zenon
    <3>2. Alone(t)
      <4>1. PartsOf(t.q) = {t.q}
        BY <1>1, <1>6, Committing, ZenonT(40) DEF PartsOf, IsPair
      <4> QED
        BY <2>2, <3>1, <4>1, Zenon DEF Alone
    <3>3. config'[q[2]].ratio = AskedFor(t)
      BY <1>1, <1>2, <1>5, <1>6, <2>2, <3>2, Committing, ZenonT(60) DEF Outcome, Amount
    <3>4. target[<<q[1], t.q>>] = k /\ FreshC(s)[k] # NoRow
      BY <1>1, <1>3, <1>4, <2>1, <2>2, Zenon
    <3>5. FreshC(s)[k].ratio = AskedFor(t)
      BY <1>1, <1>2, <1>3, <1>4, <1>6, <3>4, Zenon DEF RatioKept
    <3> QED
      BY <1>1, <1>3, <3>3, <3>5, Zenon
  <2>3. CASE q[2] # t.q
    <3>1. k \notin DOMAIN t.newC
      BY <1>1, <1>2, <1>6, <2>1, <2>3, Zenon DEF RowIds
    <3>2. q[2] \notin DOMAIN t.newC /\ q[2] \notin crossed
      BY <1>1, <1>4, <1>6, <2>3, Committing, Zenon
    <3> QED
      BY <1>2, <1>3, <1>5, <2>1, <3>1, <3>2, Zenon DEF RatioFollowsTablespace
  <2> QED
    BY <2>2, <2>3, Zenon
<1>7. CASE t.q \in Primaries
  <2>1. target' = target /\ k \notin DOMAIN t.newC /\ q[2] \notin DOMAIN t.newC /\ crossed' = crossed
    <3>1. t.q \notin Spaces /\ t.q \notin Ids /\ DOMAIN t.newC \subseteq {t.q} /\ t.newT = Empty
      BY <1>1, <1>7, Committing, Kinds, Zenon
    <3> QED
      BY <1>1, <1>4, <3>1, CommitTables, Zenon
  <2> QED
    BY <1>2, <1>3, <1>5, <2>1, Zenon DEF RatioFollowsTablespace
<1>8. CASE t.q \in Pairs
  <2>1. q[2] \notin DOMAIN t.newC /\ crossed' = crossed /\ t.q \notin Spaces
    BY <1>1, <1>4, <1>8, Committing, Zenon
  <2>2. CASE k \in DOMAIN t.newC
    <3>1. t.newC[k] # NoRow
      BY <1>3, <1>5, <2>2, Zenon
    <3>2. Own(s, k)
      BY <1>1, <1>2, <1>8, <2>2, <3>1, Zenon DEF RowIds
    <3>3. q = t.q
      BY <1>1, <1>3, <3>2, CommitTables, Zenon DEF Own
    <3>4. t.newT # Empty \/ target[t.q] = k
      BY <1>1, <1>3, <3>3, CommitTables, Zenon
    <3> QED
      BY <1>1, <1>2, <1>3, <1>5, <1>8, <2>1, <2>2, <3>1, <3>3, <3>4, Zenon DEF RatioKept
  <2>3. CASE k \notin DOMAIN t.newC
    <3>1. target[q] = k
      <4>1. CASE q # t.q \/ t.newT = Empty
        BY <1>1, <1>3, <4>1, CommitTables, Zenon
      <4>2. CASE q = t.q /\ t.newT # Empty
        <5>1. t.newT[t.q] = k
          BY <1>1, <1>3, <4>2, CommitTables, Zenon
        <5>2. k # None
          BY <1>3, Kinds, Zenon
        <5>3. DOMAIN t.newC = {k}
          BY <1>1, <4>2, <5>1, <5>2, Committing, Zenon
        <5> QED
          BY <2>3, <5>3, Zenon
      <4> QED
        BY <4>1, <4>2, Zenon
    <3> QED
      BY <1>2, <1>3, <1>5, <2>1, <2>3, <3>1, ZenonT(40) DEF RatioFollowsTablespace
  <2> QED
    BY <2>2, <2>3, Zenon
<1> QED
  BY <1>1, <1>6, <1>7, <1>8, Committing, Zenon

\* The quota of the call is what it asked for or what a call set that has
\* overlapped it; the other quotas keep theirs.
LEMMA CommitOutcome ==
    ASSUME IndInv, NEW s \in Sessions, Commit(s)
    PROVE  QuotaIsAnOutcome'
<1> DEFINE t == tx[s]
<1>1. /\ t.pc = "commit" /\ target' = FreshT(s) /\ config' = FreshC(s) /\ alive' = alive /\ wild' = wild
      /\ last' = [last EXCEPT ![t.q] = {AskedFor(t)} \cup t.others]
  BY Zenon DEF Commit, AskedFor
<1>2. RowIds(s) /\ Outcome(s) /\ last \in [Quotas -> SUBSET Values]
  BY SessionFacts, Zenon DEF IndInv, TypeInv
<1>3. ~wild => \A q \in Quotas : PartsOf(q) \subseteq alive => Amount(q, RowOf(q)) \in last[q]
  BY Zenon DEF IndInv, QuotaIsAnOutcome, Amount
<1> SUFFICES ASSUME ~wild, NEW q \in Quotas, PartsOf(q) \subseteq alive
             PROVE  Amount(q, RowOf(q)') \in last'[q]
  BY <1>1, Zenon DEF QuotaIsAnOutcome, Amount
<1>4. Amount(q, RowOf(q)) \in last[q]
  BY <1>3, Zenon
<1>5. CASE q \in Objects
  <2>1. RowOf(q) = config[q] /\ RowOf(q)' = config'[q] /\ q \in Keys /\ q \notin Ids
    BY <1>5, Kinds, Zenon DEF RowOf, IsPair
  <2>2. config'[q] = IF q \in DOMAIN t.newC THEN t.newC[q] ELSE config[q]
    BY <1>1, <2>1, CommitTables, Zenon
  <2>3. CASE q # t.q
    <3>1. q \notin DOMAIN t.newC /\ last'[q] = last[q]
      BY <1>1, <1>2, <2>1, <2>3, Committing, Zenon
    <3> QED
      BY <1>4, <2>1, <2>2, <3>1, Zenon
  <2>4. CASE q = t.q
    <3>1. last'[q] = {AskedFor(t)} \cup t.others
      BY <1>1, <1>2, <2>4, Zenon
    <3>2. q \in DOMAIN t.newC => Amount(q, t.newC[q]) = AskedFor(t)
      BY <1>1, <1>2, <1>5, <2>4, Zenon DEF Outcome
    <3>3. q \notin DOMAIN t.newC /\ t.others = {} => Amount(q, config[q]) = AskedFor(t)
      BY <1>1, <1>2, <1>5, <2>4, Zenon DEF Outcome, Alone
    <3>4. t.others # {} => Amount(q, config[q]) \in t.others
      BY <1>2, <1>4, <2>1, <2>4, Zenon DEF Outcome
    <3> QED
      BY <2>1, <2>2, <3>1, <3>2, <3>3, <3>4, Zenon
  <2> QED
    BY <2>3, <2>4, Zenon
<1>6. CASE q \in Pairs
  <2>1. /\ RowOf(q) = IF target[q] = None THEN NoRow ELSE config[target[q]]
        /\ RowOf(q)' = IF target'[q] = None THEN NoRow ELSE config'[target'[q]]
        /\ q \notin Spaces
    BY <1>6, Kinds, Zenon DEF RowOf
  <2>2. CASE q # t.q
    <3>1. target'[q] = target[q] /\ last'[q] = last[q]
      BY <1>1, <1>2, <1>6, <2>2, CommitTables, Committing, Zenon
    <3>2. target[q] # None => config'[target[q]].limit = config[target[q]].limit
      BY <1>1, <1>6, <2>2, CommitOtherRow, Zenon
    <3> QED
      BY <1>4, <2>1, <3>1, <3>2, Zenon DEF Amount
  <2>3. CASE q = t.q /\ t.newT # Empty
    <3>1. last'[q] = {AskedFor(t)} \cup t.others /\ target'[q] = t.newT[q] /\ t.newT[q] \in {None} \cup Ids
      BY <1>1, <1>2, <2>3, CommitTables, Committing, Zenon
    <3>2. CASE t.newT[q] = None
      <4>1. AskedFor(t) = None
        BY <1>1, <1>2, <1>6, <2>3, <3>2, Committing, Zenon DEF Outcome
      <4> QED
        BY <2>1, <3>1, <3>2, <4>1, RowTypes, Zenon DEF Amount
    <3>3. CASE t.newT[q] # None
      <4>1. PICK k \in Ids : k = t.newT[q]
        BY <3>1, <3>3, Zenon
      <4>2. k \in DOMAIN t.newC /\ t.newC[k] # NoRow /\ t.newC[k].limit = t.v /\ t.newC[k] \in Rows
        BY <1>1, <1>2, <1>6, <2>3, <3>3, <4>1, Committing, ZenonT(40) DEF RowIds
      <4>3. config'[k] = t.newC[k]
        BY <1>1, <4>2, CommitTables, Kinds, Zenon
      <4>4. AskedFor(t) = t.v
        BY <1>1, <1>6, <2>1, <2>3, <4>2, Committing, RowTypes, Zenon
      <4> QED
        BY <2>1, <3>1, <3>3, <4>1, <4>2, <4>3, <4>4, Zenon DEF Amount
    <3> QED
      BY <3>2, <3>3, Zenon
  <2>4. CASE q = t.q /\ t.newT = Empty
    <3>1. /\ last'[q] = {AskedFor(t)} \cup t.others /\ target'[q] = target[q]
          /\ target[q] \in {None} \cup Ids
      BY <1>1, <1>2, <1>6, <2>4, CommitTables, Zenon
    <3>2. CASE \E k \in DOMAIN t.newC : target[q] = k
      <4>1. PICK k \in DOMAIN t.newC : target[q] = k
        BY <3>2, Zenon
      <4>2. k \in Ids /\ k # None /\ k \in Keys
        BY <1>1, <1>6, <2>4, <4>1, Committing, Kinds, ZenonT(40)
      <4>3. t.newC[k] # NoRow /\ t.newC[k].limit = t.v /\ t.newC[k] \in Rows
        <5>1. t.pc = "commit" /\ t.q \in Pairs
          BY <1>1, <1>6, <2>4, Zenon
        <5>2. /\ t.newC[k] # NoRow => t.newC[k].limit = t.v
              /\ t.newC[k] = NoRow => t.newT = One(t.q, None)
          BY <1>2, <5>1, ZenonT(40) DEF RowIds
        <5>3. t.newC[k] \in Rows
          BY <5>1, Committing, ZenonT(40)
        <5> QED
          BY <2>4, <5>2, <5>3, OneRow, Zenon
      <4>4. config'[k] = t.newC[k]
        BY <1>1, <4>1, <4>2, CommitTables, Zenon
      <4>5. AskedFor(t) = t.v
        BY <1>1, <1>6, <2>1, <2>4, <4>3, Committing, RowTypes, Zenon
      <4> QED
        BY <2>1, <3>1, <4>1, <4>2, <4>3, <4>4, <4>5, Zenon DEF Amount
    <3>3. CASE ~\E k \in DOMAIN t.newC : target[q] = k
      <4>1. RowOf(q)' = RowOf(q)
        <5>1. target[q] # None => target[q] \in Keys /\ config'[target[q]] = config[target[q]]
          BY <1>1, <3>1, <3>3, CommitTables, Kinds, Zenon
        <5> QED
          BY <2>1, <3>1, <5>1, Zenon
      <4>2. CASE t.others # {}
        BY <1>2, <1>4, <2>4, <3>1, <4>1, <4>2, Zenon DEF Outcome
      <4>3. CASE t.others = {}
        <5>1. Alone(t)
          BY <2>4, <4>3, Zenon DEF Alone
        <5>2. DOMAIN t.newC = {}
          BY <1>1, <1>2, <1>6, <2>4, <3>3, <5>1, Zenon DEF Outcome
        <5>3. t.v = Delete /\ target[q] = None
          BY <1>1, <1>2, <1>6, <2>4, <5>1, <5>2, Zenon DEF Outcome
        <5>4. AskedFor(t) = None
          BY <1>1, <5>3, Committing, Zenon
        <5> QED
          BY <2>1, <3>1, <4>1, <5>3, <5>4, RowTypes, Zenon DEF Amount
      <4> QED
        BY <4>2, <4>3, Zenon
    <3> QED
      BY <3>2, <3>3, Zenon
  <2> QED
    BY <2>2, <2>3, <2>4, Zenon
<1> QED
  BY <1>5, <1>6, Zenon DEF Quotas

\* The row ids another session has to do with stay its own.
LEMMA CommitOwn ==
    ASSUME IndInv, NEW s \in Sessions, tx[s].pc = "commit", target' = FreshT(s),
           config' = FreshC(s), nextId' = nextId,
           \A w \in Procs \ {s} : tx'[w].newT = tx[w].newT /\ tx'[w].q = tx[w].q, tx'[s] = Idle,
           NEW u \in Sessions, u # s, NEW k \in Ids, Own(u, k)
    PROVE  /\ Own(u, k)'
           /\ target[tx[u].q] # k /\ tx[u].q \in Pairs => target'[tx[u].q] # k
<1> DEFINE t == tx[s]
<1>1. s \in Procs /\ u \in Procs /\ k # None
  BY Kinds, Zenon DEF Procs
<1>2. \A r \in DOMAIN t.newT : t.newT[r] # k
  BY <1>1, Zenon DEF Own
<1>3. \A r \in Pairs : target[r] # k => target'[r] # k
  <2> SUFFICES ASSUME NEW r \in Pairs, target[r] # k PROVE target'[r] # k
    BY Zenon
  <2>1. CASE r # t.q \/ t.newT = Empty
    <3>1. target'[r] = target[r]
      BY <2>1, CommitTables, Zenon
    <3> QED
      BY <3>1, Zenon
  <2>2. CASE r = t.q /\ t.newT # Empty
    <3>1. target'[r] = t.newT[r]
      BY <2>2, CommitTables, Zenon
    <3>2. r \in DOMAIN t.newT
      BY <2>2, Committing, Zenon
    <3> QED
      BY <1>2, <3>1, <3>2, Zenon
  <2> QED
    BY <2>1, <2>2, Zenon
<1>4. \A w \in Procs \ {u} : \A r \in DOMAIN tx'[w].newT : tx'[w].newT[r] # k
  BY <1>1, IdleTx, OneRow, Zenon DEF Own
<1> QED
  BY <1>1, <1>3, <1>4, Zenon DEF Own

\* What is known of another session, whose lock and row ids keep the commit off
\* the rows it relies on.
LEMMA CommitOtherRowIds ==
    ASSUME IndInv, NEW s \in Sessions, tx[s].pc = "commit", target' = FreshT(s),
           config' = FreshC(s), nextId' = nextId, wild' = wild,
           \A w \in Procs \ {s} : tx'[w].newT = tx[w].newT /\ tx'[w].q = tx[w].q, tx'[s] = Idle,
           NEW u \in Sessions, u # s,
           tx'[u].pc = tx[u].pc, tx'[u].v = tx[u].v, tx'[u].id = tx[u].id,
           tx'[u].newC = tx[u].newC
    PROVE  RowIds(u)'
<1> DEFINE t == tx[s]
           w == tx[u]
<1>1. /\ u \in Procs /\ s \in Procs /\ Shape(w) /\ RowIds(u)
      /\ tx'[u].newT = w.newT /\ tx'[u].q = w.q
      /\ CE \in w.held => t.held \cap {CE, CR, CS} = {}
      /\ TE \in w.held => t.held \cap {TE, TR} = {}
  BY SessionFacts, Zenon DEF IndInv, Control, Exclusion, Procs
<1>2. TE \in w.held => target' = target
  BY <1>1, Committing, CommitTables, Zenon
<1>3. CE \in w.held => DOMAIN t.newC = {} /\ config' = config /\ \A r \in Pairs : target'[r] \in {None, target[r]}
  <2>1. CE \in w.held => DOMAIN t.newC = {}
    BY <1>1, Committing, ZenonT(60)
  <2>2. CE \in w.held => t.newT = Empty \/ t.newT[t.q] = None
    BY <2>1, Committing, Zenon
  <2> QED
    BY <2>1, <2>2, CommitTables, ZenonT(40)
<1>4. CASE w.pc \in {"updateC", "share", "insertC"} /\ w.q \in Pairs
  <2>1. PICK k \in Ids : k = w.id
    BY <1>4, RowIdTypes, Zenon DEF IndInv
  <2>2. Own(u, k) /\ (w.pc # "updateC" => target[w.q] # k)
    BY <1>1, <1>4, <2>1, Zenon DEF RowIds
  <2>3. Own(u, k)' /\ (w.pc # "updateC" => target'[w.q] # k)
    BY <1>4, <2>2, CommitOwn, Zenon
  <2>4. Own(u, tx[u].id)'
    BY <2>1, <2>3, Zenon DEF Own
  <2> QED
    BY <1>1, <1>4, <2>1, <2>3, <2>4, Zenon DEF RowIds
<1>5. CASE w.pc = "deleteC" /\ w.q \in Pairs
  <2>1. TE \in w.held
    BY <1>1, <1>5, Zenon DEF Shape, AtChange
  <2> QED
    BY <1>1, <1>2, <1>5, <2>1, Zenon DEF RowIds
<1>6. CASE w.pc = "commit" /\ w.q \in Pairs
  <2>1. DOMAIN w.newC \subseteq Ids /\ w.q \notin Spaces
    BY <1>6, Committing, Zenon
  <2>2. ASSUME NEW k \in DOMAIN w.newC
        PROVE  /\ w.newC[k] # NoRow => Own(u, k)' /\ w.newC[k].limit = w.v
               /\ w.newC[k] = NoRow /\ ~wild => target'[w.q] = k /\ w.newT = One(w.q, None)
    <3>1. w.newC[k] # NoRow => Own(u, k)' /\ w.newC[k].limit = w.v
      BY <1>1, <1>6, <2>1, <2>2, CommitOwn, Zenon DEF RowIds
    <3>2. w.newC[k] = NoRow /\ ~wild => target[w.q] = k /\ w.newT = One(w.q, None)
      BY <1>1, <1>6, <2>2, Zenon DEF RowIds
    <3>3. w.newT = One(w.q, None) => TE \in w.held
      <4>1. One(w.q, None) # Empty /\ One(w.q, None)[w.q] = None
        BY OneRow, Zenon DEF One
      <4> QED
        BY <1>6, <4>1, Committing, Zenon
    <3> QED
      BY <1>2, <3>1, <3>2, <3>3, Zenon
  <2>3. ASSUME w.newT # Empty, w.newT[w.q] # None
        PROVE  /\ Own(u, w.newT[w.q])' /\ target'[w.q] # w.newT[w.q]
               /\ DOMAIN w.newC = {w.newT[w.q]} /\ w.newC[w.newT[w.q]] # NoRow
    <3>1. PICK k \in Ids : k = w.newT[w.q]
      BY <1>6, <2>3, Committing, Zenon
    <3>2. Own(u, k) /\ target[w.q] # k /\ DOMAIN w.newC = {k} /\ w.newC[k] # NoRow
      BY <1>1, <1>6, <2>3, <3>1, Zenon DEF RowIds
    <3>3. Own(u, k)' /\ target'[w.q] # k
      BY <1>6, <3>2, CommitOwn, Zenon
    <3> QED
      BY <1>1, <3>1, <3>2, <3>3, ZenonT(40) DEF Own
  <2> QED
    BY <1>1, <1>6, <2>1, <2>2, <2>3, Zenon DEF RowIds
<1>7. CASE w.pc = "commit" /\ w.q \in Spaces
  <2>1. CE \in w.held /\ w.q \notin Pairs
    BY <1>7, Committing, Zenon
  <2>2. \A k \in DOMAIN w.newC \cap Ids :
            /\ config[k] # NoRow /\ w.newC[k].limit = config[k].limit
            /\ \A r \in Pairs : r[2] # w.q => target[r] # k
    BY <1>1, <1>7, Zenon DEF RowIds
  <2>3. \A k \in DOMAIN w.newC \cap Ids :
            /\ config'[k] # NoRow /\ w.newC[k].limit = config'[k].limit
            /\ \A r \in Pairs : r[2] # w.q => target'[r] # k
    <3> SUFFICES ASSUME NEW k \in DOMAIN w.newC \cap Ids
                 PROVE  /\ config'[k] # NoRow /\ w.newC[k].limit = config'[k].limit
                        /\ \A r \in Pairs : r[2] # w.q => target'[r] # k
      OBVIOUS
    <3>1. config'[k] # NoRow /\ w.newC[k].limit = config'[k].limit
      BY <1>3, <2>1, <2>2, Zenon
    <3>2. ASSUME NEW r \in Pairs, r[2] # w.q PROVE target'[r] # k
      <4>1. k # None
        BY Kinds, Zenon
      <4>2. target'[r] \in {None, target[r]} /\ target[r] # k
        BY <1>3, <2>1, <2>2, <3>2, Zenon
      <4> QED
        BY <4>1, <4>2, Zenon
    <3> QED
      BY <3>1, <3>2, Zenon
  <2> QED
    BY <1>1, <1>7, <2>1, <2>3, ZenonT(60) DEF RowIds
<1>8. CASE w.pc \notin {"updateC", "share", "insertC", "deleteC", "commit"}
  BY <1>8, Zenon DEF RowIds
<1>9. CASE w.q \notin Pairs /\ (w.pc # "commit" \/ w.q \notin Spaces)
  BY <1>1, <1>9, Zenon DEF RowIds
<1> QED
  BY <1>4, <1>5, <1>6, <1>7, <1>8, <1>9, Zenon

\* What another session is about to write is still an outcome.
LEMMA CommitOtherOutcome ==
    ASSUME IndInv, NEW s \in Sessions, tx[s].pc = "commit", target' = FreshT(s),
           config' = FreshC(s), wild' = wild, alive' = alive,
           NEW vs, vs # {}, last' = [last EXCEPT ![tx[s].q] = vs],
           NEW u \in Sessions, u # s, tx[u].pc # "idle",
           tx'[u] = IF tx[u].q = tx[s].q THEN [tx[u] EXCEPT !.others = vs] ELSE tx[u]
    PROVE  Outcome(u)'
<1> DEFINE t == tx[s]
           w == tx[u]
<1>1. /\ Shape(w) /\ Outcome(u) /\ w \in AllTx /\ last \in [Quotas -> SUBSET Values]
      /\ t.q \in Quotas /\ w.q \in Quotas
  BY SessionFacts, Committing, Zenon DEF IndInv, TypeInv, Shape, AtCall
<1>2. CASE w.q = t.q
  <2>1. PICK v : v = [w EXCEPT !.others = vs]
    BY Zenon
  <2>2. /\ v.pc = w.pc /\ v.q = w.q /\ v.v = w.v /\ v.newT = w.newT /\ v.newC = w.newC
        /\ v.others = vs /\ tx'[u] = v
    BY <1>1, <1>2, <2>1, Zenon DEF AllTx, TxRecords
  <2>3. last'[v.q] = vs
    BY <1>1, <1>2, <2>2, Zenon
  <2>4. ~Alone(v)'
    BY <2>2, Zenon DEF Alone
  <2>5. AskedFor(v) = AskedFor(w)
    BY <2>2, Zenon DEF AskedFor
  <2>6. /\ v.pc \in {"spread", "commit"} /\ v.q \in Objects /\ v.q \in DOMAIN v.newC =>
             Amount(v.q, v.newC[v.q]) = AskedFor(v)
        /\ v.pc = "commit" /\ v.q \in Pairs /\ v.newT # Empty /\ v.newT[v.q] = None => v.v = Delete
    BY <1>1, <2>2, <2>5, Zenon DEF Outcome
  <2> QED
    BY <2>2, <2>3, <2>4, <2>6, Zenon DEF Outcome, Alone
<1>3. CASE w.q # t.q
  <2>1. tx'[u] = w /\ last'[w.q] = last[w.q]
    BY <1>1, <1>3, Zenon
  <2>2. w.q \in Objects => config'[w.q] = config[w.q]
    <3>1. w.q \in Objects => w.q \in Keys /\ w.q \notin Ids
      BY <1>1, Kinds, Zenon
    <3> QED
      <4>1. DOMAIN t.newC \subseteq {t.q} \cup Ids
        BY Committing, Zenon
      <4>2. w.q \in Objects => w.q \notin DOMAIN t.newC
        BY <1>3, <3>1, <4>1, Zenon
      <4> QED
        BY <3>1, <4>2, CommitTables, Zenon
  <2>3. w.q \in Pairs => target'[w.q] = target[w.q]
    BY <1>3, CommitTables, Zenon
  <2>4. w.q \in Pairs /\ ~wild /\ target[w.q] = w.id /\ w.id # None /\ config[w.id] # NoRow =>
           config'[w.id] # NoRow
    BY <1>3, CommitOtherRow, ZenonT(40)
  <2>5. w.pc = "updateC" /\ w.q \in Pairs => w.id # None
    BY <1>1, Zenon DEF Shape, AtChange
  <2>6. w.pc = "lock" => w.q \in Objects
    BY <1>1, Kinds, Zenon DEF Shape, AtFirst
  <2>7. CASE w.q \in Objects
    BY <1>1, <2>1, <2>2, <2>7, Kinds, Zenon DEF Outcome, Alone
  <2>8. CASE w.q \in Pairs
    BY <1>1, <2>1, <2>3, <2>4, <2>5, <2>6, <2>8, Kinds, Zenon DEF Outcome, Alone
  <2> QED
    BY <1>1, <2>7, <2>8, Zenon DEF Quotas
<1> QED
  BY <1>2, <1>3, Zenon

\* The ratios another session is about to write are still those of its
\* tablespace.
LEMMA CommitOtherRatio ==
    ASSUME IndInv, NEW s \in Sessions, tx[s].pc = "commit", target' = FreshT(s),
           config' = FreshC(s), alive' = alive, tx[s].q \notin Spaces => crossed' = crossed,
           NEW u \in Sessions, u # s,
           tx'[u].pc = tx[u].pc, tx'[u].q = tx[u].q, tx'[u].v = tx[u].v, tx'[u].ratio = tx[u].ratio,
           tx'[u].newT = tx[u].newT, tx'[u].newC = tx[u].newC
    PROVE  RatioKept(u)'
<1> DEFINE t == tx[s]
           w == tx[u]
<1>1. /\ u \in Procs /\ s \in Procs /\ Shape(w) /\ RowIds(u) /\ RatioKept(u)
      /\ CE \in w.held => t.held \cap {CE, CR, CS} = {}
      /\ CE \in t.held => w.held \cap {CE, CR, CS} = {}
  BY SessionFacts, ZenonT(40) DEF IndInv, Control, Exclusion, Procs
<1>2. t.q \notin Spaces => \A x \in Spaces : config'[x] = config[x]
  <2>1. \A x \in Spaces : x \in Keys /\ x \notin Ids
    BY Kinds, Zenon DEF Quotas
  <2> QED
    <3>1. DOMAIN t.newC \subseteq {t.q} \cup Ids
      BY Committing, Zenon
    <3>2. t.q \notin Spaces => \A x \in Spaces : x \notin DOMAIN t.newC
      BY <2>1, <3>1, Zenon
    <3> QED
      BY <2>1, <3>2, CommitTables, Zenon
<1>3. t.q \in Spaces => w.held \cap {CE, CR, CS} = {}
  BY <1>1, Committing, Zenon
<1>4. w.q \in Pairs => w.q[2] \in Spaces /\ w.q \notin Spaces
  BY Kinds, Zenon DEF Quotas
<1>5. CASE w.pc = "insertC" /\ w.q \in Pairs
  <2>1. CS \in w.held
    BY <1>1, <1>5, Zenon DEF Shape, AtInsert
  <2>2. config'[w.q[2]] = config[w.q[2]]
    BY <1>2, <1>3, <1>4, <1>5, <2>1, Zenon
  <2> QED
    BY <1>1, <1>5, <2>2, Zenon DEF RatioKept
<1>6. CASE w.pc = "commit" /\ w.q \in Pairs
  <2>1. ASSUME NEW k \in DOMAIN w.newC, w.q[2] \in alive, w.q[2] \notin crossed', w.newC[k] # NoRow,
               w.newT # Empty \/ target'[w.q] = k
        PROVE  w.newC[k].ratio = config'[w.q[2]].ratio
    <3>1. w.held \cap {CE, CR} # {} /\ DOMAIN w.newC \subseteq Ids
      BY <1>6, <2>1, Committing, Zenon
    <3>2. k \in Ids
      BY <3>1, Zenon
    <3>3. t.q \notin Spaces
      BY <1>3, <3>1, Zenon
    <3>4. Own(u, k)
      BY <1>1, <1>6, <2>1, ZenonT(40) DEF RowIds
    <3>5. w.newT # Empty \/ target[w.q] = k
      <4>1. \A r \in DOMAIN t.newT : t.newT[r] # k
        BY <1>1, <3>4, Zenon DEF Own
      <4> QED
        <5>1. CASE w.q # t.q \/ t.newT = Empty
          <6>1. target'[w.q] = target[w.q]
            BY <1>6, <5>1, CommitTables, Zenon
          <6> QED
            BY <2>1, <6>1, Zenon
        <5>2. CASE w.q = t.q /\ t.newT # Empty
          <6>1. target'[w.q] = t.newT[w.q]
            BY <5>2, CommitTables, Zenon
          <6>2. w.q \in DOMAIN t.newT
            BY <5>2, Committing, Zenon
          <6> QED
            BY <2>1, <4>1, <6>1, <6>2, Zenon
        <5> QED
          BY <5>1, <5>2, Zenon
    <3> QED
      BY <1>1, <1>2, <1>4, <1>6, <2>1, <3>3, <3>5, Zenon DEF RatioKept
  <2> QED
    BY <1>4, <1>6, <2>1, Zenon DEF RatioKept
<1>7. CASE w.pc = "commit" /\ w.q \in Spaces
  <2>1. CE \in w.held
    BY <1>7, Committing, ZenonT(40)
  <2>2. DOMAIN t.newC = {} /\ config' = config
    <3>1. t.held \cap {CE, CR} = {}
      BY <1>1, <2>1, Zenon
    <3>2. DOMAIN t.newC # {} => t.held \cap {CE, CR} # {}
      BY Committing, Zenon
    <3>3. DOMAIN t.newC = {}
      BY <3>1, <3>2, Zenon
    <3> QED
      BY <3>3, CommitTables, Zenon
  <2>3. \A r \in Pairs : target'[r] \in {None, target[r]}
    BY <2>2, Committing, CommitTables, Zenon
  <2>4. FreshC(u)' = FreshC(u)
    BY <2>2, Zenon DEF FreshC
  <2>5. AskedFor(tx'[u]) = AskedFor(w)
    BY Zenon DEF AskedFor
  <2>6. ASSUME NEW p \in Primaries, target'[<<p, w.q>>] # None, FreshC(u)[target'[<<p, w.q>>]] # NoRow
        PROVE  FreshC(u)[target'[<<p, w.q>>]].ratio = AskedFor(w)
    <3>1. <<p, w.q>> \in Pairs
      BY <1>7, Zenon DEF Pairs
    <3>2. target'[<<p, w.q>>] = target[<<p, w.q>>]
      BY <2>3, <2>6, <3>1, Zenon
    <3> QED
      BY <1>1, <1>7, <2>6, <3>2, Zenon DEF RatioKept
  <2>7. w.q \notin Pairs
    BY <1>4, <1>7, Zenon
  <2> QED
    BY <1>7, <2>4, <2>5, <2>6, <2>7, Zenon DEF RatioKept
<1>8. CASE /\ w.pc = "insertC" => w.q \notin Pairs
           /\ w.pc = "commit" => w.q \notin Pairs /\ w.q \notin Spaces
  BY <1>8, Zenon DEF RatioKept
<1> QED
  BY <1>5, <1>6, <1>7, <1>8, Zenon

\* A call ends.
LEMMA CommitInv ==
    ASSUME IndInv, NEW s \in Sessions, Commit(s)
    PROVE  IndInv'
<1> DEFINE t == tx[s]
<1>1. PICK vs : vs = {AskedFor(t)} \cup t.others
  BY Zenon
<1>2. /\ t.pc = "commit" /\ target' = FreshT(s) /\ config' = FreshC(s)
      /\ last' = [last EXCEPT ![t.q] = vs]
      /\ crossed' = IF t.q \notin Spaces THEN crossed
                    ELSE IF t.others = {} THEN crossed \ {t.q} ELSE crossed \cup {t.q}
      /\ tx' = [u \in Procs |-> IF u = s THEN Idle
                                ELSE IF u # Worker /\ tx[u].pc # "idle" /\ tx[u].q = t.q
                                THEN [tx[u] EXCEPT !.others = vs] ELSE tx[u]]
      /\ UNCHANGED <<alive, nextId, limits, calls, events, wild>>
  BY <1>1, Zenon DEF Commit, AskedFor
<1>3. /\ s \in Procs /\ s # Worker /\ tx \in [Procs -> AllTx] /\ t \in AllTx /\ Worker \in Procs
      /\ vs # {} /\ vs \in SUBSET Values
  BY <1>1, <1>2, SessionFacts, Committing, TxFields, Zenon DEF Procs
<1>4. \A u \in Procs : tx[u] \in AllTx =>
         LET v == [tx[u] EXCEPT !.others = vs] IN
         /\ v \in AllTx /\ v.pc = tx[u].pc /\ v.q = tx[u].q /\ v.v = tx[u].v /\ v.id = tx[u].id
         /\ v.ratio = tx[u].ratio /\ v.snapC = tx[u].snapC /\ v.held = tx[u].held
         /\ v.newT = tx[u].newT /\ v.newC = tx[u].newC
  BY <1>3, ZenonT(40) DEF AllTx, TxRecords
<1>5. /\ tx'[s] = Idle /\ tx'[Worker] = tx[Worker]
      /\ \A u \in Procs \ {s} :
           /\ tx'[u] \in AllTx /\ tx'[u].pc = tx[u].pc /\ tx'[u].q = tx[u].q /\ tx'[u].v = tx[u].v
           /\ tx'[u].id = tx[u].id /\ tx'[u].ratio = tx[u].ratio /\ tx'[u].snapC = tx[u].snapC
           /\ tx'[u].held = tx[u].held /\ tx'[u].newT = tx[u].newT /\ tx'[u].newC = tx[u].newC
           /\ tx[u].pc = "idle" => tx'[u] = tx[u]
  BY <1>2, <1>3, <1>4, Zenon
<1>6. tx' \in [Procs -> AllTx]
  BY <1>2, <1>5, IdleTx, Zenon
<1>7. TypeInv'
  <2>1. target' \in [Pairs -> {None} \cup Ids] /\ config' \in [Keys -> Rows]
    BY <1>2, CommitTables, Zenon
  <2>2. last' \in [Quotas -> SUBSET Values] /\ crossed' \in SUBSET Spaces
    BY <1>2, <1>3, Zenon DEF IndInv, TypeInv
  <2> QED
    BY <1>2, <1>6, <2>1, <2>2, Zenon DEF IndInv, TypeInv
<1>9. Exclusion'
  <2>1. \A u \in Procs : tx'[u].held \subseteq tx[u].held
    BY <1>5, IdleTx, Zenon
  <2> QED
    BY <2>1, Zenon DEF IndInv, Control, Exclusion
<1>10. ASSUME NEW u \in Sessions PROVE Shape(tx[u])' /\ RowIds(u)' /\ Outcome(u)' /\ RatioKept(u)'
  <2>1. CASE u = s \/ tx[u].pc = "idle"
    <3>1. tx'[u] = Idle
      <4>1. tx[u].pc = "idle" => tx[u] = Idle
        BY SessionFacts, Zenon DEF Shape
      <4> QED
        BY <1>5, <2>1, <4>1, Zenon DEF Procs
    <3> QED
      BY <3>1, IdleTx, OneRow, Zenon DEF Shape, AtCall, AtFirst, AtInsert, AtChange, AtEnd, RowIds, Outcome,
         RatioKept
  <2>2. CASE u # s /\ tx[u].pc # "idle"
    <3>1. u \in Procs \ {s} /\ u # Worker /\ Shape(tx[u])
      BY <2>2, SessionFacts, Zenon
    <3>2. Shape(tx[u])'
      <4>1. AtCall(tx[u])' /\ AtFirst(tx[u])' /\ AtInsert(tx[u])'
        BY <1>5, <3>1, Zenon DEF Shape, AtCall, AtFirst, AtInsert
      <4>2. AtChange(tx[u])' /\ AtEnd(tx[u])'
        BY <1>2, <1>5, <3>1, Zenon DEF Shape, AtChange, AtEnd
      <4> QED
        BY <1>2, <1>5, <2>2, <3>1, <4>1, <4>2, ZenonT(40) DEF Shape
    <3>3. RowIds(u)'
      BY <1>2, <1>5, <2>2, <3>1, CommitOtherRowIds, Zenon
    <3>4. tx'[u] = IF tx[u].q = t.q THEN [tx[u] EXCEPT !.others = vs] ELSE tx[u]
      BY <1>2, <2>2, <3>1, Zenon
    <3>5. Outcome(u)'
      BY <1>2, <1>3, <2>2, <3>1, <3>4, CommitOtherOutcome, Zenon
    <3>6. RatioKept(u)'
      BY <1>2, <1>5, <2>2, <3>1, CommitOtherRatio, ZenonT(40)
    <3> QED
      BY <3>2, <3>3, <3>5, <3>6, Zenon
  <2> QED
    BY <2>1, <2>2, Zenon
<1>11. WorkerShape(tx[Worker])'
  <2> DEFINE w == tx[Worker]
  <2>1. WorkerShape(w) /\ (TE \in w.held => t.held \cap {TE, TR} = {})
    BY <1>3, Zenon DEF IndInv, Control, Exclusion
  <2>2. DOMAIN w.newC # {} => w.pc = "commit"
    BY <2>1, IdleTx, OneRow, Zenon DEF WorkerShape
  <2>3. DOMAIN w.newC # {} => target' = target
    BY <1>2, <2>1, <2>2, Committing, CommitTables, Zenon DEF WorkerShape
  <2>4. \A k \in DOMAIN w.newC : k \in Ids => \A q \in Pairs : Over(w.newT, target')[q] # k
    BY <2>1, <2>3, Zenon DEF WorkerShape
  <2> QED
    BY <1>2, <1>5, <2>1, <2>4 DEF WorkerShape
<1>12. Unique' /\ TargetHasConfig'
  BY <1>2, CommitUnique, CommitTargetHasConfig, Zenon
<1>13. RatioFollowsTablespace' /\ QuotaIsAnOutcome'
  BY CommitRatioFollows, CommitOutcome, Zenon
<1> QED
  BY <1>7, <1>9, <1>10, <1>11, <1>12, <1>13, Zenon DEF IndInv, Control

-----------------------------------------------------------------------------
(***************************************************************************)
(* The end of a load, and the invariant.                                   *)
(***************************************************************************)
\* The tables after the worker has deleted rows of dropped objects.
LEMMA CleanTables ==
    ASSUME IndInv, LoadEnds
    PROVE  LET t == tx[Worker] IN
           /\ {TE, CE} \subseteq t.held
           /\ target' \in [Pairs -> {None} \cup Ids] /\ config' \in [Keys -> Rows]
           /\ target \in [Pairs -> {None} \cup Ids] /\ config \in [Keys -> Rows]
           /\ \A q \in Pairs : target'[q] \in {None, target[q]}
           /\ \A q \in Pairs : PartsOf(q) \subseteq alive => target'[q] = target[q]
           /\ \A k \in Keys : config'[k] \in {NoRow, config[k]}
           /\ \A o \in Objects : o \in alive => config'[o] = config[o]
           /\ \A q \in Pairs : target'[q] # None => config'[target'[q]] = config[target'[q]]
<1> DEFINE t == tx[Worker]
<1>1. /\ t.pc = "commit" /\ WorkerShape(t) /\ Worker \in Procs /\ target' = FreshT(Worker)
      /\ config' = FreshC(Worker)
      /\ target \in [Pairs -> {None} \cup Ids] /\ config \in [Keys -> Rows]
  BY Zenon DEF LoadEnds, IndInv, Control, Procs, TypeInv
<1>2. /\ {TE, CE} \subseteq t.held
      /\ \A q \in DOMAIN t.newT : t.newT[q] = None /\ ~(PartsOf(q) \subseteq alive)
      /\ \A k \in DOMAIN t.newC :
           /\ t.newC[k] = NoRow
           /\ k \in Objects => k \notin alive
           /\ k \in Ids => \A q \in Pairs : target'[q] # k
  BY <1>1, Zenon DEF WorkerShape, FreshT
<1>3. /\ target' \in [Pairs -> {None} \cup Ids] /\ config' \in [Keys -> Rows]
      /\ \A q \in Pairs : target'[q] = IF q \in DOMAIN t.newT THEN t.newT[q] ELSE target[q]
      /\ \A k \in Keys : config'[k] = IF k \in DOMAIN t.newC THEN t.newC[k] ELSE config[k]
  BY <1>1, FreshTables, Zenon
<1>4. /\ \A q \in Pairs : target'[q] \in {None, target[q]}
      /\ \A q \in Pairs : PartsOf(q) \subseteq alive => target'[q] = target[q]
  BY <1>2, <1>3, Zenon
<1>5. /\ \A k \in Keys : config'[k] \in {NoRow, config[k]}
      /\ \A o \in Objects : o \in alive => config'[o] = config[o]
  BY <1>2, <1>3, Kinds, Zenon
<1>6. ASSUME NEW q \in Pairs, target'[q] # None PROVE config'[target'[q]] = config[target'[q]]
  <2>1. PICK k \in Ids : k = target'[q]
    BY <1>3, <1>6, Zenon
  <2>2. k \notin DOMAIN t.newC
    BY <1>2, <2>1, Zenon
  <2> QED
    BY <1>3, <2>1, <2>2, Kinds, Zenon
<1> QED
  BY <1>1, <1>2, <1>3, <1>4, <1>5, <1>6, Zenon

\* A load ends: while the worker has both locks no session has a change of its
\* own, and rows of living objects stay.
LEMMA LoadEndsInv ==
    ASSUME IndInv, LoadEnds
    PROVE  IndInv'
<1>1. /\ tx' = [tx EXCEPT ![Worker] = Idle] /\ tx \in [Procs -> AllTx]
      /\ Worker \in Procs /\ Worker \notin Sessions
      /\ UNCHANGED <<alive, nextId, limits, calls, events, last, crossed, wild>>
      /\ nextId \in Nat /\ nextId >= 2
  BY ConfigAssumption DEF LoadEnds, IndInv, TypeInv, Procs, history
<1>2. tx'[Worker] = Idle /\ \A u \in Procs \ {Worker} : tx'[u] = tx[u]
  BY <1>1, Zenon
<1>3. TypeInv'
  <2>1. tx' \in [Procs -> AllTx]
    BY <1>1, IdleTx, Zenon
  <2> QED
    BY <1>1, <2>1, CleanTables, Zenon DEF IndInv, TypeInv
<1>5. Exclusion'
  BY <1>1, IdleTx, ExclusionFrame, Zenon DEF IndInv, Control
<1>6. WorkerShape(tx[Worker])'
  BY <1>2, IdleWorker, Zenon
<1>7. ASSUME NEW u \in Sessions PROVE Shape(tx[u])' /\ RowIds(u)' /\ Outcome(u)' /\ RatioKept(u)'
  <2> DEFINE w == tx[u]
  <2>1. /\ u \in Procs /\ u # Worker /\ tx'[u] = w /\ Shape(w) /\ RowIds(u) /\ Outcome(u)
        /\ w.held \cap {CE, CR, CS} = {} /\ w.held \cap {TE, TR} = {} /\ w \in AllTx
    BY <1>1, <1>2, CleanTables, SessionFacts, Zenon DEF IndInv, Control, Exclusion
  <2>2. /\ w.pc \notin {"share", "spread"}
        /\ w.pc \in {"insertC", "deleteC"} => w.q \notin Pairs
        /\ w.pc = "commit" => w.q \notin Spaces /\ DOMAIN w.newC = {} /\ w.newT = Empty
    <3>1. w.pc = "commit" => w.q \notin Spaces /\ DOMAIN w.newC = {} /\ w.newT = Empty
      BY <2>1, Committing, ZenonT(40)
    <3> QED
      BY <2>1, <3>1, Zenon DEF Shape, AtInsert, AtChange, AtEnd
  <2>3. Shape(tx[u])'
    <3>1. AtCall(tx[u])' /\ AtFirst(tx[u])' /\ AtInsert(tx[u])'
      BY <2>1, Zenon DEF Shape, AtCall, AtFirst, AtInsert
    <3>2. AtChange(tx[u])' /\ AtEnd(tx[u])'
      BY <1>1, <2>1, Zenon DEF Shape, AtChange, AtEnd
    <3> QED
      BY <1>1, <2>1, <3>1, <3>2, Zenon DEF Shape
  <2>4. RowIds(u)'
    <3>1. ASSUME w.pc = "updateC", w.q \in Pairs PROVE Own(u, w.id)'
      <4>1. PICK k \in Ids : k = w.id
        BY <3>1, RowIdTypes, Zenon DEF IndInv
      <4>2. Own(u, k) /\ k # None
        BY <2>1, <3>1, <4>1, Kinds, Zenon DEF RowIds
      <4>3. \A r \in Pairs \ {w.q} : target'[r] # k
        BY <4>2, CleanTables, Zenon DEF Own
      <4>4. \A x \in Procs \ {u} : \A r \in DOMAIN tx'[x].newT : tx'[x].newT[r] # k
        BY <1>2, <4>2, IdleTx, OneRow, Zenon DEF Own
      <4> QED
        BY <1>1, <2>1, <4>1, <4>2, <4>3, <4>4, Zenon DEF Own
    <3> QED
      BY <2>1, <2>2, <3>1, Zenon DEF RowIds
  <2>5. Outcome(u)'
    <3>1. ASSUME w.pc # "idle", Alone(w), w.q \in Objects PROVE config'[w.q] = config[w.q]
      <4>1. PartsOf(w.q) = {w.q}
        BY <3>1, Zenon DEF PartsOf, IsPair
      <4> QED
        BY <3>1, <4>1, CleanTables, Zenon DEF Alone
    <3>2. Alone(w) /\ w.q \in Pairs => target'[w.q] = target[w.q]
      BY CleanTables, Zenon DEF Alone
    <3>3. w.q \in Pairs /\ Alone(w) /\ target[w.q] = w.id /\ w.id # None => config'[w.id] = config[w.id]
      BY <3>2, CleanTables, Zenon
    <3>4. w.pc = "updateC" /\ w.q \in Pairs => w.id # None
      BY <2>1, Zenon DEF Shape, AtChange
    <3>5. w.pc = "lock" => w.q \in Objects
      BY <2>1, Kinds, Zenon DEF Shape, AtFirst
    <3>6. Alone(w)' <=> Alone(w)
      BY <1>1, <2>1, Zenon DEF Alone
    <3>7. CASE w.q \in Pairs
      <4>1. w.q \notin Objects
        BY <3>7, Kinds, Zenon DEF Quotas
      <4> QED
        BY <1>1, <2>1, <2>2, <3>2, <3>3, <3>4, <3>5, <3>6, <3>7, <4>1, Zenon DEF Outcome, Alone
    <3>8. CASE w.q \notin Pairs
      BY <1>1, <2>1, <2>2, <3>1, <3>5, <3>6, <3>8, Zenon DEF Outcome, Alone
    <3> QED
      BY <3>7, <3>8, Zenon
  <2>6. RatioKept(u)'
    BY <2>1, <2>2, Zenon DEF RatioKept
  <2> QED
    BY <2>3, <2>4, <2>5, <2>6, Zenon
<1>8. Unique'
  <2>1. Unique
    BY Zenon DEF IndInv
  <2>2. \A q, r \in Pairs : target'[q] # None /\ target'[q] = target'[r] => q = r
    <3>1. \A q \in Pairs : target'[q] \in {None, target[q]}
      BY CleanTables, Zenon
    <3> QED
      BY <2>1, <3>1, Zenon DEF Unique
  <2>3. None < nextId
    BY <1>1 DEF None
  <2>4. \A q \in Pairs : target'[q] < nextId'
    BY <1>1, <2>1, <2>3, CleanTables, Zenon DEF Unique
  <2>5. \A k \in Ids : config'[k] # NoRow => k < nextId' /\ config'[k].limit # None
    <3>1. \A k \in Ids : config'[k] \in {NoRow, config[k]}
      BY CleanTables, Kinds, Zenon
    <3> QED
      BY <1>1, <2>1, <3>1, Zenon DEF Unique
  <2> QED
    BY <2>2, <2>4, <2>5, Zenon DEF Unique
<1>9. TargetHasConfig'
  BY <1>1, CleanTables, ZenonT(40) DEF IndInv, TargetHasConfig
<1>10. RatioFollowsTablespace'
  <2>1. \A q \in Pairs : q[2] \in Objects
    BY Kinds, Zenon DEF Quotas
  <2> SUFFICES ASSUME NEW q \in Pairs, q[2] \in alive, q[2] \notin crossed,
                      target'[q] # None, config'[target'[q]] # NoRow
               PROVE  config'[target'[q]].ratio = config'[q[2]].ratio
    BY <1>1, Zenon DEF RatioFollowsTablespace
  <2>2. target'[q] = target[q]
    BY CleanTables, Zenon
  <2>3. config'[target'[q]] = config[target'[q]]
    BY CleanTables, Zenon
  <2>4. config'[q[2]] = config[q[2]]
    BY <2>1, CleanTables, Zenon
  <2> QED
    BY <2>2, <2>3, <2>4, Zenon DEF IndInv, RatioFollowsTablespace
<1>11. QuotaIsAnOutcome'
  <2>1. ASSUME NEW q \in Quotas, PartsOf(q) \subseteq alive PROVE RowOf(q)' = RowOf(q)
    <3>1. CASE q \in Objects
      BY <2>1, <3>1, CleanTables, Zenon DEF RowOf, PartsOf, IsPair
    <3>2. CASE q \in Pairs
      <4>1. IsPair(q) /\ target'[q] = target[q]
        BY <2>1, <3>2, CleanTables, Kinds, Zenon
      <4>2. target[q] # None => config'[target[q]] = config[target[q]]
        BY <3>2, <4>1, CleanTables, Zenon
      <4> QED
        BY <4>1, <4>2, Zenon DEF RowOf
    <3> QED
      BY <3>1, <3>2, Zenon DEF Quotas
  <2> QED
    BY <1>1, <2>1, Zenon DEF IndInv, QuotaIsAnOutcome
<1> QED
  BY <1>3, <1>5, <1>6, <1>7, <1>8, <1>9, <1>10, <1>11, Zenon DEF IndInv, Control

\* An earlier call may have set the quota of one pair.
LEMMA InitInv == Init => IndInv
<1> SUFFICES ASSUME Init PROVE IndInv
  BY Zenon
<1>1. PICK first \in {{}} \cup {{q} : q \in Pairs} : LET l == CHOOSE l \in Limits : TRUE IN
         /\ target = [q \in Pairs |-> IF q \in first THEN 1 ELSE None]
         /\ config = [k \in Keys |-> IF k = 1 /\ first # {}
                                    THEN [limit |-> l, ratio |-> None] ELSE NoRow]
         /\ last = [q \in Quotas |-> IF q \in first THEN {l} ELSE {None}]
  BY Zenon DEF Init
<1>2. PICK l \in Limits : l = CHOOSE x \in Limits : TRUE
  BY ConfigAssumption, Zenon
<1>3. PICK row : row = [limit |-> l, ratio |-> None]
  BY Zenon
<1>4. row \in Rows /\ row # NoRow /\ row.limit = l /\ row.ratio = None /\ l # None /\ l \in Values
  BY <1>3, RowTypes, Zenon DEF NoRow, Values
<1>5. 1 \in Ids /\ 1 \in Keys /\ 1 # None /\ MaxCalls \in Nat /\ MaxEvents \in Nat
      /\ 1 < 2 /\ None < 2 /\ 2 \in 2 .. MaxCalls + 2
  BY ConfigAssumption DEF Ids, Keys, None
<1>6. /\ \A q \in Pairs : target[q] = IF q \in first THEN 1 ELSE None
      /\ \A k \in Keys : config[k] = IF k = 1 /\ first # {} THEN row ELSE NoRow
      /\ \A q \in Quotas : last[q] = IF q \in first THEN {l} ELSE {None}
      /\ first \subseteq Pairs /\ \A q, r \in first : q = r
  BY <1>1, <1>2, <1>3, Zenon
<1>7. /\ alive = Objects /\ nextId = 2 /\ limits = [q \in Quotas |-> NoRow]
      /\ tx = [s \in Procs |-> Idle] /\ calls = 0 /\ events = 0 /\ crossed = {} /\ wild = FALSE
  BY Zenon DEF Init
<1>8. TypeInv
  <2>1. target \in [Pairs -> {None} \cup Ids]
    BY <1>1, <1>5, Zenon
  <2>2. config \in [Keys -> Rows]
    BY <1>1, <1>2, <1>3, <1>4, RowTypes, Zenon
  <2>3. last \in [Quotas -> SUBSET Values]
    BY <1>1, <1>2, <1>4, Zenon DEF Values
  <2> QED
    <3>1. limits \in [Quotas -> Rows] /\ tx \in [Procs -> AllTx]
      BY <1>7, IdleTx, RowTypes, Zenon
    <3>2. calls \in 0 .. MaxCalls /\ events \in 0 .. MaxEvents /\ nextId \in 2 .. MaxCalls + 2
      BY <1>5, <1>7
    <3>3. alive \in SUBSET Objects /\ crossed \in SUBSET Spaces /\ wild \in BOOLEAN
      BY <1>7, Zenon
    <3> QED
      BY <2>1, <2>2, <2>3, <3>1, <3>2, <3>3, Zenon DEF TypeInv
<1>10. \A s \in Sessions : Shape(tx[s]) /\ RowIds(s) /\ Outcome(s) /\ RatioKept(s)
  BY <1>7, IdleTx, OneRow, ZenonT(40) DEF Shape, AtCall, AtFirst, AtInsert, AtChange, AtEnd, RowIds, Outcome,
     RatioKept, Procs
<1>11. WorkerShape(tx[Worker]) /\ Exclusion
  BY <1>7, IdleTx, OneRow, Zenon DEF WorkerShape, Exclusion, Procs
<1>12. Unique
  <2>1. \A k \in Ids : config[k] # NoRow => k < nextId /\ config[k].limit # None
    BY <1>4, <1>5, <1>6, <1>7, Kinds, Zenon
  <2> QED
    BY <1>5, <1>6, <1>7, <2>1, Zenon DEF Unique
<1>13. TargetHasConfig
  BY <1>4, <1>5, <1>6, Zenon DEF TargetHasConfig
<1>14. \A o \in Objects : config[o] = NoRow /\ o \notin first
  <2>1. \A o \in Objects : o \in Keys /\ o \notin Ids /\ o \notin Pairs
    BY KindsAssumption, Kinds, Zenon
  <2> QED
    BY <1>5, <1>6, <2>1, Zenon
<1>15. RatioFollowsTablespace
  <2>1. \A q \in Pairs : q[2] \in Objects
    BY Kinds, Zenon DEF Quotas
  <2> QED
    BY <1>4, <1>5, <1>6, <1>14, <2>1, RowTypes, Zenon DEF RatioFollowsTablespace
<1>16. QuotaIsAnOutcome
  <2>1. ASSUME NEW q \in Objects PROVE RowOf(q) = NoRow /\ last[q] = {None}
    <3>1. q \in Quotas /\ ~IsPair(q)
      BY Kinds, Zenon DEF Quotas, IsPair
    <3> QED
      BY <1>6, <1>14, <2>1, <3>1, Zenon DEF RowOf
  <2>2. ASSUME NEW q \in Pairs
        PROVE  IF q \in first THEN RowOf(q) = row /\ last[q] = {l} ELSE RowOf(q) = NoRow /\ last[q] = {None}
    <3>1. q \in Quotas /\ IsPair(q)
      BY Kinds, Zenon DEF Quotas
    <3> QED
      BY <1>5, <1>6, <2>2, <3>1, Zenon DEF RowOf
  <2>3. \A q \in Pairs : q \in Quotas /\ q \notin Spaces
    BY Kinds, Zenon DEF Quotas
  <2> QED
    BY <1>4, <2>1, <2>2, <2>3, RowTypes, Zenon DEF QuotaIsAnOutcome, Quotas
<1> QED
  BY <1>8, <1>10, <1>11, <1>12, <1>13, <1>15, <1>16, Zenon DEF IndInv, Control

\* Every step keeps the invariant, as long as the sequence has values left for
\* those who are about to take one.
LEMMA NextInv ==
    ASSUME IndInv, [Next]_vars, \A s \in Sessions : tx[s].pc = "insertT" => nextId \in Ids
    PROVE  IndInv'
<1>1. ASSUME NEW s \in Sessions, NEW q \in Objects \cup Pairs,
             NEW v \in {Delete} \cup (IF q \in Spaces THEN Ratios ELSE Limits), Call(s, q, v)
      PROVE  IndInv'
  BY <1>1, CallInv, Zenon DEF Quotas
<1>2. ASSUME NEW s \in Sessions, DeleteNothing(s) PROVE IndInv'
  <2>1. /\ At(s, "deleteT") /\ wild' = TRUE
        /\ UNCHANGED <<alive, tables, nextId, calls, events, last, crossed>>
    BY <1>2, Zenon DEF DeleteNothing
  <2>2. ASSUME NEW id \in {None} \cup Ids,
               tx' = [tx EXCEPT ![s] = Goto([tx[s] EXCEPT !.id = id],
                                            ConfigPc(tx[s].q, tx[s].v, id, tx[s].snapC))],
               UNCHANGED limits
        PROVE  IndInv'
    BY <2>1, <2>2, DeleteNothingInv, Zenon
  <2>3. CASE tx' = [u \in Procs |-> Idle] /\ limits' = [q \in Quotas |-> NoRow]
    BY <2>1, <2>3, RestartInv, Zenon
  <2> QED
    BY <1>2, <2>2, <2>3, Zenon DEF DeleteNothing
<1>8. ASSUME NEW s \in Sessions, InsertTarget(s) PROVE IndInv'
  <2>1. tx[s].pc = "insertT"
    BY <1>8, Zenon DEF InsertTarget, At
  <2> QED
    BY <1>8, <2>1, InsertTargetInv, Zenon
<1>3. ASSUME NEW s \in Sessions, Statement(s) PROVE IndInv'
  BY <1>2, <1>3, <1>8, DeleteTargetInv, LockTableInv, GetRatioInv, InsertConfigInv,
     UpdateConfigInv, DeleteConfigInv, SpreadInv, CommitInv, Zenon DEF Statement
<1>4. CASE LoadStep \/ LoadFails
  BY <1>4, LoadInv, CleanTargetInv, CleanConfigInv, LoadEndsInv, LoadFailsInv, Zenon DEF LoadStep
<1>5. ASSUME NEW s \in Procs, Acquire(s) \/ Fail(s) PROVE IndInv'
  BY <1>5, AcquireInv, FailInv, Zenon
<1>6. ASSUME NEW o \in Objects, Drop(o) PROVE IndInv'
  BY <1>6, DropInv, Zenon
<1>7. CASE UNCHANGED vars
  <2>1. UNCHANGED <<alive, target, config, nextId, limits, tx, calls, events, last, crossed, wild>>
    BY <1>7, Zenon DEF vars, tables, history
  <2>2. TypeInv' /\ Exclusion' /\ Unique'
    BY <2>1, Zenon DEF IndInv, TypeInv, Control, Exclusion, Unique
  <2>3. ASSUME NEW s \in Sessions
        PROVE  Shape(tx[s])' /\ RowIds(s)' /\ Outcome(s)' /\ RatioKept(s)'
    <3>1. IdsFrame(s) /\ nextId' \in Nat /\ nextId' >= nextId
      <4>1. nextId \in Nat
        BY SessionFacts, Zenon
      <4>2. nextId' \in Nat /\ nextId' >= nextId
        BY <2>1, <4>1
      <4>3. IdsFrame(s)
        BY <2>1, Zenon DEF IdsFrame
      <4> QED
        BY <4>2, <4>3, Zenon
    <3> QED
      BY <2>1, <3>1, Bystander, Zenon
  <2>4. WorkerShape(tx[Worker])'
    BY <2>1, WorkerBystander, Zenon
  <2>5. TargetHasConfig' /\ RatioFollowsTablespace' /\ QuotaIsAnOutcome'
    BY <2>1, Zenon DEF IndInv, TargetHasConfig, RatioFollowsTablespace, QuotaIsAnOutcome, RowOf
  <2> QED
    BY <2>2, <2>3, <2>4, <2>5, Zenon DEF IndInv, Control
<1> QED
  BY <1>1, <1>3, <1>4, <1>5, <1>6, <1>7, Zenon DEF Next

-----------------------------------------------------------------------------
(***************************************************************************)
(* The sequence of rowId: every value it gives, or is about to give,       *)
(* belongs to a call of its own, so it does not run out before the calls.  *)
(***************************************************************************)
LOCAL INSTANCE FiniteSetTheorems

Inserting == {s \in Sessions : tx[s].pc = "insertT"}
Counted == IsFiniteSet(Inserting) /\ nextId + Cardinality(Inserting) <= calls + 2

\* There is a value left for whoever is about to take one.
LEMMA ValuesLeft ==
    ASSUME TypeInv, Counted, NEW s \in Sessions, tx[s].pc = "insertT"
    PROVE  nextId \in Ids
<1>1. nextId \in 2 .. MaxCalls + 2 /\ calls \in 0 .. MaxCalls /\ MaxCalls \in Nat
  BY ConfigAssumption, Zenon DEF TypeInv
<1>2. Inserting # {}
  BY Zenon DEF Inserting
<1>3. Cardinality(Inserting) \in Nat /\ Cardinality(Inserting) # 0
  BY <1>2, FS_CardinalityType, FS_EmptySet, Zenon DEF Counted
<1> QED
  BY <1>1, <1>3 DEF Counted, Ids

\* The statement after any other is not the INSERT into target.
LEMMA NotInsert ==
    /\ \A q, v, k, f : ConfigPc(q, v, k, f) # "insertT"
    /\ \A q : AfterConfig(q) # "insertT"
BY Zenon DEF ConfigPc, AfterConfig, ToDelete

\* A step of s after which it is not about to insert.
LEMMA OneLeaves ==
    ASSUME tx \in [Procs -> AllTx], NEW s \in Procs, NEW v, tx' = [tx EXCEPT ![s] = v],
           v.pc # "insertT"
    PROVE  Inserting' = Inserting \ {s}
<1>1. tx'[s] = v /\ \A u \in Procs \ {s} : tx'[u] = tx[u]
  BY Zenon
<1> QED
  BY <1>1, Zenon DEF Inserting, Procs

\* What a step does to the sequence: nothing, or it takes the value of s, or a
\* call begins.
Same  == Inserting' \subseteq Inserting /\ UNCHANGED <<nextId, calls>>
Taken == \E s \in Inserting : Inserting' = Inserting \ {s} /\ nextId' = nextId + 1 /\ calls' = calls
Began == \E s \in Sessions :
            Inserting' \subseteq Inserting \cup {s} /\ nextId' = nextId /\ calls' = calls + 1

\* The statements of s but the INSERT into target and the commit.
LEMMA StatementCount ==
    ASSUME IndInv, NEW s \in Sessions,
           \/ DeleteTarget(s) \/ LockTable(s) \/ GetRatio(s) \/ InsertConfig(s)
           \/ UpdateConfig(s) \/ DeleteConfig(s) \/ Spread(s)
    PROVE  Same
<1> DEFINE t == tx[s]
<1>1. s \in Procs /\ tx \in [Procs -> AllTx] /\ t \in AllTx
  BY SessionFacts, Zenon
<1>2. SUFFICES UNCHANGED <<nextId, calls>> /\ \E v : tx' = [tx EXCEPT ![s] = v] /\ v.pc # "insertT"
  BY <1>1, OneLeaves, Zenon DEF Same
<1>3. CASE DeleteTarget(s)
  <2>1. PICK x, y, pc :
          /\ pc = ConfigPc(t.q, t.v, y, t.snapC)
          /\ tx' = [tx EXCEPT ![s] = Goto([t EXCEPT !.newT = x, !.id = y], pc)]
          /\ UNCHANGED <<nextId, calls>>
    BY <1>3, Zenon DEF DeleteTarget, Only
  <2>2. pc # "insertT"
    BY <2>1, NotInsert, Zenon
  <2>3. Goto([t EXCEPT !.newT = x, !.id = y], pc).pc = pc
    BY <1>1, Zenon DEF Goto, AllTx, TxRecords
  <2> QED
    BY <2>1, <2>2, <2>3, Zenon
<1>4. CASE LockTable(s)
  <2>1. PICK pc : /\ pc = ConfigPc(t.q, t.v, t.q, t.snapC)
                  /\ tx' = [tx EXCEPT ![s] = [t EXCEPT !.pc = pc]] /\ UNCHANGED <<nextId, calls>>
    BY <1>1, <1>4, Zenon DEF LockTable, Only
  <2>2. pc # "insertT"
    BY <2>1, NotInsert, Zenon
  <2>3. [t EXCEPT !.pc = pc].pc = pc
    BY <1>1, Zenon DEF Goto, AllTx, TxRecords
  <2> QED
    BY <2>1, <2>2, <2>3, Zenon
<1>5. CASE GetRatio(s)
  <2> DEFINE v == [t EXCEPT !.ratio = RatioOf(s, t.q[2]), !.pc = "insertC"]
  <2>1. tx' = [tx EXCEPT ![s] = v] /\ UNCHANGED <<nextId, calls>>
    BY <1>1, <1>5, Zenon DEF GetRatio, Only
  <2>2. v.pc # "insertT"
    BY <1>1, Zenon DEF AllTx, TxRecords
  <2> QED
    BY <2>1, <2>2, Zenon
<1>6. ASSUME NEW row, NEW pc, pc # "insertT", Put(s, row, pc)
      PROVE  UNCHANGED <<nextId, calls>> /\ \E v : tx' = [tx EXCEPT ![s] = v] /\ v.pc # "insertT"
  <2>1. PICK x : tx' = [tx EXCEPT ![s] = Goto([t EXCEPT !.newC = x], pc)] /\ UNCHANGED <<nextId, calls>>
    BY <1>6, Zenon DEF Put, Only
  <2>2. Goto([t EXCEPT !.newC = x], pc).pc = pc
    BY <1>1, Zenon DEF Goto, AllTx, TxRecords
  <2> QED
    BY <1>6, <2>1, <2>2, Zenon
<1>7. CASE InsertConfig(s)
  <2>1. CASE RollBack(s)
    BY <2>1, IdleTx, Zenon DEF RollBack, Only
  <2>2. AfterConfig(t.q) # "insertT"
    BY NotInsert, Zenon
  <2> QED
    BY <1>6, <1>7, <2>1, <2>2, Zenon DEF InsertConfig
<1>8. CASE UpdateConfig(s)
  <2>1. AfterConfig(t.q) # "insertT"
    BY NotInsert, Zenon
  <2>2. CASE Only([tx EXCEPT ![s] = Goto(t, AfterConfig(t.q))])
    <3>1. Goto(t, AfterConfig(t.q)).pc = AfterConfig(t.q)
      BY <1>1, Zenon DEF Goto, AllTx, TxRecords
    <3> QED
      BY <2>1, <2>2, <3>1, Zenon DEF Only
  <2> QED
    BY <1>6, <1>8, <2>1, <2>2, Zenon DEF UpdateConfig
<1>9. CASE DeleteConfig(s)
  <2>1. AfterConfig(t.q) # "insertT"
    BY NotInsert, Zenon
  <2> QED
    BY <1>6, <1>9, <2>1, Zenon DEF DeleteConfig
<1>10. CASE Spread(s)
  <2>1. PICK x : tx' = [tx EXCEPT ![s] = Goto([t EXCEPT !.newC = x], "commit")] /\ UNCHANGED <<nextId, calls>>
    BY <1>1, <1>10, Zenon DEF Spread, Only
  <2>2. Goto([t EXCEPT !.newC = x], "commit").pc = "commit"
    BY <1>1, Zenon DEF Goto, AllTx, TxRecords
  <2> QED
    BY <2>1, <2>2, Zenon
<1> QED
  BY <1>3, <1>4, <1>5, <1>7, <1>8, <1>9, <1>10, Zenon

\* The same of every step.
LEMMA StepCount ==
    ASSUME IndInv, [Next]_vars
    PROVE  Same \/ Taken \/ Began
<1>1. tx \in [Procs -> AllTx] /\ Worker \in Procs /\ Worker \notin Sessions /\ Sessions \subseteq Procs
  BY ConfigAssumption, Zenon DEF IndInv, TypeInv, Procs
<1>2. ASSUME NEW s \in Sessions, NEW q, NEW v, Call(s, q, v) PROVE Began
  <2>1. PICK w : tx' = [tx EXCEPT ![s] = w] /\ calls' = calls + 1 /\ nextId' = nextId
    BY <1>2, Zenon DEF Call
  <2>2. Inserting' \subseteq Inserting \cup {s}
    BY <1>1, <2>1, Zenon DEF Inserting
  <2> QED
    BY <2>1, <2>2, Zenon DEF Began
<1>3. ASSUME NEW s \in Sessions, InsertTarget(s) PROVE Taken
  <2> DEFINE t == tx[s]
  <2>1. t.pc = "insertT" /\ nextId' = nextId + 1 /\ calls' = calls
    BY <1>3, Zenon DEF InsertTarget, At
  <2>2. CASE tx' = [tx EXCEPT ![s] = Idle]
    BY <1>1, <2>1, <2>2, IdleTx, OneLeaves, Zenon DEF Taken, Inserting
  <2>3. ASSUME NEW x, NEW y, NEW pc, pc = ConfigPc(t.q, t.v, y, t.snapC),
               tx' = [tx EXCEPT ![s] = Goto([t EXCEPT !.newT = x, !.id = y], pc)]
        PROVE  Taken
    <3>1. Goto([t EXCEPT !.newT = x, !.id = y], pc).pc = pc
      BY <1>1, Zenon DEF Goto, AllTx, TxRecords
    <3>2. pc # "insertT"
      BY <2>3, NotInsert, Zenon
    <3>3. Inserting' = Inserting \ {s}
      BY <1>1, <2>3, <3>1, <3>2, OneLeaves, Zenon
    <3> QED
      BY <2>1, <3>3, Zenon DEF Taken, Inserting
  <2> QED
    BY <1>3, <2>2, <2>3, Zenon DEF InsertTarget
<1>4. ASSUME NEW s \in Sessions, DeleteNothing(s) PROVE Same
  <2> DEFINE t == tx[s]
  <2>1. UNCHANGED <<nextId, calls>>
    BY <1>4, Zenon DEF DeleteNothing
  <2>2. CASE tx' = [u \in Procs |-> Idle]
    BY <1>1, <2>1, <2>2, IdleTx, Zenon DEF Same, Inserting
  <2>3. ASSUME NEW y, NEW pc, pc = ConfigPc(t.q, t.v, y, t.snapC),
               tx' = [tx EXCEPT ![s] = Goto([t EXCEPT !.id = y], pc)]
        PROVE  Same
    <3>1. Goto([t EXCEPT !.id = y], pc).pc = pc
      BY <1>1, Zenon DEF Goto, AllTx, TxRecords
    <3>2. pc # "insertT"
      BY <2>3, NotInsert, Zenon
    <3>3. Inserting' = Inserting \ {s}
      BY <1>1, <2>3, <3>1, <3>2, OneLeaves, Zenon
    <3> QED
      BY <2>1, <3>3, Zenon DEF Same
  <2> QED
    BY <1>4, <2>2, <2>3, Zenon DEF DeleteNothing
<1>5. ASSUME NEW s \in Sessions, Commit(s) PROVE Same
  <2>1. UNCHANGED <<nextId, calls>>
        /\ \A u \in Procs : tx'[u].pc \in {"idle", tx[u].pc}
    BY <1>1, <1>5, IdleTx, Zenon DEF Commit, AllTx, TxRecords
  <2> QED
    BY <1>1, <2>1, Zenon DEF Same, Inserting
<1>6. ASSUME NEW s \in Sessions, Statement(s) PROVE Same \/ Taken
  BY <1>3, <1>4, <1>5, <1>6, StatementCount, Zenon DEF Statement
<1>7. CASE LoadStep \/ LoadFails
  <2>1. \A u \in Sessions : tx'[u] = tx[u]
    BY <1>1, <1>7, Zenon DEF LoadStep, LoadFails, Load, CleanTarget, CleanConfig, LoadEnds, Only
  <2>2. UNCHANGED <<nextId, calls>>
    BY <1>7, Zenon DEF LoadStep, LoadFails, Load, CleanTarget, CleanConfig, LoadEnds, Only
  <2> QED
    BY <2>1, <2>2, Zenon DEF Same, Inserting
<1>8. ASSUME NEW s \in Procs, Acquire(s) PROVE Same
  <2>1. UNCHANGED <<nextId, calls>> /\ \A u \in Procs : tx'[u].pc = tx[u].pc
    BY <1>1, <1>8, Zenon DEF Acquire, AllTx, TxRecords
  <2> QED
    BY <1>1, <2>1, Zenon DEF Same, Inserting
<1>9. ASSUME NEW s \in Procs, Fail(s) PROVE Same
  BY <1>1, <1>9, IdleTx, OneLeaves, Zenon DEF Fail, Same
<1>10. ASSUME NEW o \in Objects, Drop(o) PROVE Same
  BY <1>10, Zenon DEF Drop, Same, Inserting
<1>11. CASE UNCHANGED vars
  BY <1>11, Zenon DEF vars, Same, Inserting
<1> QED
  BY <1>2, <1>6, <1>7, <1>8, <1>9, <1>10, <1>11, Zenon DEF Next

\* Every step keeps the count.
LEMMA CountedInv ==
    ASSUME IndInv, Counted, [Next]_vars
    PROVE  Counted'
<1>1. IsFiniteSet(Inserting) /\ Cardinality(Inserting) \in Nat /\ nextId \in Nat /\ calls \in Nat
      /\ nextId + Cardinality(Inserting) <= calls + 2
  BY FS_CardinalityType DEF IndInv, TypeInv, Counted
<1>2. ASSUME NEW S, IsFiniteSet(S), Inserting' \in SUBSET S
      PROVE  /\ IsFiniteSet(Inserting') /\ Cardinality(Inserting') \in Nat
             /\ Cardinality(S) \in Nat /\ Cardinality(Inserting') <= Cardinality(S)
  <2>1. IsFiniteSet(Inserting') /\ Cardinality(Inserting') <= Cardinality(S)
    BY <1>2, FS_Subset, Zenon
  <2> QED
    BY <1>2, <2>1, FS_CardinalityType, Zenon
<1>3. CASE Same
  <2>1. IsFiniteSet(Inserting') /\ Cardinality(Inserting') \in Nat
        /\ Cardinality(Inserting') <= Cardinality(Inserting)
    BY <1>1, <1>2, <1>3, Zenon DEF Same
  <2> QED
    BY <1>1, <1>3, <2>1 DEF Same, Counted
<1>4. CASE Taken
  <2>1. PICK s \in Inserting :
          Inserting' = Inserting \ {s} /\ nextId' = nextId + 1 /\ calls' = calls
    BY <1>4, Zenon DEF Taken
  <2>2. IsFiniteSet(Inserting') /\ Cardinality(Inserting') = Cardinality(Inserting) - 1
    BY <1>1, <2>1, FS_RemoveElement, Zenon
  <2> QED
    BY <1>1, <2>1, <2>2 DEF Counted
<1>5. CASE Began
  <2>1. PICK s \in Sessions :
          Inserting' \subseteq Inserting \cup {s} /\ nextId' = nextId /\ calls' = calls + 1
    BY <1>5, Zenon DEF Began
  <2>2. IsFiniteSet(Inserting \cup {s})
        /\ Cardinality(Inserting \cup {s}) \in {Cardinality(Inserting), Cardinality(Inserting) + 1}
    BY <1>1, FS_AddElement, Zenon
  <2>3. IsFiniteSet(Inserting') /\ Cardinality(Inserting') \in Nat
        /\ Cardinality(Inserting') <= Cardinality(Inserting \cup {s})
    BY <1>2, <2>1, <2>2, Zenon
  <2> QED
    BY <1>1, <2>1, <2>2, <2>3, SMTT(20) DEF Counted
<1> QED
  BY <1>3, <1>4, <1>5, StepCount, Zenon

-----------------------------------------------------------------------------
(***************************************************************************)
(* The theorems.                                                           *)
(***************************************************************************)
\* Locks, row ids and what each open call relies on are as IndInv says,
\* whatever the calls and however they overlap.
THEOREM ConfigInvariant == Spec => [](IndInv /\ Counted)
<1> DEFINE Inv == IndInv /\ Counted
<1>1. Init => Inv
  <2> SUFFICES ASSUME Init PROVE Counted
    BY InitInv, Zenon
  <2>1. Inserting = {} /\ IsFiniteSet({}) /\ Cardinality({}) = 0
    BY IdleTx, FS_EmptySet, Zenon DEF Init, Inserting, Procs
  <2> QED
    BY <2>1 DEF Init, Counted
<1>2. Inv /\ [Next]_vars => Inv'
  <2> SUFFICES ASSUME Inv, [Next]_vars PROVE Inv'
    BY Zenon
  <2>1. \A s \in Sessions : tx[s].pc = "insertT" => nextId \in Ids
    BY ValuesLeft, Zenon DEF IndInv
  <2> QED
    BY <2>1, NextInv, CountedInv, Zenon
<1> QED
  BY <1>1, <1>2, PTL DEF Spec

\* No negative limit or ratio gets into the tables, nor any other value a call
\* may not write.
THEOREM ConfigTypes == Spec => []TypeOK
<1>1. IndInv => TypeOK
  <2> SUFFICES ASSUME IndInv PROVE TypeOK
    BY Zenon
  <2>1. tx \in [Procs -> AllTx]
    BY Zenon DEF IndInv, TypeInv
  <2>2. ASSUME NEW s \in Procs
        PROVE  LET t == tx[s] IN
               /\ DOMAIN t.newT \subseteq Pairs /\ DOMAIN t.newC \subseteq Keys
               /\ t \in TxRecords(IF t.pc = "idle" \/ s = Worker THEN {None} ELSE Quotas,
                                  [DOMAIN t.newT -> {None} \cup Ids], [DOMAIN t.newC -> Rows])
    <3> DEFINE t == tx[s]
    <3>1. /\ t \in AllTx
          /\ t.newT \in [DOMAIN t.newT -> {None} \cup Ids] /\ DOMAIN t.newT \subseteq Pairs
          /\ t.newC \in [DOMAIN t.newC -> Rows] /\ DOMAIN t.newC \subseteq Keys
      BY <2>1, TxFields, SomeTypes, Zenon
    <3>2. t.q \in IF t.pc = "idle" \/ s = Worker THEN {None} ELSE Quotas
      BY IdleTx, Zenon DEF IndInv, Control, Procs, WorkerShape, Shape, AtCall
    <3> QED
      BY <3>1, <3>2, Zenon DEF AllTx, TxRecords
  <2> QED
    BY <2>1, <2>2, Zenon DEF TypeOK, IndInv, TypeInv
<1> QED
  BY <1>1, ConfigInvariant, PTL

\* No transactions wait for each other in a circle, however many call at once.
THEOREM NoWaitCycleAlways == Spec => []NoWaitCycle
<1>1. IndInv => NoWaitCycle
  BY SomeoneGoesOn, Zenon DEF IndInv
<1> QED
  BY <1>1, ConfigInvariant, PTL

\* A committed row of target has its row in quota_config.
THEOREM TargetHasConfigAlways == Spec => []TargetHasConfig
<1>1. IndInv => TargetHasConfig
  BY Zenon DEF IndInv
<1> QED
  BY <1>1, ConfigInvariant, PTL

\* The quotas of a tablespace have its per segment ratio.
THEOREM RatioFollowsTablespaceAlways == Spec => []RatioFollowsTablespace
<1>1. IndInv => RatioFollowsTablespace
  BY Zenon DEF IndInv
<1> QED
  BY <1>1, ConfigInvariant, PTL

\* The value of a quota is what the last call set, or what one of the calls
\* set that overlapped it.
THEOREM QuotaIsAnOutcomeAlways == Spec => []QuotaIsAnOutcome
<1>1. IndInv => QuotaIsAnOutcome
  BY Zenon DEF IndInv
<1> QED
  BY <1>1, ConfigInvariant, PTL
=============================================================================
