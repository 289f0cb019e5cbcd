--------------------------- MODULE LauncherProofs ---------------------------
(***************************************************************************)
(* Proofs about the launcher's pool of worker entries, for any number of   *)
(* databases, slots and workers, any failures, any launcher restarts and   *)
(* any sequence of requests; and, where the launcher is not restarted,     *)
(* that its exit reaches every worker, that no entry is lost and that the  *)
(* books of the monitored databases agree.                                 *)
(***************************************************************************)
EXTENDS Launcher, FiniteSetTheorems, WellFoundedInduction, TLAPS

-----------------------------------------------------------------------------
(***************************************************************************)
(* The inductive invariant.                                                *)
(***************************************************************************)
\* While the launcher works on curDB, the slot has no worker but the one the
\* launcher itself is starting.
CurDbIsIdle ==
    lpc \in {"load", "down", "wait", "tx2", "check", "take", "assign", "free2"}
      \/ (lpc = "top" /\ ~advance)
        => (curDB # NoSlot => workerId[curDB] = NoWorker)

CurDbIsValid ==
    lpc \in {"take", "assign", "register"} => curDB # NoSlot /\ inUse[curDB]

\* The entry in the launcher's hands while start_worker runs.
Starting ==
    /\ lpc \in {"assign", "register", "startup", "free1", "free2"} => lw # NoWorker
    /\ lpc \in {"assign", "register", "free1", "free2"} => ~Live(lw)
    /\ lpc \in {"assign", "register"} => lw \notin freeWorkers
    /\ lpc = "assign" => dbEntry[lw] = NoSlot
    /\ lpc = "register" => workerId[curDB] = lw
    /\ lpc \in {"startup", "free1"} => curDB # NoSlot /\ workerId[curDB] \in {lw, NoWorker}
    /\ lpc = "free2" => \A s \in Slots : workerId[s] # lw

\* Between the two critical sections of FreeWorker no slot names the worker.
Leaving ==
    \A w \in Workers : pc[w] = "exit2" => \A s \in Slots : workerId[s] # w

\* try_times reaches its limit only together with a decision to advance.
TriesBounded ==
    /\ lpc \in {"wait", "tx2", "check", "take", "assign", "register", "startup"} => tries < MaxTries
    /\ tries = MaxTries => advance

RequestPending == lpc = "tx2" => request \in Requests

\* What ties slots, entries and processes together.
PoolInv ==
    /\ WorkerIsRegistered
    /\ SlotNamesItsWorker
    /\ LiveWorkerKeepsEntry
    /\ Leaving

\* What the launcher knows at its control points.
ControlInv ==
    /\ CurDbIsIdle
    /\ CurDbIsValid
    /\ Starting
    /\ TriesBounded
    /\ RequestPending

IndInv == TypeOK /\ PoolInv /\ ControlInv

-----------------------------------------------------------------------------
\* A non-empty set of naturals has a least element.
LEMMA NatMin ==
    ASSUME NEW S \in SUBSET Nat, S # {}
    PROVE  \E n \in S : \A m \in S : n <= m
<1> DEFINE R == {ss \in Nat \X Nat : ss[1] < ss[2]}
<1>1. IsWellFoundedOn(R, Nat)
    BY NatLessThanWellFounded, Zenon DEF OpToRel
<1>2. PICK x \in S : \A y \in S : ~ (<<y, x>> \in R)
    <2> HIDE DEF R
    <2> QED BY <1>1, WFMin, Zenon
<1>3. \A y \in S : ~(y < x)
    BY <1>2, Zenon
<1> QED BY <1>3

\* Lowest picks a member of the set of slots it is given.
LEMMA LowestIn ==
    ASSUME NEW S \in SUBSET Slots, S # {}
    PROVE  Lowest(S) \in S
<1>1. S \in SUBSET Nat
    BY LauncherAssumption DEF Slots
<1>2. \E s \in S : \A t \in S : s <= t
    BY <1>1, NatMin, Zenon
<1> QED BY <1>2, Zenon DEF Lowest

\* next_db returns a runnable slot or NULL.
LEMMA NextDbRunnable ==
    ASSUME TypeOK
    PROVE  \/ NextDb = NoSlot
           \/ NextDb \in Slots /\ Runnable(NextDb)
<1> SUFFICES ASSUME \E s \in Slots : Runnable(s)
             PROVE  NextDb \in Slots /\ Runnable(NextDb)
    BY Zenon DEF NextDb
<1> DEFINE D == {Distance(s) : s \in {t \in Slots : Runnable(t)}}
<1>1. \A s \in Slots : Distance(s) \in Nat
    BY LauncherAssumption DEF TypeOK, Slots, NoSlot, Distance
<1>2. D \in SUBSET Nat /\ D # {}
    BY <1>1, Zenon
<1>3. PICK n \in D : \A m \in D : n <= m
    BY <1>2, NatMin, Zenon
<1>4. PICK s \in Slots : Runnable(s) /\ n = Distance(s)
    BY <1>3, Zenon
<1>5. \A t \in Slots : Runnable(t) => Distance(s) <= Distance(t)
    BY <1>3, <1>4, Zenon
<1> HIDE DEF D
<1> QED BY <1>4, <1>5, Zenon DEF NextDb

-----------------------------------------------------------------------------
(***************************************************************************)
(* Steps of the launcher that leave slots, entries and processes alone.    *)
(***************************************************************************)
LEMMA PoolStable ==
    ASSUME PoolInv, UNCHANGED <<dbid, workerId, inUse, poolVars, procVars>>
    PROVE  PoolInv'
BY Zenon DEF PoolInv, WorkerIsRegistered, SlotNamesItsWorker, LiveWorkerKeepsEntry, Leaving,
       Running, Live, poolVars, procVars

LEMMA LoadDoneInv ==
    ASSUME IndInv, LoadDone
    PROVE  IndInv'
<1>1. TypeOK'
    BY Zenon DEF IndInv, TypeOK, LoadDone, LauncherPc, slotVars, poolVars, catVars,
           schedVars, procVars
<1>2. PoolInv'
    BY PoolStable, Zenon DEF IndInv, LoadDone, slotVars, poolVars, procVars, lauVars
<1>3. ControlInv'
    BY Zenon DEF IndInv, ControlInv, LoadDone, CurDbIsIdle, CurDbIsValid,
           Starting, TriesBounded, RequestPending, slotVars, poolVars, schedVars, procVars, Live
<1> QED BY <1>1, <1>2, <1>3, Zenon DEF IndInv

LEMMA PickInv ==
    ASSUME IndInv, Pick
    PROVE  IndInv'
<1> USE DEF IndInv
<1>1. NextDb \in Slots \cup {NoSlot} /\ (NextDb # NoSlot => NextDb \in Slots /\ workerId[NextDb] = NoWorker)
    BY NextDbRunnable, Zenon DEF Runnable
<1>2. TypeOK'
    BY <1>1 DEF TypeOK, Pick, LauncherPc, slotVars, poolVars, catVars, schedVars, procVars, MaxTries
<1>3. PoolInv'
    BY PoolStable, Zenon DEF Pick, slotVars
<1>4. ControlInv'
    BY <1>1 DEF ControlInv, TypeOK, Pick, CurDbIsIdle, CurDbIsValid, Starting, TriesBounded,
                RequestPending, schedVars, slotVars, MaxTries
<1> QED BY <1>2, <1>3, <1>4, Zenon

LEMMA CreateTx1Inv ==
    ASSUME IndInv, NEW d \in DBs, CreateTx1(d)
    PROVE  IndInv'
<1>1. TypeOK'
    BY LauncherAssumption DEF IndInv, TypeOK, CreateTx1, LauncherPc, slotVars, poolVars, catVars,
           schedVars, procVars, Requests
<1>2. PoolInv'
    BY PoolStable, Zenon DEF IndInv, CreateTx1, slotVars, poolVars, procVars, lauVars
<1>3. ControlInv'
    BY DEF IndInv, ControlInv, CreateTx1, CurDbIsIdle, CurDbIsValid,
           Starting, TriesBounded, RequestPending, slotVars, poolVars, schedVars, procVars, Live, Requests
<1> QED BY <1>1, <1>2, <1>3, Zenon DEF IndInv

LEMMA DropTx1Inv ==
    ASSUME IndInv, NEW d \in DBs, DropTx1(d)
    PROVE  IndInv'
<1>1. TypeOK'
    BY LauncherAssumption DEF IndInv, TypeOK, DropTx1, LauncherPc, slotVars, poolVars, catVars,
           schedVars, procVars, Requests
<1>2. PoolInv'
    BY PoolStable, Zenon DEF IndInv, DropTx1, slotVars, poolVars, procVars, lauVars
<1>3. ControlInv'
    BY DEF IndInv, ControlInv, DropTx1, CurDbIsIdle, CurDbIsValid,
           Starting, TriesBounded, RequestPending, slotVars, poolVars, schedVars, procVars, Live, Requests
<1> QED BY <1>1, <1>2, <1>3, Zenon DEF IndInv

LEMMA CheckInv ==
    ASSUME IndInv, Check
    PROVE  IndInv'
<1>1. TypeOK'
    BY Zenon DEF IndInv, TypeOK, Check, LauncherPc, slotVars, poolVars, catVars,
           schedVars, procVars
<1>2. PoolInv'
    BY PoolStable, Zenon DEF IndInv, Check, slotVars, poolVars, procVars, lauVars
<1>3. ControlInv'
    BY DEF IndInv, ControlInv, Check, CurDbIsIdle, CurDbIsValid,
           Starting, TriesBounded, RequestPending, slotVars, poolVars, schedVars, procVars, Live, TypeOK, MaxTries
<1> QED BY <1>1, <1>2, <1>3, Zenon DEF IndInv

LEMMA NoFreeWorkerInv ==
    ASSUME IndInv, NoFreeWorker
    PROVE  IndInv'
<1>1. TypeOK'
    BY Zenon DEF IndInv, TypeOK, NoFreeWorker, LauncherPc, slotVars, poolVars, catVars,
           schedVars, procVars
<1>2. PoolInv'
    BY PoolStable, Zenon DEF IndInv, NoFreeWorker, slotVars, poolVars, procVars, lauVars
<1>3. ControlInv'
    BY DEF IndInv, ControlInv, NoFreeWorker, CurDbIsIdle, CurDbIsValid,
           Starting, TriesBounded, RequestPending, slotVars, poolVars, schedVars, procVars, Live, TypeOK, MaxTries
<1> QED BY <1>1, <1>2, <1>3, Zenon DEF IndInv

\* What counting a failed attempt does to try_times and advance_one_db.
LEMMA AttemptedBounded ==
    ASSUME tries \in 0 .. MaxTries, tries < MaxTries, \E valid \in BOOLEAN : Attempted(valid)
    PROVE  tries' \in 0 .. MaxTries /\ advance' \in BOOLEAN /\ (tries' = MaxTries => advance')
<1>1. CASE Attempted(FALSE)
    BY <1>1, Zenon DEF Attempted, MaxTries
<1>2. CASE Attempted(TRUE) /\ tries + 1 >= MaxTries
    <2>1. advance'
        BY <1>2, Zenon DEF Attempted
    <2>2. tries' = tries + 1 /\ advance' \in BOOLEAN
        BY <1>2, Zenon DEF Attempted
    <2> QED BY <2>1, <2>2 DEF MaxTries
<1>3. CASE Attempted(TRUE) /\ ~(tries + 1 >= MaxTries)
    BY <1>3 DEF Attempted, MaxTries
<1> QED BY <1>1, <1>2, <1>3, Zenon

LEMMA StartupInv ==
    ASSUME IndInv, Startup
    PROVE  IndInv'
<1> USE DEF IndInv
<1>1. PoolInv'
    BY PoolStable, Zenon DEF Startup, slotVars
<1>2. CASE pc[lw] = "none"
    <2>1. /\ tries' \in 0 .. MaxTries
          /\ advance' \in BOOLEAN
          /\ tries' = MaxTries => advance'
        BY <1>2, AttemptedBounded, Zenon DEF Startup, Stopped, TypeOK, ControlInv, TriesBounded
    <2>2. TypeOK'
        BY <1>2, <2>1, Zenon DEF TypeOK, Startup, Stopped, LauncherPc, slotVars, poolVars, catVars, procVars
    <2>3. ControlInv'
        BY <1>2, <2>1, Zenon DEF ControlInv, Startup, Stopped, CurDbIsIdle, CurDbIsValid, Starting,
           TriesBounded, RequestPending, slotVars, poolVars, procVars, Live, Serving
    <2> QED BY <1>1, <2>2, <2>3, Zenon
<1>3. CASE pc[lw] # "none"
    <2>1. TypeOK'
        BY <1>3, Zenon DEF TypeOK, Startup, Stopped, LauncherPc, slotVars, poolVars, catVars, procVars
    <2>2. ControlInv'
        BY <1>3, Zenon DEF ControlInv, Startup, Stopped, CurDbIsIdle, CurDbIsValid, Starting,
           TriesBounded, RequestPending
    <2> QED BY <1>1, <2>1, <2>2, Zenon
<1> QED BY <1>2, <1>3, Zenon

LEMMA LauncherErrorInv ==
    ASSUME IndInv, LauncherError
    PROVE  IndInv'
<1>1. TypeOK'
    BY LauncherAssumption DEF IndInv, TypeOK, LauncherError, LauncherPc, slotVars, poolVars, catVars,
           schedVars, procVars, NoLauncherState, MaxTries
<1>2. PoolInv'
    BY PoolStable, Zenon DEF IndInv, LauncherError, slotVars, poolVars, procVars, lauVars
<1>3. ControlInv'
    BY LauncherAssumption, Zenon DEF IndInv, ControlInv, LauncherError, CurDbIsIdle, CurDbIsValid,
           Starting, TriesBounded, RequestPending, slotVars, poolVars, schedVars, procVars, Live, NoLauncherState, MaxTries
<1> QED BY <1>1, <1>2, <1>3, Zenon DEF IndInv

LEMMA RestartInv ==
    ASSUME IndInv, Restart
    PROVE  IndInv'
<1>1. TypeOK'
    BY Zenon DEF IndInv, TypeOK, Restart, LauncherPc, slotVars, poolVars, catVars,
           schedVars, procVars
<1>2. PoolInv'
    BY PoolStable, Zenon DEF IndInv, Restart, slotVars, poolVars, procVars, lauVars
<1>3. ControlInv'
    BY Zenon DEF IndInv, ControlInv, Restart, CurDbIsIdle, CurDbIsValid,
           Starting, TriesBounded, RequestPending, slotVars, poolVars, schedVars, procVars, Live
<1> QED BY <1>1, <1>2, <1>3, Zenon DEF IndInv

LEMMA TimePassesInv ==
    ASSUME IndInv, NEW s \in Slots, TimePasses(s)
    PROVE  IndInv'
<1>1. TypeOK'
    BY DEF IndInv, TypeOK, TimePasses, LauncherPc, slotVars, poolVars, catVars,
           schedVars, procVars, lauVars
<1>2. PoolInv'
    BY PoolStable, Zenon DEF IndInv, TimePasses, slotVars, poolVars, procVars, lauVars
<1>3. ControlInv'
    BY Zenon DEF IndInv, ControlInv, TimePasses, CurDbIsIdle, CurDbIsValid,
           Starting, TriesBounded, RequestPending, slotVars, poolVars, schedVars, procVars, Live, lauVars
<1> QED BY <1>1, <1>2, <1>3, Zenon DEF IndInv

LEMMA DropDatabaseInv ==
    ASSUME IndInv, NEW d \in DBs, DropDatabase(d)
    PROVE  IndInv'
<1>1. TypeOK'
    BY DEF IndInv, TypeOK, DropDatabase, LauncherPc, slotVars, poolVars, catVars,
           schedVars, procVars, lauVars
<1>2. PoolInv'
    BY PoolStable, Zenon DEF IndInv, DropDatabase, slotVars, poolVars, procVars, lauVars
<1>3. ControlInv'
    BY Zenon DEF IndInv, ControlInv, DropDatabase, CurDbIsIdle, CurDbIsValid,
           Starting, TriesBounded, RequestPending, slotVars, poolVars, schedVars, procVars, Live, lauVars
<1> QED BY <1>1, <1>2, <1>3, Zenon DEF IndInv

-----------------------------------------------------------------------------
(***************************************************************************)
(* Steps of the launcher that change slots.                                *)
(***************************************************************************)
\* add_db_entry only touches a slot that was free, so no worker is bound to it.
LEMMA AddDbEntryKeepsPool ==
    ASSUME TypeOK, PoolInv, NEW d \in DBs, AddDbEntry(d), UNCHANGED <<poolVars, procVars>>
    PROVE  /\ PoolInv'
           /\ dbid' \in [Slots -> DBs \cup {InvalidOid}]
           /\ inUse' \in [Slots -> BOOLEAN]
           /\ due' \in [Slots -> BOOLEAN]
           /\ UNCHANGED <<workerId, inited>>
           /\ \A s \in Slots : inUse[s] => inUse'[s]
<1>1. CASE ~TakesFreeSlot(d)
    <2>1. UNCHANGED <<dbid, workerId, inUse, due, inited, poolVars, procVars>>
        BY <1>1, Zenon DEF AddDbEntry
    <2> QED BY <2>1, PoolStable, Zenon DEF TypeOK
<1>2. CASE TakesFreeSlot(d)
    <2> DEFINE s == Lowest(FreeSlots)
    <2>1. s \in Slots /\ ~inUse[s]
        BY <1>2, LowestIn, Zenon DEF TakesFreeSlot, FreeSlots
    <2>2. /\ dbid' = [dbid EXCEPT ![s] = d]
          /\ inUse' = [inUse EXCEPT ![s] = TRUE]
          /\ due' = [due EXCEPT ![s] = FALSE]
          /\ UNCHANGED <<workerId, inited, freeWorkers, dbEntry, pc, pdb, sigterm>>
        BY <1>2, Zenon DEF AddDbEntry, poolVars, procVars
    <2> HIDE DEF s
    <2>3. \A t \in Slots : t # s => dbid'[t] = dbid[t] /\ inUse'[t] = inUse[t]
        BY <2>1, <2>2, Zenon DEF TypeOK
    <2>4. inUse'[s] = TRUE
        BY <2>1, <2>2, Zenon DEF TypeOK
    <2>5. WorkerIsRegistered'
        BY <2>1, <2>2, <2>3 DEF PoolInv, WorkerIsRegistered, Running, TypeOK
    <2>6. SlotNamesItsWorker'
        BY <2>1, <2>2, <2>3, <2>4, Zenon DEF PoolInv, SlotNamesItsWorker
    <2>7. LiveWorkerKeepsEntry' /\ Leaving'
        BY <2>2, Zenon DEF PoolInv, LiveWorkerKeepsEntry, Leaving, Live
    <2> QED BY <2>1, <2>2, <2>3, <2>4, <2>5, <2>6, <2>7, Zenon DEF PoolInv, TypeOK
<1> QED BY <1>1, <1>2, Zenon

LEMMA LoadInv ==
    ASSUME IndInv, NEW d \in DBs, Load(d)
    PROVE  IndInv'
<1> USE DEF IndInv
<1>1. CASE d \in exists
    <2>1. AddDbEntry(d) /\ UNCHANGED <<poolVars, procVars>>
        BY <1>1, Zenon DEF Load
    <2>2. numDb' \in 0 .. MaxDB
        BY <1>1, LauncherAssumption DEF Load, TypeOK
    <2>3. TypeOK'
        BY <2>1, <2>2, AddDbEntryKeepsPool, Zenon
           DEF Load, TypeOK, poolVars, catVars, schedVars, procVars
    <2>4. ControlInv'
        BY <2>1, AddDbEntryKeepsPool, Zenon
           DEF Load, ControlInv, CurDbIsIdle, CurDbIsValid, Starting, TriesBounded,
               RequestPending, schedVars
    <2> QED BY <2>1, <2>3, <2>4, AddDbEntryKeepsPool, Zenon
<1>2. CASE d \notin exists
    <2>1. TypeOK'
        BY <1>2, Zenon DEF Load, TypeOK, slotVars, poolVars, catVars, schedVars, procVars
    <2>2. PoolInv'
        BY <1>2, PoolStable, Zenon DEF Load, slotVars
    <2>3. ControlInv'
        BY <1>2, Zenon DEF Load, ControlInv, CurDbIsIdle, CurDbIsValid, Starting, TriesBounded,
               RequestPending, schedVars, slotVars
    <2> QED BY <2>1, <2>2, <2>3, Zenon
<1> QED BY <1>1, <1>2, Zenon

LEMMA CreateTx2Inv ==
    ASSUME IndInv, CreateTx2
    PROVE  IndInv'
<1> USE DEF IndInv
<1>1. request.dbid \in DBs
    BY Zenon DEF CreateTx2, ControlInv, RequestPending, Requests
<1>2. AddDbEntry(request.dbid) /\ UNCHANGED <<poolVars, procVars>>
    BY Zenon DEF CreateTx2
<1>3. isDynamicWorker' \in BOOLEAN
    BY Zenon DEF CreateTx2
<1>4. TypeOK'
    BY <1>1, <1>2, <1>3, AddDbEntryKeepsPool, Zenon
       DEF CreateTx2, TypeOK, poolVars, catVars, schedVars, procVars, LauncherPc
<1>5. ControlInv'
    BY <1>1, <1>2, AddDbEntryKeepsPool, Zenon
       DEF CreateTx2, ControlInv, CurDbIsIdle, CurDbIsValid, Starting, TriesBounded,
           RequestPending, schedVars
<1> QED BY <1>1, <1>2, <1>4, <1>5, AddDbEntryKeepsPool, Zenon

\* release_db_entry signals the worker it unregisters.
LEMMA ReleaseSlotKeepsPool ==
    ASSUME TypeOK, PoolInv, NEW s \in Slots, ReleaseSlot(s), UNCHANGED <<poolVars, pc, pdb>>
    PROVE  /\ PoolInv'
           /\ dbid' \in [Slots -> DBs \cup {InvalidOid}]
           /\ workerId' \in [Slots -> Workers \cup {NoWorker}]
           /\ inited' \in [Slots -> BOOLEAN]
           /\ inUse' \in [Slots -> BOOLEAN]
           /\ model' \in [Slots -> SUBSET (DBs \cup {InvalidOid})]
           /\ sigterm' \in [Workers -> BOOLEAN]
           /\ \A t \in Slots : workerId[t] = NoWorker => workerId'[t] = NoWorker
<1>1. /\ dbid' = [dbid EXCEPT ![s] = InvalidOid]
      /\ inited' = [inited EXCEPT ![s] = FALSE]
      /\ workerId' = [workerId EXCEPT ![s] = NoWorker]
      /\ inUse' = [inUse EXCEPT ![s] = FALSE]
      /\ model' = [model EXCEPT ![s] = {}]
      /\ UNCHANGED <<freeWorkers, dbEntry, pc, pdb>>
    BY Zenon DEF ReleaseSlot, poolVars
<1>2. /\ dbid' \in [Slots -> DBs \cup {InvalidOid}]
      /\ workerId' \in [Slots -> Workers \cup {NoWorker}]
      /\ inited' \in [Slots -> BOOLEAN]
      /\ inUse' \in [Slots -> BOOLEAN]
      /\ model' \in [Slots -> SUBSET (DBs \cup {InvalidOid})]
    BY <1>1, Zenon DEF TypeOK
<1>3. /\ sigterm' \in [Workers -> BOOLEAN]
      /\ \A w \in Workers : sigterm[w] => sigterm'[w]
      /\ \A w \in Workers : workerId[s] = w /\ Running(w) => sigterm'[w]
    <2>1. CASE workerId[s] = NoWorker \/ pc[workerId[s]] \in {"gone", "none"}
        BY <2>1, LauncherAssumption DEF ReleaseSlot, TypeOK, Running, Serving, NoWorker, Workers
    <2>2. CASE ~(workerId[s] = NoWorker \/ pc[workerId[s]] \in {"gone", "none"})
        <3>1. workerId[s] \in Workers /\ sigterm' = [sigterm EXCEPT ![workerId[s]] = TRUE]
            BY <2>2, Zenon DEF ReleaseSlot, TypeOK
        <3> QED BY <3>1, Zenon DEF TypeOK
    <2> QED BY <2>1, <2>2, Zenon
<1>4. \A t \in Slots : t # s => /\ dbid'[t] = dbid[t]
                                /\ inUse'[t] = inUse[t]
                                /\ workerId'[t] = workerId[t]
    BY <1>1, Zenon DEF TypeOK
<1>5. workerId'[s] = NoWorker
    BY <1>1, Zenon DEF TypeOK
<1>6. WorkerIsRegistered'
    <2> SUFFICES ASSUME NEW w \in Workers, Running(w), ~sigterm'[w]
                 PROVE  /\ dbEntry[w] # NoSlot
                        /\ inUse'[dbEntry[w]]
                        /\ workerId'[dbEntry[w]] = w
                        /\ dbid'[dbEntry[w]] = pdb[w]
        BY <1>1, Zenon DEF WorkerIsRegistered, Running
    <2>1. /\ dbEntry[w] \in Slots
          /\ inUse[dbEntry[w]]
          /\ workerId[dbEntry[w]] = w
          /\ dbid[dbEntry[w]] = pdb[w]
        BY <1>3 DEF PoolInv, WorkerIsRegistered, TypeOK
    <2>2. dbEntry[w] # s
        BY <1>3, <2>1, Zenon
    <2>3. dbEntry[w] # NoSlot
        BY <1>3, Zenon DEF PoolInv, WorkerIsRegistered
    <2> QED BY <1>4, <2>1, <2>2, <2>3, Zenon
<1>7. SlotNamesItsWorker'
    BY <1>1, <1>4, <1>5 DEF PoolInv, SlotNamesItsWorker
<1>8. LiveWorkerKeepsEntry'
    BY <1>1, Zenon DEF PoolInv, LiveWorkerKeepsEntry, Live
<1>9. Leaving'
    BY <1>1, <1>4, <1>5, LauncherAssumption DEF PoolInv, Leaving, Workers, NoWorker
<1> QED BY <1>2, <1>3, <1>4, <1>5, <1>6, <1>7, <1>8, <1>9, Zenon DEF PoolInv

LEMMA DropTx2Inv ==
    ASSUME IndInv, DropTx2
    PROVE  IndInv'
<1> USE DEF IndInv
<1>1. isDynamicWorker' \in BOOLEAN
    BY Zenon DEF DropTx2
<1>2. CASE SlotsOf(request.dbid) # {}
    <2> DEFINE s == Lowest(SlotsOf(request.dbid))
    <2>1. s \in Slots
        BY <1>2, LowestIn, Zenon DEF SlotsOf
    <2>2. ReleaseSlot(s) /\ UNCHANGED <<poolVars, pc, pdb>>
        BY <1>2, Zenon DEF DropTx2
    <2> HIDE DEF s
    <2>3. TypeOK'
        BY <1>1, <2>1, <2>2, ReleaseSlotKeepsPool, Zenon
           DEF DropTx2, TypeOK, poolVars, catVars, schedVars, LauncherPc
    <2>4. ControlInv'
        BY <2>1, <2>2, ReleaseSlotKeepsPool, Zenon
           DEF DropTx2, ControlInv, CurDbIsIdle, CurDbIsValid, Starting, TriesBounded,
               RequestPending, schedVars, TypeOK
    <2> QED BY <2>1, <2>2, <2>3, <2>4, ReleaseSlotKeepsPool, Zenon
<1>3. CASE SlotsOf(request.dbid) = {}
    <2>1. TypeOK'
        BY <1>1, <1>3, Zenon DEF DropTx2, TypeOK, poolVars, catVars, schedVars, LauncherPc
    <2>2. PoolInv'
        BY <1>3, PoolStable, Zenon DEF DropTx2, procVars
    <2>3. ControlInv'
        BY <1>3, Zenon DEF DropTx2, ControlInv, CurDbIsIdle, CurDbIsValid, Starting, TriesBounded,
               RequestPending, schedVars
    <2> QED BY <2>1, <2>2, <2>3, Zenon
<1> QED BY <1>2, <1>3, Zenon

-----------------------------------------------------------------------------
(***************************************************************************)
(* start_worker: the launcher takes an entry, binds it and forks a process.*)
(***************************************************************************)
LEMMA TakeWorkerInv ==
    ASSUME IndInv, NEW w \in Workers, TakeWorker(w)
    PROVE  IndInv'
<1> USE DEF IndInv
<1>1. TypeOK'
    BY Zenon DEF TakeWorker, TypeOK, slotVars, catVars, schedVars, procVars, LauncherPc
<1>2. \A v \in Workers : v # w => dbEntry'[v] = dbEntry[v]
    BY Zenon DEF TakeWorker, TypeOK
<1>3. ~Live(w) /\ \A s \in Slots : workerId[s] # w
    <2>1. w \in freeWorkers
        BY Zenon DEF TakeWorker
    <2>2. ~Live(w)
        BY <2>1, Zenon DEF PoolInv, LiveWorkerKeepsEntry
    <2>3. w # NoWorker
        BY DEF Workers, NoWorker
    <2> QED BY <2>1, <2>2, <2>3, Zenon DEF PoolInv, SlotNamesItsWorker
<1>4. PoolInv'
    <2>1. UNCHANGED <<dbid, workerId, inUse, pc, pdb, sigterm>> /\ freeWorkers' = freeWorkers \ {w}
        BY Zenon DEF TakeWorker, slotVars, procVars
    <2>2. WorkerIsRegistered'
        BY <1>2, <1>3, <2>1, Zenon DEF PoolInv, WorkerIsRegistered, Running, Live
    <2>3. SlotNamesItsWorker'
        BY <1>2, <1>3, <2>1 DEF PoolInv, SlotNamesItsWorker, TypeOK
    <2>4. LiveWorkerKeepsEntry' /\ Leaving'
        BY <1>2, <1>3, <2>1, Zenon DEF PoolInv, LiveWorkerKeepsEntry, Leaving, Live
    <2> QED BY <2>2, <2>3, <2>4, Zenon DEF PoolInv
<1>5. ControlInv'
    BY <1>3, Zenon DEF TakeWorker, ControlInv, CurDbIsIdle, CurDbIsValid, Starting, TriesBounded,
                RequestPending, slotVars, schedVars, procVars, TypeOK, Live, Workers, NoWorker
<1> QED BY <1>1, <1>4, <1>5, Zenon

LEMMA AssignInv ==
    ASSUME IndInv, Assign
    PROVE  IndInv'
<1> USE DEF IndInv
<1>1. /\ lw \in Workers /\ ~Live(lw) /\ lw \notin freeWorkers
      /\ curDB \in Slots /\ inUse[curDB] /\ workerId[curDB] = NoWorker
    BY Zenon DEF Assign, ControlInv, Starting, CurDbIsValid, CurDbIsIdle, TypeOK
<1>2. TypeOK'
    BY <1>1, Zenon DEF Assign, TypeOK, catVars, schedVars, procVars, LauncherPc
<1>3. /\ workerId'[curDB] = lw /\ dbEntry'[lw] = curDB
      /\ \A v \in Workers : v # lw => dbEntry'[v] = dbEntry[v]
      /\ \A t \in Slots : t # curDB => workerId'[t] = workerId[t]
      /\ UNCHANGED <<dbid, inUse, freeWorkers, pc, pdb, sigterm>>
    BY <1>1, Zenon DEF Assign, TypeOK, procVars
<1>4. \A s \in Slots : workerId[s] # lw
    BY <1>1 DEF Assign, ControlInv, Starting, PoolInv, SlotNamesItsWorker, Slots, NoSlot, Workers, NoWorker
<1>5. WorkerIsRegistered'
    <2> SUFFICES ASSUME NEW w \in Workers, Running(w), ~sigterm[w]
                 PROVE  /\ dbEntry'[w] # NoSlot
                        /\ inUse[dbEntry'[w]]
                        /\ workerId'[dbEntry'[w]] = w
                        /\ dbid[dbEntry'[w]] = pdb[w]
        BY <1>3, Zenon DEF WorkerIsRegistered, Running
    <2>1. w # lw
        BY <1>1, Zenon DEF Running, Live
    <2>2. dbEntry[w] \in Slots /\ workerId[dbEntry[w]] = w
        BY DEF PoolInv, WorkerIsRegistered, TypeOK
    <2>3. dbEntry[w] # curDB
        BY <1>1, <2>2 DEF Workers, NoWorker
    <2> QED BY <1>3, <2>1, <2>2, <2>3, Zenon DEF PoolInv, WorkerIsRegistered
<1>6. SlotNamesItsWorker'
    <2> SUFFICES ASSUME NEW s \in Slots, workerId'[s] # NoWorker
                 PROVE  /\ inUse[s]
                        /\ workerId'[s] \notin freeWorkers
                        /\ dbEntry'[workerId'[s]] = s
        BY <1>3, Zenon DEF SlotNamesItsWorker
    <2>1. CASE s = curDB
        BY <1>1, <1>3, <2>1, Zenon
    <2>2. CASE s # curDB
        <3>1. workerId'[s] = workerId[s] /\ workerId[s] \in Workers /\ workerId[s] # lw
            BY <1>3, <1>4, <2>2 DEF TypeOK
        <3> QED BY <1>3, <3>1, Zenon DEF PoolInv, SlotNamesItsWorker
    <2> QED BY <2>1, <2>2, Zenon
<1>7. LiveWorkerKeepsEntry' /\ Leaving'
    <2>1. \A w \in Workers : Live(w)' <=> Live(w)
        BY <1>3, Zenon DEF Live
    <2>2. LiveWorkerKeepsEntry'
        BY <1>1, <1>3, <2>1, Zenon DEF PoolInv, LiveWorkerKeepsEntry
    <2>3. pc[lw] # "exit2"
        BY <1>1, Zenon DEF Live
    <2>4. Leaving'
        BY <1>3, <2>3, Zenon DEF PoolInv, Leaving
    <2> QED BY <2>2, <2>4, Zenon
<1>8. ControlInv'
    BY <1>1, <1>3, Zenon DEF Assign, ControlInv, CurDbIsIdle, CurDbIsValid, Starting, TriesBounded,
                RequestPending, schedVars, Live
<1> QED BY <1>2, <1>5, <1>6, <1>7, <1>8, Zenon DEF PoolInv

LEMMA RegisterInv ==
    ASSUME IndInv, Register
    PROVE  IndInv'
<1> USE DEF IndInv
<1>1. /\ lw \in Workers /\ ~Live(lw) /\ lw \notin freeWorkers
      /\ curDB \in Slots /\ inUse[curDB] /\ workerId[curDB] = lw
      /\ tries < MaxTries
    BY Zenon DEF Register, ControlInv, Starting, CurDbIsValid, TriesBounded, TypeOK
<1>2. dbEntry[lw] = curDB
    BY <1>1 DEF PoolInv, SlotNamesItsWorker, Workers, NoWorker
<1>3. UNCHANGED <<dbid, workerId, inited, inUse, due, freeWorkers, dbEntry, isDynamicWorker,
                  model, exists, dbList, curDB, curDBId, numDb, lw, request, todo, crashes>>
    BY Zenon DEF Register, slotVars, poolVars, catVars
<1>4. CASE /\ dbid[curDB] \in exists
           /\ handle' = [handle EXCEPT ![lw] = TRUE]
           /\ pc' = [pc EXCEPT ![lw] = "forked"]
           /\ pdb' = [pdb EXCEPT ![lw] = dbid[curDB]]
           /\ sigterm' = [sigterm EXCEPT ![lw] = FALSE]
           /\ lpc' = "startup"
           /\ UNCHANGED <<tries, advance>>
    <2>1. TypeOK'
        BY <1>1, <1>3, <1>4, Zenon DEF TypeOK, LauncherPc, Serving
    <2>2. /\ pc'[lw] = "forked" /\ pdb'[lw] = dbid[curDB]
          /\ \A v \in Workers : v # lw => /\ pc'[v] = pc[v]
                                          /\ pdb'[v] = pdb[v]
                                          /\ sigterm'[v] = sigterm[v]
        BY <1>1, <1>4, Zenon DEF TypeOK
    <2>3. WorkerIsRegistered'
        <3> SUFFICES ASSUME NEW w \in Workers, Running(w)', ~sigterm'[w]
                     PROVE  /\ dbEntry[w] # NoSlot
                            /\ inUse[dbEntry[w]]
                            /\ workerId[dbEntry[w]] = w
                            /\ dbid[dbEntry[w]] = pdb'[w]
            BY <1>3, Zenon DEF WorkerIsRegistered
        <3>1. CASE w = lw
            <4>1. curDB # NoSlot
                BY <1>1 DEF Slots, NoSlot
            <4> QED BY <1>1, <1>2, <2>2, <3>1, <4>1, Zenon
        <3>2. CASE w # lw
            <4>1. Running(w) /\ ~sigterm[w]
                BY <2>2, <3>2, Zenon DEF Running
            <4> QED BY <2>2, <3>2, <4>1, Zenon DEF PoolInv, WorkerIsRegistered
        <3> QED BY <3>1, <3>2, Zenon
    <2>4. SlotNamesItsWorker'
        BY <1>3, Zenon DEF PoolInv, SlotNamesItsWorker
    <2>5. LiveWorkerKeepsEntry' /\ Leaving'
        BY <1>1, <1>2, <1>3, <2>2 DEF PoolInv, LiveWorkerKeepsEntry, Leaving, Live, Slots, NoSlot
    <2>6. ControlInv'
        <3>1. curDB # NoSlot /\ lw # NoWorker
            BY <1>1, LauncherAssumption DEF Slots, NoSlot, Workers, NoWorker
        <3>2. CurDbIsIdle' /\ CurDbIsValid' /\ Starting'
            BY <1>1, <1>3, <1>4, <3>1, Zenon DEF CurDbIsIdle, CurDbIsValid, Starting
        <3>3. TriesBounded' /\ RequestPending'
            BY <1>1, <1>4, Zenon DEF ControlInv, TriesBounded, RequestPending
        <3> QED BY <3>2, <3>3, Zenon DEF ControlInv
    <2> QED BY <2>1, <2>3, <2>4, <2>5, <2>6, Zenon DEF PoolInv
<1>5. CASE /\ Attempted(dbid[curDB] \in exists)
           /\ lpc' = "free1"
           /\ UNCHANGED <<handle, procVars>>
    <2>1. /\ tries' \in 0 .. MaxTries
          /\ advance' \in BOOLEAN
          /\ tries' = MaxTries => advance'
        <3>1. \E valid \in BOOLEAN : Attempted(valid)
            BY <1>5, Zenon DEF Attempted
        <3> QED BY <1>1, <3>1, AttemptedBounded, Zenon DEF TypeOK
    <2>2. TypeOK'
        BY <1>3, <1>5, <2>1, Zenon DEF TypeOK, LauncherPc, procVars
    <2>3. PoolInv'
        BY <1>3, <1>5, PoolStable, Zenon DEF poolVars
    <2>4. ControlInv'
        <3>1. curDB # NoSlot /\ lw # NoWorker
            BY <1>1, LauncherAssumption DEF Slots, NoSlot, Workers, NoWorker
        <3>2. CurDbIsIdle' /\ CurDbIsValid' /\ Starting'
            BY <1>1, <1>3, <1>5, <3>1, Zenon DEF CurDbIsIdle, CurDbIsValid, Starting, Live, procVars
        <3>3. TriesBounded' /\ RequestPending'
            BY <1>5, <2>1, Zenon DEF TriesBounded, RequestPending
        <3> QED BY <3>2, <3>3, Zenon DEF ControlInv
    <2> QED BY <2>2, <2>3, <2>4, Zenon
<1> QED BY <1>4, <1>5, Zenon DEF Register

\* FreeWorker's first critical section, run by the launcher or by the process:
\* afterwards no slot names the entry, and no other binding has changed.
LEMMA UnbindSlotEffect ==
    ASSUME TypeOK, PoolInv, NEW w \in Workers, UnbindSlot(w)
    PROVE  /\ workerId' \in [Slots -> Workers \cup {NoWorker}]
           /\ due' \in [Slots -> BOOLEAN]
           /\ UNCHANGED <<dbid, inited, inUse>>
           /\ \A s \in Slots : workerId'[s] # w
           /\ \A s \in Slots : workerId[s] # w => workerId'[s] = workerId[s]
           /\ \A s \in Slots : workerId'[s] \in {workerId[s], NoWorker}
<1> DEFINE s == dbEntry[w]
<1>1. \A t \in Slots : workerId[t] = w => t = s /\ inUse[t]
    BY DEF PoolInv, SlotNamesItsWorker, Workers, NoWorker
<1>2. CASE s # NoSlot /\ inUse[s] /\ workerId[s] = w
    <2>1. /\ workerId' = [workerId EXCEPT ![s] = NoWorker]
          /\ due' = [due EXCEPT ![s] = FALSE]
          /\ UNCHANGED <<dbid, inited, inUse>>
        BY <1>2, Zenon DEF UnbindSlot
    <2>2. s \in Slots
        BY <1>2, Zenon DEF TypeOK
    <2>3. w # NoWorker
        BY DEF Workers, NoWorker
    <2> QED BY <1>1, <1>2, <2>1, <2>2, <2>3, Zenon DEF TypeOK
<1>3. CASE ~(s # NoSlot /\ inUse[s] /\ workerId[s] = w)
    <2>1. UNCHANGED <<workerId, due, dbid, inited, inUse>>
        BY <1>3, Zenon DEF UnbindSlot
    <2>2. \A t \in Slots : workerId[t] # w
        <3> SUFFICES ASSUME NEW t \in Slots, workerId[t] = w PROVE FALSE
            BY Zenon
        <3>1. t = s /\ inUse[t]
            BY <1>1, Zenon
        <3>2. t # NoSlot
            BY DEF Slots, NoSlot
        <3> QED BY <1>3, <3>1, <3>2, Zenon
    <2> QED BY <2>1, <2>2, Zenon DEF TypeOK
<1> QED BY <1>2, <1>3, Zenon

\* Unbinding an entry whose process is not serving any more keeps the pool.
LEMMA UnbindKeepsPool ==
    ASSUME TypeOK, PoolInv, NEW w \in Workers, UnbindSlot(w),
           UNCHANGED <<poolVars, pdb, sigterm>>,
           pc' \in [Workers -> Serving \cup {"exit1", "exit2", "gone", "none"}],
           \A v \in Workers : v # w => pc'[v] = pc[v],
           \/ pc'[w] = pc[w] /\ ~Live(w)
           \/ pc'[w] = "exit2" /\ Live(w)
    PROVE  PoolInv'
<1>1. /\ UNCHANGED <<dbid, inUse>>
      /\ \A s \in Slots : workerId'[s] # w
      /\ \A s \in Slots : workerId[s] # w => workerId'[s] = workerId[s]
      /\ \A s \in Slots : workerId'[s] \in {workerId[s], NoWorker}
    BY UnbindSlotEffect, Zenon
<1>2. UNCHANGED <<freeWorkers, dbEntry, pdb, sigterm>>
    BY Zenon DEF poolVars
<1>3. ~(pc'[w] \in Serving \cup {"exit1"})
    BY Zenon DEF Live, Serving
<1>4. WorkerIsRegistered'
    <2> SUFFICES ASSUME NEW v \in Workers, pc'[v] \in Serving \cup {"exit1"}, ~sigterm[v]
                 PROVE  /\ dbEntry[v] # NoSlot
                        /\ inUse[dbEntry[v]]
                        /\ workerId'[dbEntry[v]] = v
                        /\ dbid[dbEntry[v]] = pdb[v]
        BY <1>1, <1>2 DEF WorkerIsRegistered, Running
    <2>1. v # w /\ pc'[v] = pc[v]
        BY <1>3, Zenon
    <2>2. /\ dbEntry[v] # NoSlot
          /\ inUse[dbEntry[v]]
          /\ workerId[dbEntry[v]] = v
          /\ dbid[dbEntry[v]] = pdb[v]
        BY <2>1, Zenon DEF PoolInv, WorkerIsRegistered, Running
    <2>3. dbEntry[v] \in Slots
        BY <2>2, Zenon DEF TypeOK
    <2> QED BY <1>1, <2>1, <2>2, <2>3, Zenon
<1>5. SlotNamesItsWorker'
    BY <1>1, <1>2, Zenon DEF PoolInv, SlotNamesItsWorker
<1>6. LiveWorkerKeepsEntry'
    BY <1>2, Zenon DEF PoolInv, LiveWorkerKeepsEntry, Live
<1>7. Leaving'
    BY <1>1 DEF PoolInv, Leaving, Live, Workers, NoWorker
<1> QED BY <1>4, <1>5, <1>6, <1>7, Zenon DEF PoolInv

LEMMA StartFailed1Inv ==
    ASSUME IndInv, StartFailed1
    PROVE  IndInv'
<1> USE DEF IndInv
<1>1. lw \in Workers /\ ~Live(lw) /\ curDB # NoSlot /\ workerId[curDB] \in {lw, NoWorker}
    BY Zenon DEF StartFailed1, ControlInv, Starting, TypeOK
<1>2. UnbindSlot(lw) /\ UNCHANGED <<poolVars, procVars>>
    BY Zenon DEF StartFailed1
<1>3. TypeOK'
    BY <1>1, <1>2, UnbindSlotEffect, Zenon
       DEF StartFailed1, TypeOK, poolVars, catVars, schedVars, procVars, LauncherPc
<1>4. PoolInv'
    BY <1>1, <1>2, UnbindKeepsPool, Zenon DEF procVars, TypeOK
<1>5. curDB \in Slots /\ workerId'[curDB] = NoWorker /\ \A s \in Slots : workerId'[s] # lw
    BY <1>1, <1>2, UnbindSlotEffect, Zenon DEF TypeOK
<1>6. ControlInv'
    BY <1>1, <1>5, Zenon DEF StartFailed1, ControlInv, CurDbIsIdle, CurDbIsValid, Starting, TriesBounded,
               RequestPending, schedVars, procVars, Live
<1> QED BY <1>3, <1>4, <1>6, Zenon

\* FreeWorker's second critical section, for an entry that no slot names.
LEMMA ReturnEntryKeepsPool ==
    ASSUME TypeOK, PoolInv, NEW w \in Workers, ReturnEntry(w), UNCHANGED <<dbid, workerId, inUse>>,
           \A s \in Slots : workerId[s] # w,
           \A v \in Workers : v # w => /\ pc'[v] = pc[v]
                                       /\ pdb'[v] = pdb[v]
                                       /\ sigterm'[v] = sigterm[v],
           pc'[w] \notin Serving \cup {"exit1", "exit2"}
    PROVE  /\ PoolInv'
           /\ freeWorkers' \in SUBSET Workers
           /\ dbEntry' \in [Workers -> Slots \cup {NoSlot}]
<1>1. /\ freeWorkers' = freeWorkers \cup {w}
      /\ \A v \in Workers : v # w => dbEntry'[v] = dbEntry[v]
      /\ dbEntry' \in [Workers -> Slots \cup {NoSlot}]
    BY Zenon DEF ReturnEntry, TypeOK
<1>2. WorkerIsRegistered'
    <2> SUFFICES ASSUME NEW v \in Workers, Running(v)', ~sigterm'[v]
                 PROVE  /\ dbEntry'[v] # NoSlot
                        /\ inUse[dbEntry'[v]]
                        /\ workerId[dbEntry'[v]] = v
                        /\ dbid[dbEntry'[v]] = pdb'[v]
        BY Zenon DEF WorkerIsRegistered
    <2>1. v # w
        BY Zenon DEF Running
    <2>2. Running(v) /\ ~sigterm[v] /\ dbEntry'[v] = dbEntry[v] /\ pdb'[v] = pdb[v]
        BY <1>1, <2>1, Zenon DEF Running
    <2> QED BY <2>2, Zenon DEF PoolInv, WorkerIsRegistered
<1>3. SlotNamesItsWorker'
    <2> SUFFICES ASSUME NEW s \in Slots, workerId[s] # NoWorker
                 PROVE  /\ inUse[s]
                        /\ workerId[s] \notin freeWorkers'
                        /\ dbEntry'[workerId[s]] = s
        BY Zenon DEF SlotNamesItsWorker
    <2>1. workerId[s] \in Workers /\ workerId[s] # w
        BY Zenon DEF TypeOK
    <2> QED BY <1>1, <2>1, Zenon DEF PoolInv, SlotNamesItsWorker
<1>4. LiveWorkerKeepsEntry'
    BY <1>1, Zenon DEF PoolInv, LiveWorkerKeepsEntry, Live
<1>5. Leaving'
    BY Zenon DEF PoolInv, Leaving
<1> QED BY <1>1, <1>2, <1>3, <1>4, <1>5, Zenon DEF PoolInv, TypeOK

LEMMA StartFailed2Inv ==
    ASSUME IndInv, StartFailed2
    PROVE  IndInv'
<1> USE DEF IndInv
<1>1. lw \in Workers /\ ~Live(lw) /\ \A s \in Slots : workerId[s] # lw
    BY Zenon DEF StartFailed2, ControlInv, Starting, TypeOK
<1>2. ReturnEntry(lw) /\ UNCHANGED <<slotVars, procVars>>
    BY Zenon DEF StartFailed2
<1>3. /\ PoolInv'
      /\ freeWorkers' \in SUBSET Workers
      /\ dbEntry' \in [Workers -> Slots \cup {NoSlot}]
    BY <1>1, <1>2, ReturnEntryKeepsPool, Zenon DEF slotVars, procVars, Live
<1>4. TypeOK'
    BY <1>2, <1>3, Zenon DEF StartFailed2, TypeOK, slotVars, catVars, schedVars, procVars, LauncherPc
<1>5. ControlInv'
    BY <1>2, Zenon DEF StartFailed2, ControlInv, CurDbIsIdle, CurDbIsValid, Starting, TriesBounded,
               RequestPending, schedVars, slotVars
<1> QED BY <1>3, <1>4, <1>5, Zenon

-----------------------------------------------------------------------------
(***************************************************************************)
(* The end of the launcher, and a reset of the postmaster.                 *)
(***************************************************************************)
LEMMA TerminateInv ==
    ASSUME IndInv, Terminate
    PROVE  IndInv'
<1> USE DEF IndInv
<1>1. /\ sigterm' \in [Workers -> BOOLEAN]
      /\ \A w \in Workers : sigterm[w] => sigterm'[w]
    BY Zenon DEF Terminate, Terminable, TypeOK
<1>2. UNCHANGED <<dbid, workerId, inUse, freeWorkers, dbEntry, pc, pdb>> /\ lpc' = "exited"
    BY Zenon DEF Terminate, slotVars, poolVars
<1>3. TypeOK'
    BY <1>1, Zenon DEF Terminate, Terminable, TypeOK, slotVars, poolVars, catVars, schedVars, LauncherPc
<1>4. PoolInv'
    BY <1>1, <1>2, Zenon DEF PoolInv, WorkerIsRegistered, SlotNamesItsWorker, LiveWorkerKeepsEntry,
                      Leaving, Running, Live
<1>5. ControlInv'
    BY <1>2, Zenon DEF Terminate, Terminable, ControlInv, CurDbIsIdle, CurDbIsValid, Starting, TriesBounded,
                RequestPending, schedVars
<1> QED BY <1>3, <1>4, <1>5, Zenon

LEMMA PostmasterResetInv ==
    ASSUME IndInv, PostmasterReset
    PROVE  IndInv'
<1> USE DEF IndInv
<1>1. TypeOK'
    <2>1. /\ curDB' = NoSlot /\ curDBId' = InvalidOid /\ advance' = TRUE /\ tries' = 0
          /\ numDb' = 0 /\ handle' = [w \in Workers |-> FALSE] /\ lw' = NoWorker
          /\ request' = InvalidOid /\ todo' = {} /\ lpc' = "down"
          /\ UNCHANGED <<exists, dbList, crashes>>
        BY Zenon DEF PostmasterReset, NoLauncherState, catVars
    <2>2. /\ dbid' \in [Slots -> DBs \cup {InvalidOid}]
          /\ workerId' \in [Slots -> Workers \cup {NoWorker}]
          /\ inited' \in [Slots -> BOOLEAN] /\ inUse' \in [Slots -> BOOLEAN]
          /\ due' \in [Slots -> BOOLEAN] /\ model' \in [Slots -> SUBSET (DBs \cup {InvalidOid})]
          /\ freeWorkers' \in SUBSET Workers /\ isDynamicWorker' \in BOOLEAN
          /\ dbEntry' \in [Workers -> Slots \cup {NoSlot}]
        BY Zenon DEF PostmasterReset
    <2>3. /\ pc' \in [Workers -> Serving \cup {"exit1", "exit2", "gone", "none"}]
          /\ pdb' \in [Workers -> DBs \cup {InvalidOid}]
          /\ sigterm' \in [Workers -> BOOLEAN]
        BY Zenon DEF PostmasterReset
    <2> QED BY <2>1, <2>2, <2>3, LauncherAssumption DEF TypeOK, LauncherPc, MaxTries
<1>2. PoolInv'
    BY Zenon DEF PostmasterReset, PoolInv, WorkerIsRegistered, SlotNamesItsWorker,
           LiveWorkerKeepsEntry, Leaving, Running, Live, Serving
<1>3. ControlInv'
    BY Zenon DEF PostmasterReset, NoLauncherState, ControlInv, CurDbIsIdle, CurDbIsValid, Starting,
           TriesBounded, RequestPending
<1> QED BY <1>1, <1>2, <1>3, Zenon

-----------------------------------------------------------------------------
(***************************************************************************)
(* Steps of a worker process.                                              *)
(***************************************************************************)
\* The launcher's own facts survive a process's step: the entry the launcher
\* is starting has no live process until it registers one.
LEMMA ControlStable ==
    ASSUME TypeOK, ControlInv, UNCHANGED <<lauVars, inUse>>, NEW w \in Workers,
           \A v \in Workers : v # w => pc'[v] = pc[v] /\ dbEntry'[v] = dbEntry[v],
           \A s \in Slots : workerId'[s] \in {workerId[s], NoWorker},
           Live(w) \/ (pc'[w] = "none" /\ dbEntry'[w] = dbEntry[w]),
           freeWorkers' \ {w} = freeWorkers \ {w},
           ~Live(w) => freeWorkers' = freeWorkers,
           \A s \in Slots : workerId'[s] # workerId[s] => workerId[s] = w /\ Live(w)
    PROVE  ControlInv'
<1>1. UNCHANGED <<lpc, curDB, curDBId, advance, tries, lw, request, inUse>>
    BY Zenon DEF lauVars, schedVars
<1>2. CurDbIsIdle' /\ CurDbIsValid'
    BY <1>1, Zenon DEF ControlInv, CurDbIsIdle, CurDbIsValid, TypeOK
<1>3. TriesBounded' /\ RequestPending'
    BY <1>1, Zenon DEF ControlInv, TriesBounded, RequestPending
<1>4. Starting'
    <2>1. lpc \in {"assign", "register", "free1", "free2"} =>
            /\ lw \in Workers /\ ~Live(lw)
            /\ ~(pc'[lw] \in Serving \cup {"exit1", "exit2"})
            /\ dbEntry'[lw] = dbEntry[lw]
            /\ lw \in freeWorkers' <=> lw \in freeWorkers
        BY Zenon DEF ControlInv, Starting, TypeOK, Live, Serving
    <2>2. lpc = "register" => workerId'[curDB] = lw
        BY <1>1, <2>1, Zenon DEF ControlInv, Starting, CurDbIsValid, TypeOK
    <2>3. lpc \in {"startup", "free1"} => curDB # NoSlot /\ workerId'[curDB] \in {lw, NoWorker}
        BY <1>1, Zenon DEF ControlInv, Starting, TypeOK
    <2>4. lpc = "free2" => \A s \in Slots : workerId'[s] # lw
        BY <2>1, Zenon DEF ControlInv, Starting, Workers, NoWorker
    <2> QED BY <1>1, <2>1, <2>2, <2>3, <2>4, Zenon DEF ControlInv, Starting, Live
<1> QED BY <1>2, <1>3, <1>4, Zenon DEF ControlInv

\* A process that moves from one serving point to another, or starts to exit.
LEMMA ServingStep ==
    ASSUME IndInv, NEW w \in Workers, pc[w] \in Serving,
           NEW p \in Serving \cup {"exit1"}, Goto(w, p),
           UNCHANGED <<dbid, workerId, inUse, due, poolVars, isDynamicWorker, catVars, lauVars,
                       pdb, sigterm>>,
           inited' \in [Slots -> BOOLEAN], model' \in [Slots -> SUBSET (DBs \cup {InvalidOid})]
    PROVE  IndInv'
<1> USE DEF IndInv
<1>1. /\ pc' \in [Workers -> Serving \cup {"exit1", "exit2", "gone", "none"}]
      /\ pc'[w] = p
      /\ \A v \in Workers : v # w => pc'[v] = pc[v]
    BY Zenon DEF Goto, TypeOK
<1>2. UNCHANGED <<freeWorkers, dbEntry>>
    BY Zenon DEF poolVars
<1>3. TypeOK'
    BY <1>1, <1>2, Zenon DEF TypeOK, catVars, lauVars, schedVars
<1>4. Live(w) /\ Running(w) /\ p # "exit2"
    BY Zenon DEF Live, Running, Serving
<1>5. WorkerIsRegistered'
    BY <1>1, <1>2, <1>4, Zenon DEF PoolInv, WorkerIsRegistered, Running
<1>6. SlotNamesItsWorker'
    BY <1>2, Zenon DEF PoolInv, SlotNamesItsWorker
<1>7. LiveWorkerKeepsEntry'
    BY <1>1, <1>2, <1>4, Zenon DEF PoolInv, LiveWorkerKeepsEntry, Live
<1>8. Leaving'
    BY <1>1, <1>4, Zenon DEF PoolInv, Leaving
<1>9. ControlInv'
    BY <1>1, <1>2, <1>4, ControlStable, Zenon
<1> QED BY <1>3, <1>5, <1>6, <1>7, <1>8, <1>9, Zenon DEF PoolInv

LEMMA RegisterHookInv ==
    ASSUME IndInv, NEW w \in Workers, RegisterHook(w)
    PROVE  IndInv'
BY ServingStep, Zenon DEF RegisterHook, OutsideProcs, slotVars, Serving, IndInv, TypeOK

LEMMA ConnectInv ==
    ASSUME IndInv, NEW w \in Workers, Connect(w)
    PROVE  IndInv'
<1>1. PICK p \in {"loop", "exit1"} : Goto(w, p)
    BY Zenon DEF Connect
<1> QED BY <1>1, ServingStep, Zenon DEF Connect, OutsideProcs, slotVars, Serving, IndInv, TypeOK

LEMMA LoopHeadInv ==
    ASSUME IndInv, NEW w \in Workers, LoopHead(w)
    PROVE  IndInv'
<1>1. PICK p \in {"loop", "refresh", "exit1"} : Goto(w, p)
    BY Zenon DEF LoopHead, EndOfRound
<1> QED BY <1>1, ServingStep, Zenon DEF LoopHead, OutsideProcs, slotVars, Serving, IndInv, TypeOK

LEMMA RefreshInv ==
    ASSUME IndInv, NEW w \in Workers, Refresh(w)
    PROVE  IndInv'
<1>1. dbEntry[w] \in Slots /\ pdb[w] \in DBs \cup {InvalidOid}
    BY Zenon DEF Refresh, IndInv, PoolInv, LiveWorkerKeepsEntry, Live, Serving, TypeOK
<1>2. PICK p \in {"refreshed", "exit1"} : Goto(w, p)
    BY Zenon DEF Refresh
<1>3. model' \in [Slots -> SUBSET (DBs \cup {InvalidOid})]
    BY <1>1 DEF Refresh, IndInv, TypeOK
<1> QED BY <1>2, <1>3, ServingStep, Zenon DEF Refresh, slotVars, Serving, IndInv, TypeOK

LEMMA SetInitedInv ==
    ASSUME IndInv, NEW w \in Workers, SetInited(w)
    PROVE  IndInv'
<1>1. PICK p \in {"loop", "exit1"} : Goto(w, p)
    BY Zenon DEF SetInited, EndOfRound
<1>2. inited' \in [Slots -> BOOLEAN]
    BY Zenon DEF SetInited, IndInv, TypeOK
<1> QED BY <1>1, <1>2, ServingStep, Zenon DEF SetInited, Serving, IndInv, TypeOK

\* A process that is over: killed before its hook, or reaped after it.
LEMMA DieEarlyInv ==
    ASSUME IndInv, NEW w \in Workers, DieEarly(w)
    PROVE  IndInv'
<1> USE DEF IndInv
<1>1. /\ pc' = [pc EXCEPT ![w] = "none"]
      /\ pdb' = [pdb EXCEPT ![w] = InvalidOid]
      /\ sigterm' = [sigterm EXCEPT ![w] = FALSE]
      /\ UNCHANGED <<slotVars, poolVars, isDynamicWorker, model, catVars, lauVars>>
      /\ Live(w)
    BY Zenon DEF DieEarly, ProcessOver, Goto, OutsideProcs, Live, Serving
<1>2. TypeOK'
    BY <1>1, Zenon DEF TypeOK, slotVars, poolVars, catVars, lauVars, schedVars
<1>3. /\ pc'[w] = "none"
      /\ \A v \in Workers : v # w => pc'[v] = pc[v] /\ pdb'[v] = pdb[v] /\ sigterm'[v] = sigterm[v]
    BY <1>1, Zenon DEF TypeOK
<1>4. UNCHANGED <<dbid, workerId, inUse, freeWorkers, dbEntry>>
    BY <1>1, Zenon DEF slotVars, poolVars
<1>5. PoolInv'
    BY <1>3, <1>4, ZenonT(40) DEF PoolInv, WorkerIsRegistered, SlotNamesItsWorker, LiveWorkerKeepsEntry,
                      Leaving, Running, Live, Serving
<1>6. ControlInv'
    BY <1>1, <1>3, <1>4, ControlStable, Zenon
<1> QED BY <1>2, <1>5, <1>6, Zenon

LEMMA ReapInv ==
    ASSUME IndInv, NEW w \in Workers, Reap(w)
    PROVE  IndInv'
<1> USE DEF IndInv
<1>1. /\ pc' = [pc EXCEPT ![w] = "none"]
      /\ UNCHANGED <<slotVars, poolVars, isDynamicWorker, model, catVars, lauVars, pdb, sigterm>>
      /\ ~Live(w)
    BY Zenon DEF Reap, Goto, OutsideProcs, Live, Serving
<1>2. TypeOK'
    BY <1>1, Zenon DEF TypeOK, slotVars, poolVars, catVars, lauVars, schedVars
<1>3. pc'[w] = "none" /\ \A v \in Workers : v # w => pc'[v] = pc[v]
    BY <1>1, Zenon DEF TypeOK
<1>4. UNCHANGED <<dbid, workerId, inUse, freeWorkers, dbEntry, pdb, sigterm>>
    BY <1>1, Zenon DEF slotVars, poolVars
<1>5. PoolInv'
    BY <1>3, <1>4, Zenon DEF PoolInv, WorkerIsRegistered, SlotNamesItsWorker, LiveWorkerKeepsEntry,
                      Leaving, Running, Live, Serving
<1>6. ControlInv'
    BY <1>1, <1>3, <1>4, ControlStable, Zenon
<1> QED BY <1>2, <1>5, <1>6, Zenon

LEMMA FreeWorkerOnExit1Inv ==
    ASSUME IndInv, NEW w \in Workers, FreeWorkerOnExit1(w)
    PROVE  IndInv'
<1> USE DEF IndInv
<1>1. /\ UnbindSlot(w)
      /\ pc' = [pc EXCEPT ![w] = "exit2"]
      /\ UNCHANGED <<poolVars, isDynamicWorker, model, catVars, lauVars, pdb, sigterm>>
      /\ Live(w)
    BY Zenon DEF FreeWorkerOnExit1, Goto, Live
<1>2. /\ pc'[w] = "exit2" /\ \A v \in Workers : v # w => pc'[v] = pc[v]
      /\ pc' \in [Workers -> Serving \cup {"exit1", "exit2", "gone", "none"}]
    BY <1>1, Zenon DEF TypeOK
<1>3. TypeOK'
    BY <1>1, <1>2, UnbindSlotEffect, Zenon DEF TypeOK, poolVars, catVars, lauVars, schedVars
<1>4. PoolInv'
    BY <1>1, <1>2, UnbindKeepsPool, Zenon
<1>5. ControlInv'
    <2>1. /\ UNCHANGED inUse
          /\ \A s \in Slots : workerId'[s] \in {workerId[s], NoWorker}
          /\ \A s \in Slots : workerId'[s] # workerId[s] => workerId[s] = w
        BY <1>1, UnbindSlotEffect, Zenon
    <2> QED BY <1>1, <1>2, <2>1, ControlStable, Zenon DEF poolVars
<1> QED BY <1>3, <1>4, <1>5, Zenon

LEMMA FreeWorkerOnExit2Inv ==
    ASSUME IndInv, NEW w \in Workers, FreeWorkerOnExit2(w)
    PROVE  IndInv'
<1> USE DEF IndInv
<1>1. /\ ReturnEntry(w)
      /\ pc' = [pc EXCEPT ![w] = "gone"]
      /\ pdb' = [pdb EXCEPT ![w] = InvalidOid]
      /\ sigterm' = [sigterm EXCEPT ![w] = FALSE]
      /\ UNCHANGED <<slotVars, isDynamicWorker, model, catVars, lauVars>>
      /\ Live(w)
    BY Zenon DEF FreeWorkerOnExit2, ProcessOver, Goto, Live
<1>2. /\ pc'[w] = "gone"
      /\ \A v \in Workers : v # w => pc'[v] = pc[v] /\ pdb'[v] = pdb[v] /\ sigterm'[v] = sigterm[v]
    BY <1>1, Zenon DEF TypeOK
<1>3. \A s \in Slots : workerId[s] # w
    BY Zenon DEF FreeWorkerOnExit2, PoolInv, Leaving
<1>4. UNCHANGED <<dbid, workerId, inUse>>
    BY <1>1, Zenon DEF slotVars
<1>5. /\ PoolInv'
      /\ freeWorkers' \in SUBSET Workers
      /\ dbEntry' \in [Workers -> Slots \cup {NoSlot}]
    BY <1>1, <1>2, <1>3, <1>4, ReturnEntryKeepsPool, Zenon DEF Serving
<1>6. TypeOK'
    BY <1>1, <1>5, Zenon DEF TypeOK, slotVars, catVars, lauVars, schedVars
<1>7. ControlInv'
    <2>1. /\ freeWorkers' \ {w} = freeWorkers \ {w}
          /\ \A v \in Workers : v # w => dbEntry'[v] = dbEntry[v]
        BY <1>1, Zenon DEF ReturnEntry, TypeOK
    <2> QED BY <1>1, <1>2, <1>4, <2>1, ControlStable, Zenon
<1> QED BY <1>5, <1>6, <1>7, Zenon

-----------------------------------------------------------------------------
(***************************************************************************)
(* The theorems.                                                           *)
(***************************************************************************)
\* The initial state, all entries free and no process, satisfies the invariant.
LEMMA InitInv == Init => IndInv
<1> SUFFICES ASSUME Init PROVE IndInv
    BY Zenon
<1>1. TypeOK
    <2>1. /\ dbid \in [Slots -> DBs \cup {InvalidOid}]
          /\ workerId \in [Slots -> Workers \cup {NoWorker}]
          /\ inited \in [Slots -> BOOLEAN] /\ inUse \in [Slots -> BOOLEAN]
          /\ due \in [Slots -> BOOLEAN]
          /\ model \in [Slots -> SUBSET (DBs \cup {InvalidOid})]
          /\ freeWorkers \in SUBSET Workers /\ isDynamicWorker \in BOOLEAN
          /\ dbEntry \in [Workers -> Slots \cup {NoSlot}]
        BY Zenon DEF Init
    <2>2. /\ pc \in [Workers -> Serving \cup {"exit1", "exit2", "gone", "none"}]
          /\ pdb \in [Workers -> DBs \cup {InvalidOid}]
          /\ sigterm \in [Workers -> BOOLEAN] /\ handle \in [Workers -> BOOLEAN]
        BY Zenon DEF Init
    <2>3. /\ exists \in SUBSET DBs /\ dbList \in SUBSET DBs /\ todo \in SUBSET DBs
          /\ lpc = "load" /\ curDB = NoSlot /\ curDBId = InvalidOid /\ advance = TRUE
          /\ tries = 0 /\ numDb = 0 /\ lw = NoWorker /\ request = InvalidOid /\ crashes = 0
        BY Zenon DEF Init
    <2> QED BY <2>1, <2>2, <2>3, LauncherAssumption DEF TypeOK, LauncherPc, MaxTries
<1>2. PoolInv
    BY Zenon DEF Init, PoolInv, WorkerIsRegistered, SlotNamesItsWorker, LiveWorkerKeepsEntry,
           Leaving, Running, Live, Serving
<1>3. ControlInv
    BY Zenon DEF Init, ControlInv, CurDbIsIdle, CurDbIsValid, Starting, TriesBounded,
           RequestPending, MaxTries
<1> QED BY <1>1, <1>2, <1>3, Zenon DEF IndInv

\* Every step preserves the invariant.
LEMMA NextInv == IndInv /\ [Next]_vars => IndInv'
<1> SUFFICES ASSUME IndInv, [Next]_vars PROVE IndInv'
    BY Zenon
<1>1. CASE LauncherStep
    BY <1>1, LoadInv, LoadDoneInv, PickInv, CreateTx2Inv, DropTx2Inv, CheckInv, NoFreeWorkerInv,
       TakeWorkerInv, AssignInv, RegisterInv, StartupInv, StartFailed1Inv, StartFailed2Inv,
       RestartInv, Zenon DEF LauncherStep
<1>2. CASE Message
    BY <1>2, CreateTx1Inv, DropTx1Inv, Zenon DEF Message
<1>3. CASE \E w \in Workers : WorkerStep(w) \/ DieEarly(w)
    BY <1>3, RegisterHookInv, ConnectInv, LoopHeadInv, RefreshInv, SetInitedInv,
       FreeWorkerOnExit1Inv, FreeWorkerOnExit2Inv, ReapInv, DieEarlyInv, Zenon DEF WorkerStep
<1>4. CASE Terminate \/ LauncherError \/ PostmasterReset
    BY <1>4, TerminateInv, LauncherErrorInv, PostmasterResetInv, Zenon
<1>5. CASE (\E s \in Slots : TimePasses(s)) \/ (\E d \in DBs : DropDatabase(d))
    BY <1>5, TimePassesInv, DropDatabaseInv, Zenon
<1>6. CASE UNCHANGED vars
    <2>1. UNCHANGED <<dbid, workerId, inited, inUse, due, freeWorkers, dbEntry, isDynamicWorker,
                      model, exists, dbList, lpc, curDB, curDBId, advance, tries, numDb, handle,
                      lw, request, todo, crashes, pc, pdb, sigterm>>
        BY <1>6, Zenon DEF vars, slotVars, poolVars, catVars, schedVars, procVars, lauVars
    <2>2. TypeOK'
        BY <2>1, Zenon DEF IndInv, TypeOK
    <2>3. PoolInv'
        BY <2>1, PoolStable, Zenon DEF IndInv, poolVars, procVars
    <2>4. ControlInv'
        BY <2>1, Zenon DEF IndInv, ControlInv, CurDbIsIdle, CurDbIsValid, Starting, TriesBounded,
                    RequestPending, Live
    <2> QED BY <2>2, <2>3, <2>4, Zenon DEF IndInv
<1> QED BY <1>1, <1>2, <1>3, <1>4, <1>5, <1>6, Zenon DEF Next

\* The invariant holds in every reachable state.
THEOREM PoolIsConsistent == Spec => []IndInv
BY InitInv, NextInv, PTL DEF Spec

\* Every variable of the launcher, the slots, the entries and the processes
\* keeps its type; in particular num_db never leaves 0 .. MaxDB and try_times
\* never passes its limit.
THEOREM TypeCorrect == Spec => []TypeOK
<1>1. IndInv => TypeOK
    BY Zenon DEF IndInv
<1> QED BY <1>1, PoolIsConsistent, PTL

\* disk_quota_worker_main, FreeWorker and release_db_entry: whatever fails,
\* restarts or is requested, a worker process that was not told to stop is the
\* registered worker of a slot in use for the database it is connected to.
THEOREM WorkersAreRegistered == Spec => []WorkerIsRegistered
<1>1. IndInv => WorkerIsRegistered
    BY Zenon DEF IndInv, PoolInv
<1> QED BY <1>1, PoolIsConsistent, PTL

\* start_worker and FreeWorker: a slot names only a worker whose entry is in
\* runningWorkers and points back to it.
THEOREM SlotsNameTheirWorkers == Spec => []SlotNamesItsWorker
<1>1. IndInv => SlotNamesItsWorker
    BY Zenon DEF IndInv, PoolInv
<1> QED BY <1>1, PoolIsConsistent, PTL

\* next_worker and start_worker's Failed path: no live process loses its entry
\* or finds a NULL dbEntry.
THEOREM LiveWorkersKeepEntries == Spec => []LiveWorkerKeepsEntry
<1>1. IndInv => LiveWorkerKeepsEntry
    BY Zenon DEF IndInv, PoolInv
<1> QED BY <1>1, PoolIsConsistent, PTL

-----------------------------------------------------------------------------
(***************************************************************************)
(* A launcher that never loses its local variables (MaxCrash = 0) knows a  *)
(* handle for every process: terminate_all_workers reaches each of them,   *)
(* and release_db_entry finds what it dereferences.                        *)
(***************************************************************************)
Handed ==
    /\ \A w \in Workers : Live(w) => handle[w]
    /\ \A s \in Slots : workerId[s] # NoWorker =>
           \/ handle[workerId[s]]
           \/ workerId[s] = lw /\ lpc \in {"register", "free1"}

\* What a step of a worker process leaves alone, and how a process ends.
LEMMA WorkerFrame ==
    ASSUME IndInv, NEW w \in Workers, WorkerStep(w) \/ DieEarly(w)
    PROVE  /\ UNCHANGED <<lauVars, dbid, inUse, isDynamicWorker, catVars>>
           /\ \A s \in Slots : workerId'[s] \in {workerId[s], NoWorker}
           /\ \A v \in Workers : Live(v)' => Live(v) /\ sigterm'[v] = sigterm[v]
           /\ freeWorkers \subseteq freeWorkers'
           /\ ~EarlyExit => \A v \in Workers : Live(v) => Live(v)' \/ v \in freeWorkers'
<1> USE DEF Goto
<1>0. /\ pc \in [Workers -> Serving \cup {"exit1", "exit2", "gone", "none"}]
      /\ sigterm \in [Workers -> BOOLEAN]
  BY Zenon DEF IndInv, TypeOK
<1>1. CASE RegisterHook(w) \/ Connect(w) \/ LoopHead(w)
  <2>1. UNCHANGED <<OutsideProcs, pdb, sigterm>> /\ Live(w)
    BY <1>1, Zenon DEF RegisterHook, Connect, LoopHead, Live, Serving
  <2>2. \E p \in Serving \cup {"exit1"} : pc' = [pc EXCEPT ![w] = p]
    BY <1>1, Zenon DEF RegisterHook, Connect, LoopHead, Serving, EndOfRound
  <2> QED
    BY <1>0, <2>1, <2>2, Zenon DEF OutsideProcs, slotVars, poolVars, Live
<1>2. CASE Refresh(w) \/ SetInited(w)
  <2>1. /\ UNCHANGED <<dbid, workerId, inUse, due, poolVars, isDynamicWorker, catVars, lauVars,
                       pdb, sigterm>>
        /\ Live(w)
    BY <1>2, Zenon DEF Refresh, SetInited, Live, Serving, slotVars
  <2>2. \E p \in Serving \cup {"exit1"} : pc' = [pc EXCEPT ![w] = p]
    BY <1>2, Zenon DEF Refresh, SetInited, Serving, EndOfRound
  <2> QED
    BY <1>0, <2>1, <2>2, Zenon DEF poolVars, Live
<1>3. CASE FreeWorkerOnExit1(w)
  <2>1. /\ UnbindSlot(w) /\ pc' = [pc EXCEPT ![w] = "exit2"] /\ pc[w] = "exit1"
        /\ UNCHANGED <<poolVars, isDynamicWorker, model, catVars, lauVars, pdb, sigterm>>
    BY <1>3, Zenon DEF FreeWorkerOnExit1
  <2>2. /\ UNCHANGED <<dbid, inUse>>
        /\ \A s \in Slots : workerId'[s] \in {workerId[s], NoWorker}
    BY <2>1, Zenon DEF UnbindSlot, IndInv, TypeOK
  <2> QED
    BY <1>0, <2>1, <2>2, Zenon DEF poolVars, Live
<1>4. CASE FreeWorkerOnExit2(w)
  <2>1. /\ pc' = [pc EXCEPT ![w] = "gone"] /\ sigterm' = [sigterm EXCEPT ![w] = FALSE]
        /\ freeWorkers' = freeWorkers \cup {w}
        /\ UNCHANGED <<slotVars, isDynamicWorker, model, catVars, lauVars>>
    BY <1>4, Zenon DEF FreeWorkerOnExit2, ReturnEntry, ProcessOver
  <2> QED
    BY <1>0, <2>1, Zenon DEF slotVars, Live, Serving
<1>5. CASE Reap(w)
  <2>1. /\ pc' = [pc EXCEPT ![w] = "none"] /\ pc[w] = "gone"
        /\ UNCHANGED <<OutsideProcs, pdb, sigterm>>
    BY <1>5, Zenon DEF Reap
  <2> QED
    BY <1>0, <2>1, Zenon DEF OutsideProcs, slotVars, poolVars, Live, Serving
<1>6. CASE DieEarly(w)
  <2>1. /\ pc' = [pc EXCEPT ![w] = "none"] /\ sigterm' = [sigterm EXCEPT ![w] = FALSE]
        /\ EarlyExit /\ UNCHANGED OutsideProcs
    BY <1>6, Zenon DEF DieEarly, ProcessOver
  <2> QED
    BY <1>0, <2>1, Zenon DEF OutsideProcs, slotVars, poolVars, Live, Serving
<1> QED
  BY <1>1, <1>2, <1>3, <1>4, <1>5, <1>6, Zenon DEF WorkerStep

\* What the steps of the launcher before and after start_worker leave alone.
LEMMA LauncherFrame ==
    ASSUME IndInv,
           \/ \E d \in DBs : Load(d) \/ CreateTx1(d) \/ DropTx1(d) \/ DropDatabase(d)
           \/ LoadDone \/ Pick \/ CreateTx2 \/ DropTx2 \/ Check \/ NoFreeWorker \/ Restart
           \/ \E s \in Slots : TimePasses(s)
    PROVE  /\ UNCHANGED <<handle, lw, pc, freeWorkers>>
           /\ \A s \in Slots : workerId'[s] \in {workerId[s], NoWorker}
           /\ \/ lpc' = lpc
              \/ /\ lpc \in {"load", "top", "wait", "tx2", "check", "take", "down"}
                 /\ lpc' \in {"load", "top", "wait", "tx2", "check", "take"}
           /\ \A w \in Workers : sigterm[w] => sigterm'[w]
<1> USE DEF slotVars, poolVars, catVars, lauVars, schedVars, procVars
<1>1. ASSUME NEW d \in DBs, Load(d) \/ CreateTx1(d) \/ DropTx1(d) \/ DropDatabase(d)
      PROVE  /\ UNCHANGED <<handle, lw, pc, freeWorkers, workerId, sigterm>>
             /\ lpc' = lpc \/ (lpc = "wait" /\ lpc' \in {"tx2", "check"})
  <2>1. CASE Load(d)
    BY <2>1, Zenon DEF Load, AddDbEntry
  <2>2. CASE CreateTx1(d)
    BY <2>2, Zenon DEF CreateTx1
  <2>3. CASE DropTx1(d)
    BY <2>3, Zenon DEF DropTx1
  <2>4. CASE DropDatabase(d)
    BY <2>4, Zenon DEF DropDatabase
  <2> QED
    BY <1>1, <2>1, <2>2, <2>3, <2>4, Zenon
<1>2. CASE LoadDone \/ Pick \/ Check \/ NoFreeWorker \/ Restart
  BY <1>2, Zenon DEF LoadDone, Pick, Check, NoFreeWorker, Restart
<1>3. CASE CreateTx2
  BY <1>3, Zenon DEF CreateTx2, AddDbEntry
<1>4. CASE DropTx2
  <2>1. /\ UNCHANGED <<handle, lw, pc, freeWorkers>> /\ lpc = "tx2" /\ lpc' = "check"
        /\ \/ UNCHANGED <<sigterm, workerId>>
           \/ ReleaseSlot(Lowest(SlotsOf(request.dbid)))
    BY <1>4, Zenon DEF DropTx2
  <2>2. ASSUME NEW s, ReleaseSlot(s)
        PROVE  /\ \A t \in Slots : workerId'[t] \in {workerId[t], NoWorker}
               /\ \A w \in Workers : sigterm[w] => sigterm'[w]
    BY <2>2, Zenon DEF ReleaseSlot, IndInv, TypeOK
  <2> QED
    BY <2>1, <2>2, Zenon
<1>5. CASE \E s \in Slots : TimePasses(s)
  BY <1>5, Zenon DEF TimePasses
<1> QED
  BY <1>1, <1>2, <1>3, <1>4, <1>5, Zenon

\* The handles are known, and stay known.
LEMMA HandedNext ==
    ASSUME MaxCrash = 0, IndInv, Handed, [Next]_vars
    PROVE  Handed'
<1> USE LauncherAssumption
<1>0. NoWorker \notin Workers /\ workerId \in [Slots -> Workers \cup {NoWorker}]
      /\ handle \in [Workers -> BOOLEAN]
  BY DEF NoWorker, Workers, IndInv, TypeOK
<1>1. ASSUME UNCHANGED handle, \A w \in Workers : Live(w)' => Live(w),
             \A s \in Slots : workerId'[s] \in {workerId[s], NoWorker},
             lpc \in {"register", "free1"} => lpc' = lpc /\ lw' = lw
      PROVE  Handed'
  BY <1>1, Zenon DEF Handed
<1>2. CASE \/ \E d \in DBs : Load(d) \/ CreateTx1(d) \/ DropTx1(d) \/ DropDatabase(d)
           \/ LoadDone \/ Pick \/ CreateTx2 \/ DropTx2 \/ Check \/ NoFreeWorker \/ Restart
           \/ \E s \in Slots : TimePasses(s)
  BY <1>1, <1>2, LauncherFrame, Zenon DEF Live
<1>3. ASSUME NEW w \in Workers, WorkerStep(w) \/ DieEarly(w) PROVE Handed'
  BY <1>1, <1>3, WorkerFrame, Zenon DEF lauVars
<1>4. CASE (\E w \in Workers : TakeWorker(w)) \/ Startup \/ StartFailed2 \/ Terminate
  BY <1>1, <1>4, Zenon DEF TakeWorker, Startup, StartFailed2, Terminate, slotVars, procVars, Live
<1>5. CASE Assign
  <2>1. /\ lpc' = "register" /\ lw' = lw /\ lw \in Workers /\ pc' = pc
        /\ handle' = [handle EXCEPT ![lw] = FALSE]
        /\ workerId' = [workerId EXCEPT ![curDB] = lw] /\ curDB \in Slots
        /\ ~Live(lw) /\ dbEntry[lw] = NoSlot
    BY <1>5, Zenon DEF Assign, IndInv, TypeOK, ControlInv, Starting, CurDbIsValid, procVars
  <2>2. \A s \in Slots : workerId[s] # lw
    BY <2>1 DEF IndInv, PoolInv, SlotNamesItsWorker, Slots, NoSlot, NoWorker, Workers
  <2>3. \A w \in Workers : Live(w)' => handle'[w]
    BY <1>0, <2>1, Zenon DEF Handed, Live
  <2>4. ASSUME NEW s \in Slots, workerId'[s] # NoWorker
        PROVE  \/ handle'[workerId'[s]]
               \/ workerId'[s] = lw' /\ lpc' \in {"register", "free1"}
    BY <1>0, <1>5, <2>1, <2>2, <2>4 DEF Handed, Assign
  <2> QED
    BY <2>3, <2>4, Zenon DEF Handed
<1>6. CASE Register
  <2>1. /\ lpc = "register" /\ UNCHANGED <<workerId, lw>> /\ lw \in Workers
    BY <1>6, Zenon DEF Register, slotVars, IndInv, TypeOK, ControlInv, Starting
  <2>2. CASE lpc' = "startup"
    <3>1. handle' = [handle EXCEPT ![lw] = TRUE] /\ pc' = [pc EXCEPT ![lw] = "forked"]
      BY <1>6, <2>2, Zenon DEF Register
    <3>2. \A w \in Workers \ {lw} : Live(w)' => Live(w)
      BY <3>1, Zenon DEF Live, IndInv, TypeOK
    <3> QED
      BY <1>0, <2>1, <3>1, <3>2, Zenon DEF Handed
  <2>3. CASE lpc' = "free1"
    <3>1. UNCHANGED <<handle, pc>>
      BY <1>6, <2>3, Zenon DEF Register, procVars
    <3> QED
      BY <2>1, <2>3, <3>1, Zenon DEF Handed, Live
  <2> QED
    BY <1>6, <2>2, <2>3, Zenon DEF Register
<1>7. CASE StartFailed1
  <2>1. UNCHANGED <<handle, pc, lw>> /\ lpc' = "free2"
    BY <1>7, Zenon DEF StartFailed1, procVars
  <2>2. Starting'
    BY <1>7, StartFailed1Inv, Zenon DEF IndInv, ControlInv
  <2>3. \A s \in Slots : workerId'[s] \in {workerId[s], NoWorker} /\ workerId'[s] # lw
    BY <1>7, <2>1, <2>2 DEF StartFailed1, UnbindSlot, Starting, IndInv, TypeOK
  <2> QED
    BY <2>1, <2>3, Zenon DEF Handed, Live
<1>8. CASE LauncherError
  BY <1>8 DEF LauncherError, IndInv, TypeOK
<1>9. CASE PostmasterReset
  BY <1>9, Zenon DEF PostmasterReset, Handed, Live, Serving
<1>10. CASE UNCHANGED vars
  BY <1>1, <1>10, Zenon DEF vars, lauVars, slotVars, procVars, Live
<1> QED
  BY <1>2, <1>3, <1>4, <1>5, <1>6, <1>7, <1>8, <1>9, <1>10, Zenon DEF Next, LauncherStep, Message

\* "When launcher exits, it should also terminate all the workers"
\* (terminate_all_workers): when the launcher has exited on SIGTERM, every
\* process that is still there has been told to stop, unless an earlier
\* launcher ended by an error and its handles with it.
THEOREM ExitStopsWorkersAlways ==
    ASSUME MaxCrash = 0 PROVE Spec => []ExitStopsWorkers
<1>1. Init => Handed /\ ExitStopsWorkers
  BY Zenon DEF Init, Handed, Live, Serving, ExitStopsWorkers
<1>2. ASSUME IndInv, Handed, ExitStopsWorkers, [Next]_vars PROVE ExitStopsWorkers'
  <2>1. CASE lpc' # "exited"
    BY <2>1, Zenon DEF ExitStopsWorkers
  <2>2. CASE Terminate
    <3>1. sigterm' = [w \in Workers |-> sigterm[w] \/ Terminable(w)] /\ pc' = pc
      BY <2>2, Zenon DEF Terminate
    <3>2. \A w \in Workers : Live(w) => Terminable(w)
      BY <1>2, Zenon DEF Handed, Terminable, IndInv, PoolInv, LiveWorkerKeepsEntry
    <3> QED
      BY <3>1, <3>2, Zenon DEF ExitStopsWorkers, Live
  <2>3. CASE lpc = "exited" /\ lpc' = "exited"
    <3>1. ASSUME NEW w \in Workers, WorkerStep(w) \/ DieEarly(w) PROVE ExitStopsWorkers'
      BY <1>2, <2>3, <3>1, WorkerFrame, Zenon DEF ExitStopsWorkers
    <3>2. CASE UNCHANGED <<pc, sigterm>>
      BY <1>2, <2>3, <3>2, Zenon DEF ExitStopsWorkers, Live
    <3>3. CASE \/ \E d \in DBs : DropDatabase(d)
               \/ \E s \in Slots : TimePasses(s)
      BY <3>2, <3>3, Zenon DEF DropDatabase, TimePasses, procVars
    <3>4. CASE UNCHANGED vars
      BY <3>2, <3>4, Zenon DEF vars, procVars
    <3>5. ~(LauncherStep \/ Message \/ Terminate \/ LauncherError \/ PostmasterReset)
      BY <2>3, Zenon DEF LauncherStep, Message, Terminate, LauncherError, PostmasterReset, Load,
         LoadDone, Pick, CreateTx2, DropTx2, Check, NoFreeWorker, TakeWorker, Assign, Register,
         Startup, StartFailed1, StartFailed2, Restart, CreateTx1, DropTx1
    <3> QED
      BY <1>2, <3>1, <3>3, <3>4, <3>5, Zenon DEF Next
  <2>4. CASE lpc # "exited" /\ lpc' = "exited"
    <3>1. \/ \E d \in DBs : Load(d) \/ CreateTx1(d) \/ DropTx1(d) \/ DropDatabase(d)
          \/ LoadDone \/ Pick \/ CreateTx2 \/ DropTx2 \/ Check \/ NoFreeWorker \/ Restart
          \/ \E s \in Slots : TimePasses(s)
          => FALSE
      BY <1>2, <2>4, LauncherFrame, Zenon
    <3>2. \A w \in Workers : WorkerStep(w) \/ DieEarly(w) => FALSE
      BY <1>2, <2>4, WorkerFrame, Zenon DEF lauVars
    <3>3. \/ \E w \in Workers : TakeWorker(w)
          \/ Assign \/ Register \/ Startup \/ StartFailed1 \/ StartFailed2
          \/ LauncherError \/ PostmasterReset
          => FALSE
      BY <2>4, Zenon DEF TakeWorker, Assign, Register, Startup, StartFailed1, StartFailed2,
         LauncherError, PostmasterReset
    <3>4. UNCHANGED vars => FALSE
      BY <2>4, Zenon DEF vars, lauVars
    <3> QED
      BY <1>2, <2>2, <3>1, <3>2, <3>3, <3>4, Zenon DEF Next, LauncherStep, Message
  <2> QED
    BY <2>1, <2>3, <2>4, Zenon
<1>3. IndInv /\ Handed /\ [Next]_vars => Handed'
  BY HandedNext, Zenon
<1> QED
  BY <1>1, <1>2, <1>3, PoolIsConsistent, PTL DEF Spec

(***************************************************************************)
(* NoEntryLeaks is not inductive: the entry in the launcher's hands must   *)
(* be the only one, and a process the launcher waits for must still be     *)
(* there or have returned its entry.                                       *)
(***************************************************************************)
StartPcs == {"assign", "register", "startup", "free1", "free2"}

Pooled ==
    /\ NoEntryLeaks
    /\ lpc \notin StartPcs => lw = NoWorker
    /\ lpc = "startup" => Live(lw) \/ lw \in freeWorkers

\* FreeWorker, next_worker and start_worker: no worker entry is lost, however
\* forks, connections and refreshes fail and whatever is requested, as long as
\* every process lives to register its exit hook and no launcher ends by an
\* error.
THEOREM NoEntryLeaksAlways ==
    ASSUME ~EarlyExit, MaxCrash = 0 PROVE Spec => []NoEntryLeaks
<1> USE LauncherAssumption
<1>1. Init => Pooled
  BY Zenon DEF Init, Pooled, NoEntryLeaks, StartPcs
<1>2. ASSUME IndInv, Pooled, [Next]_vars PROVE Pooled'
  <2>0. /\ NoWorker \notin Workers /\ lw \in Workers \cup {NoWorker}
        /\ pc \in [Workers -> Serving \cup {"exit1", "exit2", "gone", "none"}]
        /\ lpc \in LauncherPc
    BY <1>2 DEF NoWorker, Workers, IndInv, TypeOK
  <2>1. ASSUME UNCHANGED <<pc, lw, freeWorkers>>, lpc' = lpc PROVE Pooled'
    BY <1>2, <2>1, Zenon DEF Pooled, NoEntryLeaks, Live
  <2>2. ASSUME UNCHANGED <<pc, lw, freeWorkers>>, lpc \notin StartPcs, lpc' \notin StartPcs
        PROVE  Pooled'
    BY <1>2, <2>0, <2>2, Zenon DEF Pooled, NoEntryLeaks, Live, StartPcs
  <2>3. CASE \/ \E d \in DBs : Load(d) \/ CreateTx1(d) \/ DropTx1(d) \/ DropDatabase(d)
             \/ LoadDone \/ Pick \/ CreateTx2 \/ DropTx2 \/ Check \/ NoFreeWorker \/ Restart
             \/ \E s \in Slots : TimePasses(s)
    BY <1>2, <2>1, <2>2, <2>3, LauncherFrame, Zenon DEF StartPcs
  <2>4. ASSUME NEW w \in Workers, WorkerStep(w) \/ DieEarly(w) PROVE Pooled'
    <3>1. /\ UNCHANGED <<lpc, lw>> /\ freeWorkers \subseteq freeWorkers'
          /\ \A v \in Workers : Live(v) => Live(v)' \/ v \in freeWorkers'
      BY <1>2, <2>4, WorkerFrame, Zenon DEF lauVars
    <3>2. lpc = "startup" => lw \in Workers
      BY <1>2, <2>0, Zenon DEF IndInv, ControlInv, Starting
    <3> QED
      BY <1>2, <3>1, <3>2, Zenon DEF Pooled, NoEntryLeaks
  <2>5. CASE Terminate
    BY <2>2, <2>5, Zenon DEF Terminate, StartPcs, poolVars
  <2>6. ASSUME NEW w \in Workers, TakeWorker(w) PROVE Pooled'
    BY <1>2, <2>0, <2>6, Zenon DEF TakeWorker, Pooled, NoEntryLeaks, StartPcs, procVars, Live, LauncherPc
  <2>7. CASE Assign
    BY <1>2, <2>0, <2>7, Zenon DEF Assign, Pooled, NoEntryLeaks, StartPcs, procVars, Live, LauncherPc
  <2>8. CASE Register
    <3>1. /\ lpc = "register" /\ lpc' \in {"startup", "free1"} /\ UNCHANGED <<lw, freeWorkers>>
          /\ lw \in Workers
      BY <1>2, <2>0, <2>8, Zenon DEF Register, poolVars, IndInv, ControlInv, Starting
    <3>2. \/ lpc' = "startup" /\ pc' = [pc EXCEPT ![lw] = "forked"]
          \/ lpc' = "free1" /\ pc' = pc
      BY <2>8, Zenon DEF Register, procVars
    <3>3. \A v \in Workers : Live(v) => Live(v)'
      BY <2>0, <3>1, <3>2, Zenon DEF Live, Serving
    <3>4. lpc' = "startup" => Live(lw)'
      BY <2>0, <3>1, <3>2, Zenon DEF Live, Serving
    <3> QED
      BY <1>2, <3>1, <3>3, <3>4, Zenon DEF Pooled, NoEntryLeaks, StartPcs, LauncherPc
  <2>9. CASE Startup
    <3>1. /\ lpc = "startup" /\ UNCHANGED <<pc, freeWorkers>>
          /\ \/ lpc' = "free1" /\ lw' = lw
             \/ lpc' = "top" /\ lw' = NoWorker
      BY <2>9, Zenon DEF Startup, poolVars, procVars
    <3> QED
      BY <1>2, <3>1, Zenon DEF Pooled, NoEntryLeaks, StartPcs, LauncherPc, Live
  <2>10. CASE StartFailed1
    BY <1>2, <2>10, Zenon DEF StartFailed1, Pooled, NoEntryLeaks, StartPcs, LauncherPc, poolVars, procVars, Live
  <2>11. CASE StartFailed2
    BY <1>2, <2>11, Zenon DEF StartFailed2, ReturnEntry, Pooled, NoEntryLeaks, StartPcs, procVars, Live
  <2>12. CASE LauncherError
    BY <1>2, <2>12 DEF LauncherError, IndInv, TypeOK
  <2>13. CASE PostmasterReset
    BY <2>13, Zenon DEF PostmasterReset, NoLauncherState, Pooled, NoEntryLeaks
  <2>14. CASE UNCHANGED vars
    BY <2>1, <2>14, Zenon DEF vars, lauVars, poolVars, procVars
  <2> QED
    BY <1>2, <2>3, <2>4, <2>5, <2>6, <2>7, <2>8, <2>9, <2>10, <2>11, <2>12, <2>13, <2>14, Zenon
       DEF Next, LauncherStep, Message
<1>3. Pooled => NoEntryLeaks
  BY Zenon DEF Pooled
<1> QED
  BY <1>1, <1>2, <1>3, PoolIsConsistent, PTL DEF Spec

-----------------------------------------------------------------------------
(***************************************************************************)
(* The books: num_db, database_list, the slots and the scheduling mode.    *)
(***************************************************************************)
Monitored == {dbid[s] : s \in UsedSlots}

\* With one slot per database there are as many slots in use as databases.
LEMMA UsedAreMonitored ==
    ASSUME TypeOK, UniqueSlot
    PROVE  /\ IsFiniteSet(Monitored) /\ Cardinality(Monitored) = Cardinality(UsedSlots)
           /\ Cardinality(Monitored) \in Nat
           /\ Cardinality(Monitored) < MaxDB => FreeSlots # {}
<1> USE LauncherAssumption
<1> DEFINE b == [s \in UsedSlots |-> dbid[s]]
<1>1. IsFiniteSet(Slots) /\ Cardinality(Slots) = MaxDB
  <2>1. 0 \in Int /\ MaxDB - 1 \in Int /\ ~(0 > MaxDB - 1) /\ MaxDB - 1 - 0 + 1 = MaxDB
    OBVIOUS
  <2> QED
    BY <2>1, FS_Interval, Zenon DEF Slots
<1>2. IsFiniteSet(UsedSlots)
  BY <1>1, FS_Subset, Zenon DEF UsedSlots
<1>3. b \in [UsedSlots -> Monitored]
  BY Zenon DEF Monitored
<1>4. b \in Injection(UsedSlots, Monitored)
  BY <1>3, Zenon DEF UniqueSlot, Injection, IsInjective
<1>5. b \in Surjection(UsedSlots, Monitored)
  BY <1>3, Zenon DEF Surjection, Monitored
<1>6. ExistsBijection(UsedSlots, Monitored)
  BY <1>4, <1>5, Zenon DEF ExistsBijection, Bijection
<1>7. IsFiniteSet(Monitored) /\ Cardinality(Monitored) = Cardinality(UsedSlots)
  BY <1>2, <1>6, FS_Bijection, Zenon
<1>8. FreeSlots = {} => UsedSlots = Slots
  BY Zenon DEF FreeSlots, UsedSlots
<1> QED
  BY <1>1, <1>7, <1>8, FS_CardinalityType

\* add_db_entry gives a database without a slot one, when there is room.
LEMMA AddDbEntryBooks ==
    ASSUME TypeOK, UniqueSlot, NEW d \in DBs, d \notin Monitored,
           Cardinality(Monitored) < MaxDB, AddDbEntry(d)
    PROVE  TakesFreeSlot(d) /\ UniqueSlot' /\ Monitored' = Monitored \cup {d}
<1> DEFINE s == Lowest(FreeSlots)
<1>1. SlotsOf(d) = {}
  BY Zenon DEF SlotsOf, Monitored, UsedSlots
<1>2. FreeSlots # {} /\ TakesFreeSlot(d)
  BY <1>1, UsedAreMonitored, Zenon DEF TakesFreeSlot
<1>3. s \in Slots /\ ~inUse[s]
  BY <1>2, LowestIn, Zenon DEF FreeSlots
<1>4. dbid' = [dbid EXCEPT ![s] = d] /\ inUse' = [inUse EXCEPT ![s] = TRUE]
  BY <1>2, Zenon DEF AddDbEntry
<1> HIDE DEF s
<1>5. /\ UsedSlots' = UsedSlots \cup {s} /\ s \notin UsedSlots /\ dbid'[s] = d
      /\ \A t \in UsedSlots : dbid'[t] = dbid[t]
  BY <1>3, <1>4, Zenon DEF UsedSlots, TypeOK
<1>6. UniqueSlot'
  BY <1>5 DEF UniqueSlot, Monitored
<1>7. Monitored' = Monitored \cup {d}
  BY <1>5, Zenon DEF Monitored
<1> QED
  BY <1>2, <1>6, <1>7, Zenon

\* release_db_entry takes the slot, and with it the database.
LEMMA ReleaseSlotBooks ==
    ASSUME TypeOK, UniqueSlot, NEW s \in UsedSlots, ReleaseSlot(s)
    PROVE  UniqueSlot' /\ Monitored' = Monitored \ {dbid[s]}
<1>1. dbid' = [dbid EXCEPT ![s] = InvalidOid] /\ inUse' = [inUse EXCEPT ![s] = FALSE]
  BY Zenon DEF ReleaseSlot
<1>2. /\ UsedSlots' = UsedSlots \ {s}
      /\ \A t \in UsedSlots \ {s} : dbid'[t] = dbid[t]
  BY <1>1, Zenon DEF UsedSlots, TypeOK
<1>3. UniqueSlot'
  BY <1>2, Zenon DEF UniqueSlot
<1>4. Monitored' = Monitored \ {dbid[s]}
  BY <1>2, Zenon DEF Monitored, UniqueSlot
<1> QED
  BY <1>3, <1>4, Zenon

(***************************************************************************)
(* While the list is loaded and while a request is half done, the books    *)
(* differ by what is still to be entered.                                  *)
(***************************************************************************)
Books ==
    /\ IsFiniteSet(dbList) /\ Cardinality(dbList) <= MaxDB
    /\ UniqueSlot
    /\ lpc # "down"
    /\ lpc = "load" =>
         /\ todo \subseteq dbList /\ Monitored = dbList \ todo
         /\ numDb = Cardinality(Monitored) /\ ~isDynamicWorker
    /\ lpc # "load" => numDb = Cardinality(dbList)
    /\ lpc \notin {"load", "tx2"} =>
         Monitored = dbList /\ (isDynamicWorker <=> numDb > MaxWorkers)
    /\ lpc = "tx2" /\ request.cmd = "create" =>
         /\ request.dbid \in dbList /\ Monitored = dbList \ {request.dbid}
         /\ isDynamicWorker <=> numDb - 1 > MaxWorkers
    /\ lpc = "tx2" /\ request.cmd = "drop" =>
         /\ request.dbid \notin dbList /\ Monitored = dbList \cup {request.dbid}
         /\ isDynamicWorker <=> numDb + 1 > MaxWorkers

\* Steps that leave the books alone.
LEMMA BooksFrame ==
    ASSUME Books, UNCHANGED <<dbid, inUse, dbList, numDb, isDynamicWorker>>,
           \/ UNCHANGED <<lpc, todo, request>>
           \/ {lpc, lpc'} \cap {"load", "tx2", "down"} = {}
    PROVE  Books'
BY ZenonT(40) DEF Books, UniqueSlot, UsedSlots, Monitored

\* init_database_list: every row gets a slot.
LEMMA LoadBooks ==
    ASSUME IndInv, Books, NEW d \in DBs, Load(d), lpc = "load" => dbList \subseteq exists
    PROVE  Books'
<1>1. /\ lpc = "load" /\ d \in todo /\ numDb < MaxDB /\ todo' = todo \ {d} /\ AddDbEntry(d)
      /\ numDb' = IF TakesFreeSlot(d) \/ SlotsOf(d) # {} THEN numDb + 1 ELSE numDb
      /\ UNCHANGED <<dbList, isDynamicWorker, lpc, request>>
  BY Zenon DEF Load, Books, catVars
<1>2. d \notin Monitored /\ Cardinality(Monitored) < MaxDB /\ TypeOK
  BY <1>1, Zenon DEF Books, IndInv
<1>3. TakesFreeSlot(d) /\ UniqueSlot' /\ Monitored' = Monitored \cup {d}
  BY <1>1, <1>2, AddDbEntryBooks, Zenon DEF Books
<1>4. Cardinality(Monitored \cup {d}) = Cardinality(Monitored) + 1
  BY <1>2, UsedAreMonitored, FS_AddElement, Zenon DEF Books
<1> QED
  BY <1>1, <1>3, <1>4, Zenon DEF Books

\* The list is complete: at the limit nothing is left to load.
LEMMA LoadDoneBooks ==
    ASSUME IndInv, Books, LoadDone
    PROVE  Books'
<1>1. /\ lpc = "load" /\ lpc' = "top" /\ (todo = {} \/ numDb = MaxDB) /\ todo' = {}
      /\ isDynamicWorker' = (isDynamicWorker \/ numDb > MaxWorkers)
      /\ UNCHANGED <<dbid, inUse, dbList, numDb>>
  BY Zenon DEF LoadDone, catVars, slotVars
<1>2. UniqueSlot' /\ Monitored' = Monitored
  BY <1>1, Zenon DEF Books, UniqueSlot, UsedSlots, Monitored
<1>3. Monitored = dbList
  <2>1. CASE todo = {}
    BY <1>1, <2>1, Zenon DEF Books
  <2>2. CASE numDb = MaxDB
    <3>1. Monitored \in SUBSET dbList /\ Cardinality(Monitored) = MaxDB
      BY <1>1, <2>2, Zenon DEF Books
    <3>2. Cardinality(dbList) \in Nat /\ Cardinality(Monitored) <= Cardinality(dbList)
      BY <3>1, FS_CardinalityType, FS_Subset, Zenon DEF Books
    <3>3. Cardinality(dbList) = Cardinality(Monitored)
      BY <3>1, <3>2, LauncherAssumption DEF Books
    <3> QED
      BY <3>1, <3>3, FS_Subset, Zenon DEF Books
  <2> QED
    BY <1>1, <2>1, <2>2, Zenon
<1> QED
  BY <1>1, <1>2, <1>3, Zenon DEF Books

\* The catalog half of CREATE EXTENSION, under the limit.
LEMMA CreateTx1Books ==
    ASSUME WellFormed, IndInv, Books, NEW d \in DBs, CreateTx1(d)
    PROVE  Books'
<1>1. /\ lpc = "wait" /\ d \notin dbList
      /\ UNCHANGED <<dbid, inUse, isDynamicWorker>>
  BY Zenon DEF CreateTx1, slotVars
<1>2. CASE lpc' = "tx2"
  <2>1. /\ numDb < MaxDB /\ dbList' = dbList \cup {d} /\ numDb' = numDb + 1
        /\ request' = [cmd |-> "create", dbid |-> d]
    BY <1>2, Zenon DEF CreateTx1
  <2>2. /\ IsFiniteSet(dbList') /\ Cardinality(dbList') = Cardinality(dbList) + 1
    BY <1>1, <2>1, FS_AddElement, Zenon DEF Books
  <2>3. UniqueSlot' /\ Monitored' = Monitored /\ numDb = Cardinality(dbList) /\ numDb \in Nat
    BY <1>1 DEF Books, UniqueSlot, UsedSlots, Monitored, IndInv, TypeOK
  <2>4. request'.cmd = "create" /\ request'.dbid = d
    BY <2>1, Zenon
  <2>5. /\ Cardinality(dbList') <= MaxDB /\ numDb' = Cardinality(dbList')
        /\ isDynamicWorker' <=> numDb' - 1 > MaxWorkers
    BY <1>1, <2>1, <2>2, <2>3, LauncherAssumption DEF Books
  <2> QED
    BY <1>1, <1>2, <2>1, <2>2, <2>3, <2>4, <2>5, Zenon DEF Books
<1>3. CASE lpc' = "check"
  BY <1>1, <1>3, BooksFrame, Zenon DEF CreateTx1
<1> QED
  BY <1>2, <1>3, Zenon DEF CreateTx1

\* The catalog half of DROP EXTENSION.
LEMMA DropTx1Books ==
    ASSUME WellFormed, IndInv, Books, NEW d \in DBs, DropTx1(d)
    PROVE  Books'
<1>1. /\ lpc = "wait" /\ d \in dbList
      /\ UNCHANGED <<dbid, inUse, isDynamicWorker>>
  BY Zenon DEF DropTx1, slotVars
<1>2. CASE lpc' = "tx2"
  <2>1. /\ dbList' = dbList \ {d} /\ request' = [cmd |-> "drop", dbid |-> d]
        /\ numDb' = IF numDb > 0 THEN numDb - 1 ELSE numDb
    BY <1>2, Zenon DEF DropTx1
  <2>2. /\ IsFiniteSet(dbList') /\ Cardinality(dbList') = Cardinality(dbList) - 1
        /\ Cardinality(dbList') \in Nat
    BY <1>1, <2>1, FS_RemoveElement, FS_CardinalityType, Zenon DEF Books
  <2>3. UniqueSlot' /\ Monitored' = Monitored /\ numDb = Cardinality(dbList) /\ numDb \in Nat
    BY <1>1 DEF Books, UniqueSlot, UsedSlots, Monitored, IndInv, TypeOK
  <2>4. request'.cmd = "drop" /\ request'.dbid = d
    BY <2>1, Zenon
  <2>5. /\ Cardinality(dbList') <= MaxDB /\ numDb' = Cardinality(dbList')
        /\ isDynamicWorker' <=> numDb' + 1 > MaxWorkers
    BY <1>1, <2>1, <2>2, <2>3, LauncherAssumption DEF Books
  <2>6. Monitored' = dbList' \cup {d} /\ d \notin dbList'
    BY <1>1, <2>1, <2>3, Zenon DEF Books
  <2> QED
    BY <1>1, <1>2, <2>2, <2>3, <2>4, <2>5, <2>6, Zenon DEF Books
<1>3. CASE lpc' = "check"
  BY <1>1, <1>3, BooksFrame, Zenon DEF DropTx1
<1> QED
  BY <1>2, <1>3, Zenon DEF DropTx1

\* The shared-memory half of CREATE EXTENSION finds room for the entry.
LEMMA CreateTx2Books ==
    ASSUME IndInv, Books, CreateTx2
    PROVE  Books'
<1> DEFINE d == request.dbid
<1>1. /\ lpc = "tx2" /\ request.cmd = "create" /\ AddDbEntry(d) /\ lpc' = "check"
      /\ isDynamicWorker' = (isDynamicWorker \/ numDb > MaxWorkers)
      /\ UNCHANGED <<dbList, numDb>>
  BY Zenon DEF CreateTx2, catVars
<1>2. d \in DBs /\ numDb \in Nat /\ TypeOK
  BY <1>1 DEF IndInv, ControlInv, RequestPending, Requests, TypeOK
<1>3. d \in dbList /\ Monitored = dbList \ {d} /\ (isDynamicWorker <=> numDb - 1 > MaxWorkers)
  BY <1>1, Zenon DEF Books
<1> HIDE DEF d
<1>4. Cardinality(Monitored) = Cardinality(dbList) - 1 /\ Cardinality(dbList) \in Nat
  BY <1>3, FS_RemoveElement, FS_CardinalityType, Zenon DEF Books
<1>5. UniqueSlot' /\ Monitored' = dbList
  <2>1. Cardinality(Monitored) < MaxDB /\ d \notin Monitored
    BY <1>3, <1>4, LauncherAssumption DEF Books
  <2>2. UniqueSlot' /\ Monitored' = Monitored \cup {d}
    BY <1>1, <1>2, <2>1, AddDbEntryBooks, Zenon DEF Books
  <2> QED
    BY <1>3, <2>2, Zenon
<1>6. isDynamicWorker' <=> numDb' > MaxWorkers
  <2>1. numDb - 1 > MaxWorkers => numDb > MaxWorkers
    BY <1>2, LauncherAssumption
  <2>2. numDb' > MaxWorkers <=> numDb > MaxWorkers
    BY <1>1, Zenon
  <2> QED
    BY <1>1, <1>3, <2>1, <2>2, Zenon
<1> QED
  BY <1>1, <1>5, <1>6, Zenon DEF Books

\* The shared-memory half of DROP EXTENSION finds the entry.
LEMMA DropTx2Books ==
    ASSUME IndInv, Books, DropTx2
    PROVE  Books'
<1> DEFINE d == request.dbid
<1>1. /\ lpc = "tx2" /\ request.cmd = "drop" /\ lpc' = "check"
      /\ SlotsOf(d) # {} => ReleaseSlot(Lowest(SlotsOf(d)))
      /\ isDynamicWorker' = (isDynamicWorker /\ numDb > MaxWorkers)
      /\ UNCHANGED <<dbList, numDb>>
  BY Zenon DEF DropTx2, catVars
<1>2. numDb \in Nat /\ TypeOK
  BY DEF IndInv, TypeOK
<1>3. d \notin dbList /\ Monitored = dbList \cup {d} /\ (isDynamicWorker <=> numDb + 1 > MaxWorkers)
  BY <1>1, Zenon DEF Books
<1> HIDE DEF d
<1>4. SlotsOf(d) # {}
  BY <1>3, Zenon DEF SlotsOf, Monitored, UsedSlots
<1>5. Lowest(SlotsOf(d)) \in SlotsOf(d)
  BY <1>4, LowestIn, Zenon DEF SlotsOf
<1>6. Lowest(SlotsOf(d)) \in UsedSlots /\ dbid[Lowest(SlotsOf(d))] = d
  BY <1>5, Zenon DEF SlotsOf, UsedSlots
<1>7. UniqueSlot' /\ Monitored' = Monitored \ {d}
  BY <1>1, <1>2, <1>4, <1>6, ReleaseSlotBooks, Zenon DEF Books
<1>8. isDynamicWorker' <=> numDb' > MaxWorkers
  <2>1. numDb > MaxWorkers => numDb + 1 > MaxWorkers
    BY <1>2, LauncherAssumption
  <2>2. numDb' > MaxWorkers <=> numDb > MaxWorkers
    BY <1>1, Zenon
  <2> QED
    BY <1>1, <1>3, <2>1, <2>2, Zenon
<1> QED
  BY <1>1, <1>3, <1>7, <1>8, Zenon DEF Books

\* Every step keeps the books; the steps of a launcher error cannot happen.
LEMMA BooksNext ==
    ASSUME WellFormed, MaxCrash = 0, IndInv, Handed, Books, [Next]_vars,
           lpc = "load" => dbList \subseteq exists
    PROVE  Books'
<1> USE DEF slotVars, catVars, lauVars, schedVars
<1>1. CASE Message
  BY <1>1, CreateTx1Books, DropTx1Books, Zenon DEF Message
<1>2. CASE (\E d \in DBs : Load(d)) \/ LoadDone \/ CreateTx2 \/ DropTx2
  BY <1>2, LoadBooks, LoadDoneBooks, CreateTx2Books, DropTx2Books, Zenon
<1>3. CASE \E w \in Workers : WorkerStep(w) \/ DieEarly(w)
  BY <1>3, WorkerFrame, BooksFrame, Zenon
<1>4. CASE (\E d \in DBs : DropDatabase(d)) \/ (\E s \in Slots : TimePasses(s))
  <2>1. UNCHANGED <<dbid, inUse, dbList, numDb, isDynamicWorker, lpc, todo, request>>
    BY <1>4, Zenon DEF DropDatabase, TimePasses
  <2> QED
    BY <2>1, BooksFrame, Zenon
<1>5. CASE \/ Pick \/ Check \/ NoFreeWorker \/ (\E w \in Workers : TakeWorker(w))
           \/ Assign \/ Register \/ Startup \/ StartFailed1 \/ StartFailed2 \/ Terminate
  <2>1. /\ UNCHANGED <<dbid, inUse, dbList, numDb, isDynamicWorker>>
        /\ lpc \in LauncherPc \ {"load", "tx2", "down"}
        /\ lpc' \in LauncherPc \ {"load", "tx2", "down"}
    BY <1>5, Zenon DEF Pick, Check, NoFreeWorker, TakeWorker, Assign, Register, Startup,
       StartFailed1, StartFailed2, Terminate, UnbindSlot, LauncherPc
  <2> QED
    BY <2>1, BooksFrame, Zenon
<1>6. ~Restart /\ ~LauncherError
  BY LauncherAssumption DEF Books, Restart, LauncherError, IndInv, TypeOK
<1>7. ~PostmasterReset
  <2> SUFFICES ASSUME PostmasterReset PROVE FALSE
    BY Zenon
  <2>1. PICK s \in SlotsOf(request.dbid) : ~ReleaseIsSafe(s)
    BY Zenon DEF PostmasterReset
  <2>2. lpc = "tx2" /\ s \in Slots
    BY Zenon DEF PostmasterReset, SlotsOf
  <2> QED
    BY <2>1, <2>2, Zenon DEF Handed, ReleaseIsSafe
<1>8. CASE UNCHANGED vars
  BY <1>8, BooksFrame, Zenon DEF vars
<1> QED
  BY <1>1, <1>2, <1>3, <1>4, <1>5, <1>6, <1>7, <1>8, Zenon DEF Next, LauncherStep

\* Before the list is read nothing is entered anywhere.
LEMMA InitBooks == Init => Books
<1> SUFFICES ASSUME Init PROVE Books
  BY Zenon
<1>1. /\ UsedSlots = {} /\ Monitored = {} /\ dbList \ todo = {}
      /\ lpc = "load" /\ ~isDynamicWorker /\ numDb = 0 /\ todo \subseteq dbList
      /\ IsFiniteSet(dbList) /\ Cardinality(dbList) <= MaxDB
  BY Zenon DEF Init, UsedSlots, Monitored
<1> QED
  BY <1>1, FS_EmptySet, Zenon DEF Books, UniqueSlot

\* The books are kept along every behaviour in which requests alternate, the
\* launcher meets no uncaught error and the list it loads names only databases
\* that exist.
LEMMA BooksKept ==
    ASSUME WellFormed, MaxCrash = 0
    PROVE  Spec /\ [](lpc = "load" => dbList \subseteq exists) => [](IndInv /\ Books)
<1>1. Init => Books /\ Handed
  BY InitBooks, Zenon DEF Init, Handed, Live, Serving
<1>2. ASSUME IndInv, Handed, Books, [Next]_vars, lpc = "load" => dbList \subseteq exists
      PROVE  Books'
  BY <1>2, BooksNext, Zenon
<1>3. IndInv /\ Handed /\ [Next]_vars => Handed'
  BY HandedNext, Zenon
<1> QED
  BY <1>1, <1>2, <1>3, PoolIsConsistent, PTL DEF Spec

\* Whenever no request is half done, num_db, database_list, the slots in use
\* and the scheduling mode agree (process_extension_ddl_message), along the
\* same behaviours.
THEOREM BooksAgreeAlways ==
    ASSUME WellFormed, MaxCrash = 0
    PROVE  Spec /\ [](lpc = "load" => dbList \subseteq exists) => []BooksAgree
<1>1. ASSUME IndInv, Books PROVE BooksAgree
  <2>1. Cardinality(Monitored) = Cardinality(UsedSlots)
    BY <1>1, UsedAreMonitored, Zenon DEF IndInv, Books
  <2> QED
    BY <1>1, <2>1, Zenon DEF Books, BooksAgree, Monitored
<1> QED
  BY <1>1, BooksKept, PTL

\* UniqueSlot along the same behaviours: "if there is already dbEntry's dbid
\* equals dbid, returning the existing one" (add_db_entry) is true as long as
\* the books agree.  With repeated requests it is not.
THEOREM UniqueSlotWhileBooksAgree ==
    ASSUME WellFormed, MaxCrash = 0
    PROVE  Spec /\ [](lpc = "load" => dbList \subseteq exists) => []UniqueSlot
<1>1. Books => UniqueSlot
  BY Zenon DEF Books
<1> QED
  BY <1>1, BooksKept, PTL

\* When nothing fails no database is dropped behind the launcher's back, and
\* the books agree without a further condition.
THEOREM BooksAgreeWhenNothingFails ==
    ASSUME WellFormed, MaxCrash = 0, ~MayFail
    PROVE  Spec => []BooksAgree
<1> DEFINE NoneDropped == exists = DBs
<1>1. Init => NoneDropped
  BY Zenon DEF Init
<1>2. ASSUME NoneDropped, IndInv, [Next]_vars PROVE NoneDropped'
  <2> USE DEF catVars
  <2>1. exists' = exists
    <3>1. CASE \E w \in Workers : WorkerStep(w) \/ DieEarly(w)
      BY <1>2, <3>1, WorkerFrame, Zenon
    <3>2. CASE LauncherStep
      BY <3>2, Zenon DEF LauncherStep, Load, LoadDone, Pick, CreateTx2, DropTx2, Check,
         NoFreeWorker, TakeWorker, Assign, Register, Startup, StartFailed1, StartFailed2, Restart
    <3>3. CASE Message \/ Terminate \/ LauncherError \/ PostmasterReset
      BY <3>3, Zenon DEF Message, CreateTx1, DropTx1, Terminate, LauncherError, PostmasterReset
    <3>4. CASE (\E s \in Slots : TimePasses(s)) \/ (\E d \in DBs : DropDatabase(d))
      BY <3>4, Zenon DEF TimePasses, DropDatabase
    <3>5. CASE UNCHANGED vars
      BY <3>5, Zenon DEF vars
    <3> QED
      BY <1>2, <3>1, <3>2, <3>3, <3>4, <3>5, Zenon DEF Next
  <2> QED
    BY <1>2, <2>1, Zenon
<1>3. NoneDropped /\ IndInv => (lpc = "load" => dbList \subseteq exists)
  BY Zenon DEF IndInv, TypeOK
<1> HIDE DEF NoneDropped
<1>4. Spec /\ [](lpc = "load" => dbList \subseteq exists) => []BooksAgree
  BY BooksAgreeAlways, Zenon
<1> QED
  BY <1>1, <1>2, <1>3, <1>4, PoolIsConsistent, PTL DEF Spec

=============================================================================
