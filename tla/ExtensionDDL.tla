---------------------------- MODULE ExtensionDDL ----------------------------
(***************************************************************************)
(* The message by which CREATE and DROP EXTENSION reach the launcher       *)
(* (diskquota_start_worker and diskquota_stop_worker in                    *)
(* src/src/diskquota_utility.c, process_extension_ddl_message in           *)
(* src/src/diskquota.c).                                                   *)
(*                                                                         *)
(* There is one message in shared memory.  A requester takes               *)
(* extension_ddl_lock, writes its request, signals the launcher and polls  *)
(* for the result a bounded number of times.  The launcher copies the      *)
(* message, runs two transactions and writes the whole message anew with   *)
(* the result.  The workers that serve the slots are the module Launcher;  *)
(* here is who gets a slot.                                                *)
(***************************************************************************)
EXTENDS Integers, FiniteSets, SequencesExt

CONSTANTS
    DBs,            \* databases whose sessions create and drop the extension
    Requesters,     \* the sessions
    MaxDB,          \* diskquota_max_monitored_databases
    Polls,          \* WAIT_TIME_COUNT
    MayFail,        \* can SQL fail, can a session's transaction abort?
    MaxRequests,    \* bound: requests in a behaviour
    MaxCrash        \* bound: ends of the launcher

NoOne  == 0         \* req_pid 0: no request in the message
NoProc == "NULL"    \* nobody holds extension_ddl_lock
NoDb   == "free"    \* the database of a slot that is not in use

ASSUME DDLAssumption ==
    /\ MaxDB \in Nat \ {0}
    /\ Polls \in Nat \ {0}
    /\ MaxRequests \in Nat
    /\ MaxCrash \in Nat
    /\ MayFail \in BOOLEAN
    /\ DBs # {}
    /\ NoProc \notin Requesters
    /\ NoDb \notin DBs

VARIABLES
    \* extension_ddl_message; req is the number of the request it holds and
    \* of (not in the code) that of the request the result belongs to
    msg,
    lock,           \* holder of extension_ddl_lock
    rq,             \* requesters
    sent,           \* number of requests sent, their identities
    \* the launcher: process (0 when there is none), control point,
    \* got_sigusr2, local copy of the message, result code, num_db, and
    \* whether the second transaction was left open by an error
    lpid, lpc, sig, local, code, numDb, open,
    dbList,         \* diskquota_namespace.database_list
    slots,          \* the database of each slot in use of dbArray
    adopted,        \* slots whose worker's handle is not known
    ext,            \* databases in which the extension is installed
    crashes,
    told,           \* what a session of each database was told last
    unsure,         \* databases whose last request was not answered and followed
    upset           \* has that, or a restart over a gap, ever happened?

reqVars == <<msg, lock, rq, sent>>
lauVars == <<lpid, lpc, sig, local, code, numDb, open>>
catVars == <<dbList, slots, adopted>>
ghosts  == <<told, unsure, upset>>
vars == <<reqVars, lauVars, catVars, ext, crashes, ghosts>>

Commands == {"create", "drop"}
Results  == {"ERR_PENDING", "ERR_OK", "ERR_EXCEED", "ERR_ADD_TO_DB", "ERR_DEL_FROM_DB",
             "ERR_INVALID_DBID", "ERR_UNKNOWN"}
Ids      == 1 .. MaxRequests
Pids     == 1 .. MaxCrash + 1
Slots    == 1 .. MaxDB
Fates    == {"waiting", "done", "refused", "lost"}

\* Between taking and releasing extension_ddl_lock.
Waiting == {"check", "read", "final"}

\* The launcher is in process_extension_ddl_message.
Busy == {"tx1", "tx2", "answer"}

TypeOK ==
    /\ msg \in [req : Ids \cup {NoOne}, cmd : Commands, dbid : DBs, result : Results,
                launcher : Pids \cup {0}, of : Ids \cup {NoOne}]
    /\ lock \in Requesters \cup {NoProc}
    /\ rq \in [Requesters -> [pc : Waiting \cup {"idle", "lock", "commit", "strayed"},
                              cmd : Commands, dbid : DBs, id : Ids \cup {NoOne},
                              left : 0 .. Polls, target : Pids \cup {0}, fate : Fates]]
    /\ sent \in 0 .. MaxRequests
    /\ lpid \in Pids \cup {0}
    /\ lpc \in Busy \cup {"idle", "down"}
    /\ sig \in BOOLEAN
    /\ local \in [id : Ids \cup {NoOne}, cmd : Commands, dbid : DBs]
    /\ code \in Results
    /\ numDb \in 0 .. MaxDB
    /\ open \in BOOLEAN
    /\ dbList \in SUBSET DBs
    /\ slots \in [Slots -> DBs \cup {NoDb}]
    /\ adopted \in SUBSET Slots
    /\ ext \in SUBSET DBs
    /\ crashes \in 0 .. MaxCrash
    /\ told \in [DBs -> {"none", "ok", "error"}]
    /\ unsure \in SUBSET DBs
    /\ upset \in BOOLEAN

AnyDb == CHOOSE d \in DBs : TRUE
Blank(pid, result, of) ==
    [req |-> NoOne, cmd |-> "create", dbid |-> AnyDb, result |-> result,
     launcher |-> pid, of |-> of]
IdleRequester ==
    [pc |-> "idle", cmd |-> "create", dbid |-> AnyDb, id |-> NoOne, left |-> 0,
     target |-> 0, fate |-> "waiting"]
NoRequest == [id |-> NoOne, cmd |-> "create", dbid |-> AnyDb]

Holds(s, d) == {i \in Slots : s[i] = d}

\* Mutant: the slot the database has already is not looked for.
AddDbEntryAnyFree(s, d) ==
    LET free == Holds(s, NoDb)
    IN  IF free = {} THEN s ELSE [s EXCEPT ![Min(free)] = d]

\* The first free slot is taken unless a slot before it is d's.
AddDbEntry(s, d) ==
    LET free == {i \in Holds(s, NoDb) : \A j \in Holds(s, d) : i < j}
    IN  IF free = {} THEN s ELSE [s EXCEPT ![Min(free)] = d]

\* The loop of init_database_list over the rows, in the order they come.
InitDatabaseList(s, rows) ==
    LET Load(b, d) ==
            LET t == AddDbEntry(b.slots, d)
            IN  IF b.num >= MaxDB \/ Holds(t, d) = {} THEN b
                ELSE [slots |-> t, num |-> b.num + 1]
    IN  FoldLeft(Load, [slots |-> s, num |-> 0], rows)

\* The launcher has started and loaded its list, nobody has asked anything.
Init ==
    /\ ext \in {D \in SUBSET DBs : Cardinality(D) <= MaxDB}
    /\ dbList = ext
    /\ \E rows \in SetToSeqs(dbList) :
          slots = InitDatabaseList([i \in Slots |-> NoDb], rows).slots
    /\ adopted = {}
    /\ numDb = Cardinality(ext)
    /\ msg = Blank(1, "ERR_PENDING", NoOne)
    /\ lock = NoProc
    /\ rq = [r \in Requesters |-> IdleRequester]
    /\ sent = 0
    /\ lpid = 1
    /\ lpc = "idle"
    /\ sig = FALSE
    /\ local = NoRequest
    /\ code = "ERR_UNKNOWN"
    /\ open = FALSE
    /\ crashes = 0
    /\ told = [d \in DBs |-> "none"]
    /\ unsure = {}
    /\ upset = FALSE

-----------------------------------------------------------------------------
(***************************************************************************)
(* Requesters.  pc "lock" is before LWLockAcquire(extension_ddl_lock),     *)
(* "check" before the existence check of a poll, "read" before its look at *)
(* the result, "final" after the loop, "commit" after the function has     *)
(* returned ("strayed": with an answer to another request).                *)
(***************************************************************************)
Goto(r, p) == rq' = [rq EXCEPT ![r].pc = p]

\* CREATE EXTENSION in a database without it, DROP EXTENSION in one with it.
\* The server runs one of them at a time in a database.
Start(r, d) ==
    /\ rq[r].pc = "idle"
    /\ \A q \in Requesters : rq[q].pc # "idle" => rq[q].dbid # d
    /\ sent + Cardinality({q \in Requesters : rq[q].pc = "lock"}) < MaxRequests
    /\ rq' = [rq EXCEPT ![r] = [IdleRequester EXCEPT
                                  !.pc = "lock", !.dbid = d,
                                  !.cmd = IF d \in ext THEN "drop" ELSE "create"]]
    /\ UNCHANGED <<msg, lock, sent, lauVars, catVars, ext, crashes, ghosts>>

\* Mutant: the result of the request before is left in the message.
WriteKeepingResult(r, n) ==
    msg' = [msg EXCEPT !.req = n, !.cmd = rq[r].cmd, !.dbid = rq[r].dbid]

\* The fields are written under extension_ddl_message_lock.
Write(r, n) ==
    msg' = [msg EXCEPT !.req = n, !.cmd = rq[r].cmd, !.dbid = rq[r].dbid,
                       !.result = "ERR_PENDING", !.of = NoOne]

\* kill() finds the process; for pid 0 it signals the caller itself.
Exists(pid) == pid \in {0, lpid}

\* kill(launcher_pid, SIGUSR2) fails when the process is gone, and then
\* nobody waits.
Send(r) ==
    /\ rq[r].pc = "lock"
    /\ lock = NoProc
    /\ lock' = r
    /\ sent' = sent + 1
    /\ Write(r, sent + 1)
    /\ sig' = (sig \/ (lpid # 0 /\ lpid = msg.launcher))
    /\ rq' = [rq EXCEPT ![r].pc = IF Exists(msg.launcher) THEN "check" ELSE "final",
                        ![r].id = sent + 1, ![r].left = Polls, ![r].target = msg.launcher,
                        ![r].fate = "waiting"]
    /\ UNCHANGED <<lpid, lpc, local, code, numDb, open, catVars, ext, crashes, ghosts>>

\* The request of r has been answered, or another's answer was put over it.
Answered(r) == msg.of = rq[r].id

Unsettled(D) ==
    /\ unsure' = unsure \cup D
    /\ upset' = (upset \/ D # {})

Release(r, t, settled) ==
    /\ lock' = NoProc
    /\ told' = [told EXCEPT ![rq[r].dbid] = t]
    /\ Unsettled(IF settled THEN {} ELSE {rq[r].dbid})

\* An error ends the session's transaction.
Leave(r, settled) ==
    /\ Release(r, "error", settled)
    /\ rq' = [rq EXCEPT ![r] = IdleRequester]

\* One turn of the loop: the session is cancelled (CHECK_FOR_INTERRUPTS), or
\* the launcher must still exist.
CheckLauncher(r) ==
    /\ rq[r].pc = "check"
    /\ \/ /\ MayFail \/ ~Exists(rq[r].target)
          /\ Leave(r, FALSE)
       \/ /\ Exists(rq[r].target)
          /\ Goto(r, "read")
          /\ UNCHANGED <<lock, ghosts>>
    /\ UNCHANGED <<msg, sent, lauVars, catVars, ext, crashes>>

\* Mutant: the polls are not counted.
ReadResultForever(r) ==
    /\ rq[r].pc = "read"
    /\ Goto(r, IF msg.result # "ERR_PENDING" THEN "final" ELSE "check")
    /\ UNCHANGED <<msg, lock, sent, lauVars, catVars, ext, crashes, ghosts>>

ReadResult(r) ==
    /\ rq[r].pc = "read"
    /\ rq' = [rq EXCEPT ![r].pc = IF msg.result # "ERR_PENDING" \/ rq[r].left = 1
                                  THEN "final" ELSE "check",
                        ![r].left = @ - 1]
    /\ UNCHANGED <<msg, lock, sent, lauVars, catVars, ext, crashes, ghosts>>

Final(r) ==
    /\ rq[r].pc = "final"
    /\ IF msg.result = "ERR_OK"
       THEN /\ Release(r, "ok", Answered(r))
            /\ rq' = [rq EXCEPT ![r].pc = IF Answered(r) THEN "commit" ELSE "strayed"]
       ELSE Leave(r, Answered(r))
    /\ UNCHANGED <<msg, sent, lauVars, catVars, ext, crashes>>

\* The session's transaction goes on after the answer and may still abort.
Commit(r) ==
    /\ rq[r].pc \in {"commit", "strayed"}
    /\ rq' = [rq EXCEPT ![r] = IdleRequester]
    /\ \/ /\ ext' = IF rq[r].cmd = "create" THEN ext \cup {rq[r].dbid}
                                            ELSE ext \ {rq[r].dbid}
          /\ unsure' = IF rq[r].pc = "commit" THEN unsure \ {rq[r].dbid} ELSE unsure
          /\ UNCHANGED upset
       \/ /\ MayFail
          /\ Unsettled({rq[r].dbid})
          /\ UNCHANGED ext
    /\ UNCHANGED <<msg, lock, sent, lauVars, catVars, crashes, told>>

-----------------------------------------------------------------------------
(***************************************************************************)
(* The launcher.                                                           *)
(***************************************************************************)
\* A second transaction that failed is not aborted, so the launcher cannot
\* start another: it ends before it comes here again.
Receive ==
    /\ lpc = "idle"
    /\ sig
    /\ ~open
    /\ sig' = FALSE
    /\ IF msg.req = NoOne \/ msg.launcher # lpid
       THEN UNCHANGED <<lpc, local, code>>
       ELSE /\ local' = [id |-> msg.req, cmd |-> msg.cmd, dbid |-> msg.dbid]
            /\ lpc' = "tx1"
            /\ code' = "ERR_UNKNOWN"
    /\ UNCHANGED <<reqVars, lpid, numDb, open, catVars, ext, crashes, ghosts>>

IsMine(r, n) == rq[r].pc \in Waiting /\ rq[r].id = n
Settle(f) ==
    rq' = [r \in Requesters |-> IF IsMine(r, local.id) THEN [rq[r] EXCEPT !.fate = f]
                                                      ELSE rq[r]]

\* Mutant: the code is OK until something else is known.
RefusedAsOk(c) ==
    /\ code' = "ERR_OK"
    /\ lpc' = "answer"
    /\ Settle("refused")
    /\ UNCHANGED <<dbList, numDb>>

Refused(c) ==
    /\ code' = c
    /\ lpc' = "answer"
    /\ Settle("refused")
    /\ UNCHANGED <<dbList, numDb>>

Carried(L, n) ==
    /\ dbList' = L
    /\ numDb' = n
    /\ code' = "ERR_OK"
    /\ lpc' = "tx2"
    /\ Settle("done")

\* on_add_db and num_db++, on_del_db and num_db--, each in one transaction.  A
\* database that is on the list already is counted again.
AddDb ==
    /\ local.cmd = "create"
    /\ \/ /\ numDb >= MaxDB
          /\ Refused("ERR_EXCEED")
       \/ /\ numDb < MaxDB
          /\ \/ Carried(dbList \cup {local.dbid}, numDb + 1)
             \/ /\ MayFail
                /\ \E c \in {"ERR_INVALID_DBID", "ERR_ADD_TO_DB", "ERR_UNKNOWN"} : Refused(c)

DelDb ==
    /\ local.cmd = "drop"
    /\ \/ Carried(dbList \ {local.dbid}, IF numDb > 0 THEN numDb - 1 ELSE numDb)
       \/ /\ MayFail
          /\ \E c \in {"ERR_INVALID_DBID", "ERR_DEL_FROM_DB", "ERR_UNKNOWN"} : Refused(c)

Tx1 ==
    /\ lpc = "tx1"
    /\ AddDb \/ DelDb
    /\ UNCHANGED <<msg, lock, sent, lpid, sig, local, open, slots, adopted, ext, crashes,
                   ghosts>>

\* add_db_entry or release_db_entry (the first slot that holds the database),
\* then update_monitor_db_mpp, which runs SQL and whose error is swallowed.
Tx2 ==
    /\ lpc = "tx2"
    /\ lpc' = "answer"
    /\ IF local.cmd = "create"
       THEN /\ slots' = AddDbEntry(slots, local.dbid)
            /\ UNCHANGED adopted
       ELSE IF Holds(slots, local.dbid) = {} THEN UNCHANGED <<slots, adopted>>
       ELSE /\ slots' = [slots EXCEPT ![Min(Holds(slots, local.dbid))] = NoDb]
            /\ adopted' = adopted \ {Min(Holds(slots, local.dbid))}
    /\ open' \in IF MayFail /\ crashes < MaxCrash THEN BOOLEAN ELSE {FALSE}
    /\ UNCHANGED <<reqVars, lpid, sig, local, code, numDb, dbList, ext, crashes, ghosts>>

\* The whole message is written anew.  A request that came in the meantime is
\* wiped out, and its requester finds this answer.
Answer ==
    /\ lpc = "answer"
    /\ lpc' = "idle"
    /\ msg' = Blank(lpid, code, local.id)
    /\ rq' = [r \in Requesters |->
                 IF rq[r].pc \in Waiting /\ rq[r].id # local.id /\ rq[r].fate = "waiting"
                 THEN [rq[r] EXCEPT !.fate = "lost"] ELSE rq[r]]
    /\ local' = NoRequest
    /\ UNCHANGED <<lock, sent, lpid, sig, code, numDb, open, catVars, ext, crashes, ghosts>>

(***************************************************************************)
(* Ends and starts of the launcher.  An ERROR outside PG_TRY ends it: in   *)
(* the main loop, in the commit of the first transaction, before or after  *)
(* the row is durable, or before the answer is written.                    *)
(***************************************************************************)
LauncherGone ==
    /\ crashes < MaxCrash
    /\ crashes' = crashes + 1
    /\ lpid' = 0
    /\ lpc' = "down"
    /\ sig' = FALSE
    /\ open' = FALSE
    /\ local' = NoRequest
    /\ code' = "ERR_UNKNOWN"

LauncherError ==
    /\ lpc # "down"
    /\ LauncherGone
    /\ UNCHANGED <<reqVars, numDb, catVars, ext, ghosts>>

\* Without the handle of a registered worker release_db_entry reads a NULL
\* pointer, and the postmaster restarts all of the coordinator's processes.
PostmasterReset ==
    /\ lpc = "tx2"
    /\ local.cmd = "drop"
    /\ Holds(slots, local.dbid) # {}
    /\ Min(Holds(slots, local.dbid)) \in adopted
    /\ LauncherGone
    /\ msg' = Blank(0, "ERR_PENDING", NoOne)
    /\ lock' = NoProc
    /\ rq' = [r \in Requesters |-> IdleRequester]
    /\ slots' = [i \in Slots |-> NoDb]
    /\ adopted' = {}
    /\ Unsettled({rq[r].dbid : r \in {q \in Requesters :
                                                   rq[q].pc \notin {"idle", "lock"}}})
    /\ UNCHANGED <<sent, numDb, dbList, ext, told>>

\* The next launcher process: its pid goes into the message, and
\* init_database_list gives slots to listed databases.  A database above a
\* free slot gets a second one.
Restart ==
    /\ lpc = "down"
    /\ lpid' = crashes + 1
    /\ lpc' = "idle"
    /\ msg' = [msg EXCEPT !.launcher = crashes + 1]
    /\ adopted' = Slots \ Holds(slots, NoDb)
    /\ \E rows \in SetToSeqs(dbList) :
          /\ slots' = InitDatabaseList(slots, rows).slots
          /\ numDb' = InitDatabaseList(slots, rows).num
    /\ upset' = (upset \/ \E i, j \in Slots : i < j /\ slots[i] = NoDb /\ slots[j] # NoDb)
    /\ UNCHANGED <<lock, rq, sent, sig, local, code, open, dbList, ext, crashes, told, unsure>>

-----------------------------------------------------------------------------
Requester(r) == Send(r) \/ CheckLauncher(r) \/ ReadResult(r) \/ Final(r) \/ Commit(r)
LauncherStep == Receive \/ Tx1 \/ Tx2 \/ Answer \/ Restart

Next ==
    \/ \E r \in Requesters, d \in DBs : Start(r, d)
    \/ \E r \in Requesters : Requester(r)
    \/ LauncherStep
    \/ LauncherError
    \/ PostmasterReset

Spec == Init /\ [][Next]_vars

\* Sessions and the launcher run; nobody must ask, fail or crash.
FairSpec == Spec /\ WF_vars(LauncherStep) /\ \A r \in Requesters : WF_vars(Requester(r))

-----------------------------------------------------------------------------
(***************************************************************************)
(* Properties.                                                             *)
(***************************************************************************)
\* The requester of a database that has written its request.
Asking(d) == {r \in Requesters : rq[r].pc \in Waiting /\ rq[r].dbid = d}
TheOne(d) == CHOOSE r \in Asking(d) : TRUE
Mine(n)   == \E r \in Requesters : IsMine(r, n)

\* The launcher handles, or has been signalled for, a request nobody waits for.
Abandoned ==
    \/ lpc \in Busy /\ ~Mine(local.id)
    \/ sig /\ msg.req # NoOne /\ ~Mine(msg.req)

Asked  == [d \in DBs |-> IF Asking(d) = {} THEN "none" ELSE rq[TheOne(d)].cmd]
FateOf == [d \in DBs |-> IF Asking(d) = {} THEN "waiting" ELSE rq[TheOne(d)].fate]

Service == INSTANCE RequestService WITH
    listed <- dbList, asked <- Asked, fate <- FateOf, late <- Abandoned

\* A requester is told "done" only if the launcher's first transaction has
\* carried its own request out, or an answer to a request whose requester
\* had left was written over it (process_extension_ddl_message writes the
\* whole message).  Nothing is carried out twice, and nothing that nobody
\* asked for.
ImplementsService == Service!ServiceSpec

\* What the holder r of the lock can rely on: the message has its request or
\* none, the launcher works on it or not at all, and no answer is in the
\* message before the launcher is through with it.
HolderSees(r) ==
    /\ rq[r].id = sent /\ sent # NoOne
    /\ msg.req \in {NoOne, sent}
    /\ msg.req = sent => /\ msg.cmd = rq[r].cmd
                         /\ msg.dbid = rq[r].dbid
                         /\ msg.result = "ERR_PENDING"
                         /\ sig => rq[r].fate = "waiting"
    /\ lpc \in Busy /\ local.id = sent =>
           /\ local.cmd = rq[r].cmd
           /\ local.dbid = rq[r].dbid
           /\ msg.result = "ERR_PENDING"
           /\ ~sig
           /\ rq[r].fate = CASE lpc = "tx1" -> "waiting"
                              [] lpc = "tx2" -> "done"
                              [] lpc = "answer" -> IF code = "ERR_OK" THEN "done" ELSE "refused"
    /\ lpc \in Busy /\ local.id # sent => rq[r].fate = "waiting"
    /\ msg.result = "ERR_OK" => rq[r].fate \in {"done", "lost"}

\* extension_ddl_lock admits one requester, and it sees no answer but its own
\* or a late one (diskquota_start_worker, process_extension_ddl_message).
HolderIsAlone ==
    /\ \A r \in Requesters : rq[r].pc \in Waiting <=> lock = r
    /\ \A r \in Requesters : lock = r => HolderSees(r)

\* Where the last request was answered to its own requester and followed by
\* the session's commit, the launcher's list says whether the extension is
\* installed (on_add_db, on_del_db).
ExtensionIsListed ==
    \A d \in DBs \ unsure :
        (/\ \A r \in Requesters : rq[r].pc # "idle" => rq[r].dbid # d
         /\ local.id # NoOne => local.dbid # d)
        => (d \in ext <=> d \in dbList)

\* As long as every request was answered and followed, and no launcher
\* restarted over a gap in the slots, num_db counts the list and every listed
\* database has one slot, across errors and restarts of the launcher (num_db,
\* add_db_entry, release_db_entry, init_database_list).
BooksFollowList ==
    ~upset /\ lpc = "idle" /\ lock = NoProc =>
        /\ numDb = Cardinality(dbList)
        /\ \A d \in DBs : Cardinality(Holds(slots, d)) = IF d \in dbList THEN 1 ELSE 0

\* A session that creates or drops the extension gets an answer or an error,
\* whatever becomes of the launcher: the wait is bounded and the lock freed
\* (diskquota_start_worker, diskquota_stop_worker).
RequestEnds ==
    \A r \in Requesters : rq[r].pc = "lock" ~> rq[r].pc = "idle"
=============================================================================
