------------------------- MODULE ExtensionDDLProofs -------------------------
(***************************************************************************)
(* Proofs about ExtensionDDL: for any number of databases, sessions,       *)
(* polls, requests and crashes, the message protocol implements            *)
(* RequestService.                                                         *)
(***************************************************************************)
EXTENDS ExtensionDDL, TLAPS

MsgType == [req : Nat, cmd : Commands, dbid : DBs, result : Results,
            launcher : Nat, of : Nat]
LocalType == [id : Nat, cmd : Commands, dbid : DBs]
RqType == [pc : Waiting \cup {"idle", "lock", "commit", "strayed"},
           cmd : Commands, dbid : DBs, id : Nat,
           left : Int, target : Nat, fate : Fates]

\* The types the proof needs.  num_db and the slots play no part in it.
Typed ==
    /\ msg \in MsgType
    /\ lock \in Requesters \cup {NoProc}
    /\ rq \in [Requesters -> RqType]
    /\ sent \in Nat
    /\ lpid \in Nat
    /\ lpc \in Busy \cup {"idle", "down"}
    /\ sig \in BOOLEAN
    /\ local \in LocalType
    /\ code \in Results
    /\ dbList \in SUBSET DBs
    /\ crashes \in Nat
    /\ told \in [DBs -> {"none", "ok", "error"}]
    /\ msg.req <= sent
    /\ local.id <= sent
    /\ lpc = "tx2" => code = "ERR_OK"

IndInv == Typed /\ HolderIsAlone

\* AnyDb, with which blank records are filled, is a database.
LEMMA AnyDbIsDb == AnyDb \in DBs
  BY DDLAssumption, Zenon DEF AnyDb

\* A requester without a request has the type of one.
LEMMA IdleTyped ==
  IdleRequester \in RqType
  BY AnyDbIsDb DEF IdleRequester, Commands, Fates, NoOne, RqType

\* The initial state of the protocol satisfies the invariant.
LEMMA InitInv == Init => IndInv
  <1> SUFFICES ASSUME Init PROVE IndInv
    BY Zenon
  <1>3. msg \in MsgType /\ msg.req = 0
    BY AnyDbIsDb, Zenon DEF Init, Blank, Commands, Results, NoOne, MsgType
  <1>4. local \in LocalType /\ local.id = 0
    BY AnyDbIsDb, Zenon DEF Init, NoRequest, Commands, NoOne, LocalType
  <1>5. dbList \in SUBSET DBs
    BY Zenon DEF Init
  <1>6. rq = [q \in Requesters |-> IdleRequester] /\ told = [d \in DBs |-> "none"]
    BY Zenon DEF Init
  <1>7. /\ lock = NoProc /\ sent = 0 /\ lpid = 1 /\ lpc = "idle"
        /\ code = "ERR_UNKNOWN" /\ crashes = 0
    BY Zenon DEF Init
  <1>8. sig \in BOOLEAN
    BY Zenon DEF Init
  <1>1. Typed
    BY <1>3, <1>4, <1>5, <1>6, <1>7, <1>8, IdleTyped DEF Typed, Results, Busy
  <1>2. HolderIsAlone
    BY DDLAssumption, Zenon DEF Init, HolderIsAlone, IdleRequester, Waiting
  <1> QED
    BY <1>1, <1>2, Zenon DEF IndInv

\* What a session does outside the lock does not concern the holder.
LEMMA Bystander ==
  ASSUME IndInv, NEW r \in Requesters,
         rq[r].pc \notin Waiting, rq'[r].pc \notin Waiting,
         \A q \in Requesters : q # r => rq'[q] = rq[q],
         UNCHANGED <<msg, lock, sent, lpc, sig, local, code>>
  PROVE  HolderIsAlone'
  <1>1. ASSUME NEW q \in Requesters, lock' = q PROVE HolderSees(q)'
    <2>1. q # r /\ HolderSees(q) /\ rq'[q] = rq[q]
      BY <1>1, Zenon DEF IndInv, HolderIsAlone
    <2> QED
      BY <2>1, Zenon DEF HolderSees
  <1> QED
    BY <1>1, Zenon DEF IndInv, HolderIsAlone

\* Asking for the extension writes nothing to the message yet.
LEMMA StartInv ==
  ASSUME IndInv, NEW r \in Requesters, NEW d \in DBs, Start(r, d)
  PROVE  IndInv'
  <1>1. Typed'
    BY IdleTyped DEF IndInv, Typed, Start, lauVars, catVars, ghosts, IdleRequester, Commands, RqType
  <1>2. /\ rq[r].pc \notin Waiting
        /\ rq'[r].pc \notin Waiting
        /\ \A q \in Requesters : q # r => rq'[q] = rq[q]
    BY Zenon DEF IndInv, Typed, RqType, Start, IdleRequester, Waiting
  <1>3. UNCHANGED <<msg, lock, sent, lpc, sig, local, code>>
    BY Zenon DEF Start, lauVars
  <1> QED
    BY <1>1, <1>2, <1>3, Bystander, Zenon DEF IndInv

\* The commit or abort of a session comes after it has left the message.
LEMMA CommitInv ==
  ASSUME IndInv, NEW r \in Requesters, Commit(r)
  PROVE  IndInv'
  <1>1. Typed'
    BY IdleTyped, Zenon DEF IndInv, Typed, Commit, lauVars, catVars
  <1>2. /\ rq[r].pc \notin Waiting
        /\ rq'[r].pc \notin Waiting
        /\ \A q \in Requesters : q # r => rq'[q] = rq[q]
    BY Zenon DEF IndInv, Typed, RqType, Commit, IdleRequester, Waiting
  <1>3. UNCHANGED <<msg, lock, sent, lpc, sig, local, code>>
    BY Zenon DEF Commit, lauVars
  <1> QED
    BY <1>1, <1>2, <1>3, Bystander, Zenon DEF IndInv

\* A new request finds the lock free and gets a number of its own.
LEMMA SendInv ==
  ASSUME IndInv, NEW r \in Requesters, Send(r)
  PROVE  IndInv'
  <1> DEFINE p == IF Exists(msg.launcher) THEN "check" ELSE "final"
  <1>1. p \in Waiting
    BY Zenon DEF Waiting
  <1>t. rq \in [Requesters -> RqType] /\ msg \in MsgType /\ sent \in Nat
    BY Zenon DEF IndInv, Typed
  <1>r. rq[r] \in RqType
    BY <1>t, Zenon
  <1>2. /\ rq'[r] = [rq[r] EXCEPT !.pc = p, !.id = sent + 1, !.left = Polls,
                                  !.target = msg.launcher, !.fate = "waiting"]
        /\ \A q \in Requesters : q # r => rq'[q] = rq[q]
        /\ DOMAIN rq' = Requesters /\ rq' = [q \in Requesters |-> rq'[q]]
    BY <1>t, Zenon DEF Send
  <1>3. rq'[r] \in RqType
    <2>1. Polls \in Int /\ sent + 1 \in Nat /\ "waiting" \in Fates
      BY <1>t, DDLAssumption DEF Fates
    <2>2. msg.launcher \in Nat
      BY <1>t, Zenon DEF MsgType
    <2> HIDE DEF p
    <2> QED
      BY <1>r, <1>1, <1>2, <2>1, <2>2, Zenon DEF RqType
  <1>4. rq' \in [Requesters -> RqType]
    BY <1>t, <1>2, <1>3, Zenon
  <1>m. msg' = [msg EXCEPT !.req = sent + 1, !.cmd = rq[r].cmd, !.dbid = rq[r].dbid,
                           !.result = "ERR_PENDING", !.of = NoOne] /\ sent' = sent + 1
    BY Zenon DEF Send, Write
  <1>n. /\ msg' \in MsgType /\ msg'.req = sent + 1
        /\ msg'.cmd = rq[r].cmd /\ msg'.dbid = rq[r].dbid
        /\ msg'.result = "ERR_PENDING"
    <2>1. rq[r].cmd \in Commands /\ rq[r].dbid \in DBs /\ sent + 1 \in Nat
      BY <1>t, <1>r DEF RqType
    <2>2. "ERR_PENDING" \in Results /\ NoOne \in Nat
      BY Zenon DEF Results, NoOne
    <2> QED
      BY <1>t, <1>m, <2>1, <2>2, Zenon DEF MsgType
  <1>6. /\ lock = NoProc /\ lock' = r
        /\ UNCHANGED <<lpid, lpc, local, code, dbList, crashes, told>>
    BY Zenon DEF Send, catVars, ghosts
  <1>7. sig' \in BOOLEAN
    BY Zenon DEF Send
  <1>8. Typed'
    BY <1>t, <1>4, <1>m, <1>n, <1>6, <1>7 DEF IndInv, Typed, LocalType
  <1>9. /\ rq'[r].pc \in Waiting /\ rq'[r].id = sent + 1 /\ rq'[r].fate = "waiting"
        /\ rq'[r].cmd = rq[r].cmd /\ rq'[r].dbid = rq[r].dbid
    BY <1>1, <1>2, <1>r, Zenon DEF RqType
  <1>10. \A q \in Requesters : rq'[q].pc \in Waiting <=> lock' = q
    BY <1>2, <1>6, <1>9, DDLAssumption, Zenon DEF IndInv, HolderIsAlone
  <1>11. local'.id # sent'
    BY <1>6, <1>m, <1>t DEF IndInv, Typed, LocalType
  <1>12. HolderSees(r)'
    BY <1>t, <1>9, <1>11, <1>m, <1>n DEF HolderSees, NoOne
  <1>13. HolderIsAlone'
    BY <1>6, <1>10, <1>12, Zenon DEF HolderIsAlone
  <1> QED
    BY <1>8, <1>13, Zenon DEF IndInv

\* The holder that leaves frees the lock for nobody in particular.
LEMMA Released ==
  ASSUME IndInv, NEW r \in Requesters, rq[r].pc \in Waiting,
         rq'[r].pc \notin Waiting,
         \A q \in Requesters : q # r => rq'[q] = rq[q],
         lock' = NoProc
  PROVE  HolderIsAlone'
  BY DDLAssumption, Zenon DEF IndInv, HolderIsAlone

\* An error in a poll, or an answer other than ERR_OK, ends the wait.
LEMMA LeaveInv ==
  ASSUME IndInv, NEW r \in Requesters, NEW b \in BOOLEAN, rq[r].pc \in Waiting, Leave(r, b),
         UNCHANGED <<msg, sent, lauVars, catVars, ext, crashes>>
  PROVE  IndInv'
  <1>1. /\ rq' = [rq EXCEPT ![r] = IdleRequester]
        /\ lock' = NoProc
        /\ told' = [told EXCEPT ![rq[r].dbid] = "error"]
    BY Zenon DEF Leave, Release
  <1>2. Typed'
    BY <1>1, IdleTyped, Zenon DEF IndInv, Typed, RqType, lauVars, catVars
  <1>3. rq'[r].pc \notin Waiting /\ \A q \in Requesters : q # r => rq'[q] = rq[q]
    BY <1>1, Zenon DEF IndInv, Typed, IdleRequester, Waiting
  <1> QED
    BY <1>1, <1>2, <1>3, Released, Zenon DEF IndInv

\* A poll leaves the request, the message and the launcher alone.
LEMMA PollInv ==
  ASSUME IndInv, NEW r \in Requesters, rq[r].pc \in Waiting,
         rq' \in [Requesters -> RqType],
         rq'[r].pc \in Waiting,
         rq'[r].id = rq[r].id, rq'[r].fate = rq[r].fate,
         rq'[r].cmd = rq[r].cmd, rq'[r].dbid = rq[r].dbid,
         \A q \in Requesters : q # r => rq'[q] = rq[q],
         UNCHANGED <<msg, lock, sent, lauVars, catVars, ext, crashes, ghosts>>
  PROVE  IndInv'
  <1>5. UNCHANGED <<msg, lock, sent, lpid, lpc, sig, local, code, dbList, crashes, told>>
    BY Zenon DEF lauVars, catVars, ghosts
  <1>6. Typed'
    BY <1>5, Zenon DEF IndInv, Typed
  <1>7. lock = r /\ HolderSees(r)
    BY Zenon DEF IndInv, HolderIsAlone
  <1>8. HolderSees(r)'
    BY <1>5, <1>7, Zenon DEF HolderSees
  <1>9. HolderIsAlone'
    BY <1>5, <1>7, <1>8, Zenon DEF IndInv, HolderIsAlone
  <1> QED
    BY <1>6, <1>9, Zenon DEF IndInv

\* The existence check of a poll.
LEMMA CheckLauncherInv ==
  ASSUME IndInv, NEW r \in Requesters, CheckLauncher(r)
  PROVE  IndInv'
  <1>1. rq[r].pc \in Waiting
    BY Zenon DEF CheckLauncher, Waiting
  <1>2. CASE Leave(r, FALSE)
    BY <1>1, <1>2, LeaveInv, Zenon DEF CheckLauncher
  <1>3. CASE Goto(r, "read") /\ UNCHANGED <<lock, ghosts>>
    <2>1. rq[r] \in RqType /\ rq \in [Requesters -> RqType] /\ "read" \in Waiting
      BY Zenon DEF IndInv, Typed, Waiting
    <2>2. /\ rq'[r] = [rq[r] EXCEPT !.pc = "read"]
          /\ \A q \in Requesters : q # r => rq'[q] = rq[q]
          /\ rq' = [q \in Requesters |-> rq'[q]]
      BY <1>3, <2>1, Zenon DEF Goto
    <2>3. UNCHANGED <<msg, lock, sent, lauVars, catVars, ext, crashes, ghosts>>
      BY <1>3, Zenon DEF CheckLauncher
    <2>4. /\ rq'[r] \in RqType
          /\ rq'[r].pc \in Waiting
          /\ rq'[r].id = rq[r].id /\ rq'[r].fate = rq[r].fate
          /\ rq'[r].cmd = rq[r].cmd /\ rq'[r].dbid = rq[r].dbid
      BY <2>1, <2>2, Zenon DEF RqType
    <2>5. rq' \in [Requesters -> RqType]
      BY <2>1, <2>2, <2>4, Zenon
    <2> QED
      BY <1>1, <2>2, <2>3, <2>4, <2>5, PollInv, Zenon
  <1> QED
    BY <1>2, <1>3, Zenon DEF CheckLauncher

\* The look at the result in a poll.
LEMMA ReadResultInv ==
  ASSUME IndInv, NEW r \in Requesters, ReadResult(r)
  PROVE  IndInv'
  <1> DEFINE p == IF msg.result # "ERR_PENDING" \/ rq[r].left = 1 THEN "final" ELSE "check"
  <1>1. rq[r].pc \in Waiting /\ p \in Waiting
    BY Zenon DEF ReadResult, Waiting
  <1>2. rq[r] \in RqType /\ rq \in [Requesters -> RqType] /\ rq[r].left - 1 \in Int
    BY DEF IndInv, Typed, RqType
  <1>3. /\ rq'[r] = [rq[r] EXCEPT !.pc = p, !.left = rq[r].left - 1]
        /\ \A q \in Requesters : q # r => rq'[q] = rq[q]
        /\ rq' = [q \in Requesters |-> rq'[q]]
        /\ UNCHANGED <<msg, lock, sent, lauVars, catVars, ext, crashes, ghosts>>
    BY <1>2, Zenon DEF ReadResult
  <1> HIDE DEF p
  <1>4. /\ rq'[r] \in RqType
        /\ rq'[r].pc \in Waiting
        /\ rq'[r].id = rq[r].id /\ rq'[r].fate = rq[r].fate
        /\ rq'[r].cmd = rq[r].cmd /\ rq'[r].dbid = rq[r].dbid
    BY <1>1, <1>2, <1>3, Zenon DEF RqType
  <1>5. rq' \in [Requesters -> RqType]
    BY <1>2, <1>3, <1>4, Zenon
  <1> QED
    BY <1>1, <1>3, <1>4, <1>5, PollInv, Zenon

\* The end of the wait.
LEMMA FinalInv ==
  ASSUME IndInv, NEW r \in Requesters, Final(r)
  PROVE  IndInv'
  <1>1. rq[r].pc \in Waiting
    BY Zenon DEF Final, Waiting
  <1>2. CASE msg.result # "ERR_OK"
    BY <1>1, <1>2, LeaveInv, Zenon DEF Final, Answered
  <1>3. CASE msg.result = "ERR_OK"
    <2> DEFINE p == IF Answered(r) THEN "commit" ELSE "strayed"
    <2>1. /\ rq' = [rq EXCEPT ![r].pc = p] /\ p \in {"commit", "strayed"}
          /\ lock' = NoProc
          /\ told' = [told EXCEPT ![rq[r].dbid] = "ok"]
          /\ UNCHANGED <<msg, sent, lauVars, catVars, ext, crashes>>
      BY <1>3, Zenon DEF Final, Release
    <2> HIDE DEF p
    <2>2. rq[r] \in RqType
      BY Zenon DEF IndInv, Typed
    <2>3. /\ rq'[r] = [rq[r] EXCEPT !.pc = p]
          /\ \A q \in Requesters : q # r => rq'[q] = rq[q]
      BY <2>1, Zenon DEF IndInv, Typed
    <2>4. rq'[r] \in RqType /\ rq'[r].pc \notin Waiting
      BY <2>1, <2>2, <2>3 DEF RqType, Waiting
    <2>5. Typed'
      BY <2>1, <2>2, <2>3, <2>4, Zenon DEF IndInv, Typed, RqType, lauVars, catVars
    <2> QED
      BY <1>1, <2>1, <2>3, <2>4, <2>5, Released, Zenon DEF IndInv
  <1> QED
    BY <1>2, <1>3, Zenon

\* The launcher takes a request over: the signal is consumed with it.
LEMMA ReceiveInv ==
  ASSUME IndInv, Receive
  PROVE  IndInv'
  <1>1. /\ lpc = "idle" /\ sig' = FALSE
        /\ UNCHANGED <<msg, lock, rq, sent, lpid, dbList, crashes, told>>
    BY Zenon DEF Receive, reqVars, catVars, ghosts
  <1>s. sig' \in BOOLEAN /\ ~sig' /\ sig
    BY Zenon DEF Receive
  <1>2. CASE UNCHANGED <<lpc, local, code>>
    <2>1. Typed'
      BY <1>1, <1>2, <1>s, Zenon DEF IndInv, Typed
    <2>2. lpc \notin Busy
      BY <1>1, Zenon DEF Busy
    <2>3. ASSUME NEW r \in Requesters, HolderSees(r) PROVE HolderSees(r)'
      BY <1>1, <1>2, <1>s, <2>2, <2>3, Zenon DEF HolderSees
    <2> QED
      BY <1>1, <2>1, <2>3, Zenon DEF IndInv, HolderIsAlone
  <1>3. CASE /\ msg.req # NoOne
             /\ local' = [id |-> msg.req, cmd |-> msg.cmd, dbid |-> msg.dbid]
             /\ lpc' = "tx1"
             /\ code' = "ERR_UNKNOWN"
    <2>1. local' \in LocalType /\ local'.id = msg.req
          /\ local'.cmd = msg.cmd /\ local'.dbid = msg.dbid
      BY <1>3, Zenon DEF IndInv, Typed, MsgType, LocalType
    <2>2. Typed'
      BY <1>1, <1>3, <1>s, <2>1, Zenon DEF IndInv, Typed, Busy, Results
    <2>3. ASSUME NEW r \in Requesters, HolderSees(r) PROVE HolderSees(r)'
      BY <1>1, <1>3, <1>s, <2>1, <2>3, Zenon DEF HolderSees
    <2> QED
      BY <1>1, <2>2, <2>3, Zenon DEF IndInv, HolderIsAlone
  <1> QED
    BY <1>2, <1>3, Zenon DEF Receive

\* What Settle and Answer do to the record of a requester.
LEMMA Settled ==
  ASSUME IndInv, NEW f \in Fates, NEW S \in SUBSET Requesters,
         rq' = [r \in Requesters |-> rq'[r]],
         \A r \in Requesters : rq'[r] = IF r \in S THEN [rq[r] EXCEPT !.fate = f] ELSE rq[r]
  PROVE  /\ rq' \in [Requesters -> RqType]
         /\ \A r \in Requesters :
               /\ rq'[r].pc = rq[r].pc /\ rq'[r].id = rq[r].id
               /\ rq'[r].cmd = rq[r].cmd /\ rq'[r].dbid = rq[r].dbid
               /\ rq'[r].fate = IF r \in S THEN f ELSE rq[r].fate
  <1>1. ASSUME NEW r \in Requesters
        PROVE  /\ rq'[r] \in RqType
               /\ rq'[r].pc = rq[r].pc /\ rq'[r].id = rq[r].id
               /\ rq'[r].cmd = rq[r].cmd /\ rq'[r].dbid = rq[r].dbid
               /\ rq'[r].fate = IF r \in S THEN f ELSE rq[r].fate
    <2>1. rq[r] \in RqType
      BY Zenon DEF IndInv, Typed
    <2>2. rq'[r] = IF r \in S THEN [rq[r] EXCEPT !.fate = f] ELSE rq[r]
      BY Zenon
    <2> QED
      BY <2>1, <2>2, Zenon DEF RqType
  <1> QED
    BY <1>1, Zenon

\* The first transaction carries the request out or refuses it.
Outcome(f) ==
    /\ Settle(f)
    /\ code' \in Results
    /\ \/ f = "done" /\ lpc' = "tx2" /\ code' = "ERR_OK"
       \/ f = "refused" /\ lpc' = "answer" /\ code' # "ERR_OK"

\* Both commands end in one of these outcomes, with the list changed for the
\* database of the request if it was carried out.
LEMMA Tx1Outcome ==
  ASSUME Tx1
  PROVE  \/ /\ Outcome("done")
            /\ \/ local.cmd = "create" /\ dbList' = dbList \cup {local.dbid}
               \/ local.cmd = "drop" /\ dbList' = dbList \ {local.dbid}
         \/ Outcome("refused") /\ UNCHANGED dbList
  BY Zenon DEF Tx1, AddDb, DelDb, Refused, Carried, Outcome, Results

\* The first transaction fixes the fate of the request it works on.
LEMMA Tx1Inv ==
  ASSUME IndInv, Tx1
  PROVE  IndInv'
  <1>1. lpc = "tx1" /\ UNCHANGED <<msg, lock, sent, lpid, sig, local, crashes, told>>
    BY Zenon DEF Tx1, ghosts
  <1>2. PICK f \in {"done", "refused"} : Outcome(f)
    BY Tx1Outcome, Zenon
  <1>3. dbList' \in SUBSET DBs
    BY Tx1Outcome, Zenon DEF IndInv, Typed, LocalType
  <1> DEFINE S == {r \in Requesters : IsMine(r, local.id)}
  <1>4. /\ rq' = [r \in Requesters |-> rq'[r]]
        /\ \A r \in Requesters : rq'[r] = IF r \in S THEN [rq[r] EXCEPT !.fate = f] ELSE rq[r]
    BY <1>2, Zenon DEF Outcome, Settle
  <1>5. f \in Fates /\ S \in SUBSET Requesters
    BY <1>2, Zenon DEF Fates
  <1>6. /\ rq' \in [Requesters -> RqType]
        /\ \A r \in Requesters :
              /\ rq'[r].pc = rq[r].pc /\ rq'[r].id = rq[r].id
              /\ rq'[r].cmd = rq[r].cmd /\ rq'[r].dbid = rq[r].dbid
              /\ rq'[r].fate = IF IsMine(r, local.id) THEN f ELSE rq[r].fate
    <2> HIDE DEF S
    <2>1. /\ rq' \in [Requesters -> RqType]
          /\ \A r \in Requesters :
                /\ rq'[r].pc = rq[r].pc /\ rq'[r].id = rq[r].id
                /\ rq'[r].cmd = rq[r].cmd /\ rq'[r].dbid = rq[r].dbid
                /\ rq'[r].fate = IF r \in S THEN f ELSE rq[r].fate
      BY <1>4, <1>5, Settled, Zenon
    <2> QED
      BY <2>1, Zenon DEF S
  <1>7. Typed'
    BY <1>1, <1>2, <1>3, <1>6, Zenon DEF IndInv, Typed, Outcome, Busy
  <1>8. ASSUME NEW r \in Requesters, lock' = r PROVE HolderSees(r)'
    <2>1. lock = r /\ HolderSees(r) /\ rq[r].pc \in Waiting
      BY <1>1, <1>8, Zenon DEF IndInv, HolderIsAlone
    <2>2. /\ rq'[r].id = rq[r].id /\ rq'[r].cmd = rq[r].cmd /\ rq'[r].dbid = rq[r].dbid
          /\ rq'[r].fate = IF local.id = sent THEN f ELSE rq[r].fate
      BY <1>6, <2>1, Zenon DEF HolderSees, IsMine
    <2>3. \/ f = "done" /\ lpc' = "tx2" /\ code' = "ERR_OK"
          \/ f = "refused" /\ lpc' = "answer" /\ code' # "ERR_OK"
      BY <1>2, Zenon DEF Outcome
    <2> QED
      BY <1>1, <2>1, <2>2, <2>3, Zenon DEF HolderSees, Busy
  <1> QED
    BY <1>1, <1>6, <1>7, <1>8, Zenon DEF IndInv, HolderIsAlone

\* The second transaction changes slots only.
LEMMA Tx2Inv ==
  ASSUME IndInv, Tx2
  PROVE  IndInv'
  <1>1. /\ lpc = "tx2" /\ lpc' = "answer"
        /\ UNCHANGED <<msg, lock, rq, sent, lpid, sig, local, code, dbList, crashes, told>>
    BY Zenon DEF Tx2, reqVars, ghosts
  <1>2. Typed'
    BY <1>1, Zenon DEF IndInv, Typed, Busy
  <1>3. ASSUME NEW r \in Requesters, lock = r PROVE HolderSees(r)'
    <2>1. HolderSees(r)
      BY <1>3, Zenon DEF IndInv, HolderIsAlone
    <2>2. code = "ERR_OK"
      BY <1>1, Zenon DEF IndInv, Typed
    <2> QED
      BY <1>1, <2>1, <2>2, Zenon DEF HolderSees, Busy
  <1> QED
    BY <1>1, <1>2, <1>3, Zenon DEF IndInv, HolderIsAlone

\* The answer ends the launcher's work.  A holder that waits for another
\* request loses it.
LEMMA AnswerInv ==
  ASSUME IndInv, Answer
  PROVE  IndInv'
  <1>1. /\ lpc = "answer" /\ lpc' = "idle"
        /\ UNCHANGED <<lock, sent, lpid, sig, code, dbList, crashes, told>>
    BY Zenon DEF Answer, catVars, ghosts
  <1>2. msg' \in MsgType /\ msg'.req = 0 /\ msg'.result = code
    BY AnyDbIsDb, Zenon DEF Answer, Blank, IndInv, Typed, MsgType, LocalType, Commands, NoOne
  <1>3. local' \in LocalType /\ local'.id = 0
    BY AnyDbIsDb, Zenon DEF Answer, NoRequest, LocalType, Commands, NoOne
  <1> DEFINE S == {r \in Requesters : /\ rq[r].pc \in Waiting
                                      /\ rq[r].id # local.id
                                      /\ rq[r].fate = "waiting"}
  <1>4. /\ rq' = [r \in Requesters |-> rq'[r]]
        /\ \A r \in Requesters :
              rq'[r] = IF r \in S THEN [rq[r] EXCEPT !.fate = "lost"] ELSE rq[r]
    BY Zenon DEF Answer
  <1>5. "lost" \in Fates /\ S \in SUBSET Requesters
    BY Zenon DEF Fates
  <1>6. /\ rq' \in [Requesters -> RqType]
        /\ \A r \in Requesters :
              /\ rq'[r].pc = rq[r].pc /\ rq'[r].id = rq[r].id
              /\ rq'[r].cmd = rq[r].cmd /\ rq'[r].dbid = rq[r].dbid
              /\ rq'[r].fate = IF r \in S THEN "lost" ELSE rq[r].fate
    <2> HIDE DEF S
    <2> QED
      BY <1>4, <1>5, Settled, Zenon
  <1>7. Typed'
    BY <1>1, <1>2, <1>3, <1>6 DEF IndInv, Typed, Busy
  <1>8. ASSUME NEW r \in Requesters, lock' = r PROVE HolderSees(r)'
    <2>1. lock = r /\ HolderSees(r) /\ rq[r].pc \in Waiting
      BY <1>1, <1>8, Zenon DEF IndInv, HolderIsAlone
    <2>2. rq[r].id = sent /\ sent # 0 /\ rq'[r].id = sent
      BY <1>6, <2>1, Zenon DEF HolderSees, NoOne
    <2>3. code = "ERR_OK" => rq'[r].fate \in {"done", "lost"}
      <3>1. CASE local.id = sent
        BY <1>1, <1>6, <2>1, <2>2, <3>1, Zenon DEF HolderSees, Busy
      <3>2. CASE local.id # sent
        <4>1. rq[r].fate = "waiting"
          BY <1>1, <2>1, <3>2, Zenon DEF HolderSees, Busy
        <4> QED
          BY <1>6, <2>1, <2>2, <3>2, <4>1, Zenon
      <3> QED
        BY <3>1, <3>2, Zenon
    <2> QED
      BY <1>1, <1>2, <2>2, <2>3, Zenon DEF HolderSees, NoOne, Busy
  <1> QED
    BY <1>1, <1>6, <1>7, <1>8, Zenon DEF IndInv, HolderIsAlone

\* An ERROR of the launcher leaves the message and the requesters alone.
LEMMA LauncherErrorInv ==
  ASSUME IndInv, LauncherError
  PROVE  IndInv'
  <1>1. /\ lpid' = 0 /\ lpc' = "down" /\ code' = "ERR_UNKNOWN"
        /\ local' = NoRequest /\ crashes' = crashes + 1
        /\ UNCHANGED <<msg, lock, rq, sent, dbList, told>>
    BY Zenon DEF LauncherError, LauncherGone, reqVars, catVars, ghosts
  <1>2. sig' = FALSE /\ sig' \in BOOLEAN
    BY Zenon DEF LauncherError, LauncherGone
  <1>3. local' \in LocalType /\ local'.id = 0
    BY <1>1, AnyDbIsDb, Zenon DEF NoRequest, LocalType, Commands, NoOne
  <1>4. Typed'
    BY <1>1, <1>2, <1>3 DEF IndInv, Typed, Busy, Results
  <1>5. lpc' \notin Busy
    BY <1>1, Zenon DEF Busy
  <1>6. ASSUME NEW r \in Requesters, HolderSees(r) PROVE HolderSees(r)'
    BY <1>1, <1>2, <1>5, <1>6, Zenon DEF HolderSees
  <1> QED
    BY <1>1, <1>4, <1>6, Zenon DEF IndInv, HolderIsAlone

\* After a reset by the postmaster nobody waits.
LEMMA PostmasterResetInv ==
  ASSUME IndInv, PostmasterReset
  PROVE  IndInv'
  <1>1. /\ lpid' = 0 /\ lpc' = "down" /\ code' = "ERR_UNKNOWN"
        /\ local' = NoRequest /\ crashes' = crashes + 1
        /\ lock' = NoProc
        /\ UNCHANGED <<sent, dbList, told>>
    BY Zenon DEF PostmasterReset, LauncherGone
  <1>2. sig' \in BOOLEAN
    BY Zenon DEF PostmasterReset, LauncherGone
  <1>3. local' \in LocalType /\ local'.id = 0
    BY <1>1, AnyDbIsDb, Zenon DEF NoRequest, LocalType, Commands, NoOne
  <1>4. msg' \in MsgType /\ msg'.req = 0
    BY AnyDbIsDb, Zenon DEF PostmasterReset, Blank, MsgType, Commands, Results, NoOne
  <1>5. rq' = [q \in Requesters |-> IdleRequester]
    BY Zenon DEF PostmasterReset
  <1>6. Typed'
    BY <1>1, <1>2, <1>3, <1>4, <1>5, IdleTyped DEF IndInv, Typed, Busy, Results
  <1>7. HolderIsAlone'
    BY <1>1, <1>5, DDLAssumption, Zenon DEF HolderIsAlone, IdleRequester, Waiting
  <1> QED
    BY <1>6, <1>7, Zenon DEF IndInv

\* The next launcher writes its pid and nothing else into the message.
LEMMA RestartInv ==
  ASSUME IndInv, Restart
  PROVE  IndInv'
  <1>1. /\ lpc = "down" /\ lpc' = "idle" /\ lpid' = crashes + 1
        /\ msg' = [msg EXCEPT !.launcher = crashes + 1]
        /\ UNCHANGED <<lock, rq, sent, sig, local, code, dbList, crashes, told>>
    BY Zenon DEF Restart
  <1>2. /\ msg' \in MsgType
        /\ msg'.req = msg.req /\ msg'.cmd = msg.cmd /\ msg'.dbid = msg.dbid
        /\ msg'.result = msg.result
    BY <1>1 DEF IndInv, Typed, MsgType
  <1>3. Typed'
    BY <1>1, <1>2 DEF IndInv, Typed, Busy
  <1>4. lpc' \notin Busy
    BY <1>1, Zenon DEF Busy
  <1>5. ASSUME NEW r \in Requesters, HolderSees(r) PROVE HolderSees(r)'
    BY <1>1, <1>2, <1>4, <1>5, Zenon DEF HolderSees
  <1> QED
    BY <1>1, <1>3, <1>5, Zenon DEF IndInv, HolderIsAlone

\* No step of the specification leaves the invariant.
LEMMA NextInv == IndInv /\ [Next]_vars => IndInv'
  <1> SUFFICES ASSUME IndInv, [Next]_vars PROVE IndInv'
    BY Zenon
  <1>1. CASE UNCHANGED vars
    BY <1>1, Zenon DEF vars, reqVars, lauVars, catVars, ghosts, IndInv, Typed, HolderIsAlone, HolderSees
  <1>2. CASE \E r \in Requesters, d \in DBs : Start(r, d)
    BY <1>2, StartInv, Zenon
  <1>3. CASE \E r \in Requesters : Requester(r)
    BY <1>3, SendInv, CheckLauncherInv, ReadResultInv, FinalInv, CommitInv, Zenon DEF Requester
  <1>4. CASE LauncherStep
    BY <1>4, ReceiveInv, Tx1Inv, Tx2Inv, AnswerInv, RestartInv, Zenon DEF LauncherStep
  <1> QED
    BY <1>1, <1>2, <1>3, <1>4, LauncherErrorInv, PostmasterResetInv, Zenon DEF Next

\* One requester at a time holds extension_ddl_lock, and the only answer it
\* can find is its own or a late one: the invariant of run ddl.
THEOREM HolderIsAloneAlways == Spec => []HolderIsAlone
  <1>1. IndInv => HolderIsAlone
    BY Zenon DEF IndInv
  <1> QED
    BY <1>1, InitInv, NextInv, PTL DEF Spec

-----------------------------------------------------------------------------
(***************************************************************************)
(* The refinement.  The invariant gives the mapped state a closed form:    *)
(* with the lock free nobody asks, and with holder r only r does.          *)
(***************************************************************************)
FreeForm ==
    /\ Asked = [d \in DBs |-> "none"]
    /\ FateOf = [d \in DBs |-> "waiting"]
    /\ Abandoned <=> lpc \in Busy \/ (sig /\ msg.req # NoOne)

HeldForm(r) ==
    /\ Asked = [d \in DBs |-> IF d = rq[r].dbid THEN rq[r].cmd ELSE "none"]
    /\ FateOf = [d \in DBs |-> IF d = rq[r].dbid THEN rq[r].fate ELSE "waiting"]
    /\ Abandoned <=> lpc \in Busy /\ local.id # rq[r].id
    /\ rq[r].dbid \in DBs /\ rq[r].cmd \in Commands

\* The mapped state when the lock is free.
LEMMA MapFree == IndInv /\ lock = NoProc => FreeForm
  <1> SUFFICES ASSUME IndInv, lock = NoProc PROVE FreeForm
    BY Zenon
  <1>1. \A r \in Requesters : rq[r].pc \notin Waiting
    BY DDLAssumption, Zenon DEF IndInv, HolderIsAlone
  <1>2. \A d \in DBs : Asking(d) = {}
    BY <1>1, Zenon DEF Asking
  <1>3. \A n : ~Mine(n)
    BY <1>1, Zenon DEF Mine, IsMine
  <1> QED
    BY <1>2, <1>3, Zenon DEF Asked, FateOf, Abandoned, FreeForm

\* The mapped state when r holds the lock.
LEMMA MapHeld ==
  ASSUME NEW r \in Requesters
  PROVE  IndInv /\ lock = r => HeldForm(r)
  <1> SUFFICES ASSUME IndInv, lock = r PROVE HeldForm(r)
    BY Zenon
  <1>1. /\ rq[r].pc \in Waiting
        /\ \A q \in Requesters : rq[q].pc \in Waiting => q = r
    BY Zenon DEF IndInv, HolderIsAlone
  <1>2. \A d \in DBs : Asking(d) = IF d = rq[r].dbid THEN {r} ELSE {}
    BY <1>1, Zenon DEF Asking
  <1>3. \A d \in DBs : d = rq[r].dbid => TheOne(d) = r
    BY <1>2 DEF TheOne
  <1>4. \A n : Mine(n) <=> n = rq[r].id
    BY <1>1, Zenon DEF Mine, IsMine
  <1>5. msg.req # NoOne => msg.req = rq[r].id
    BY Zenon DEF IndInv, HolderIsAlone, HolderSees
  <1>6. rq[r].dbid \in DBs /\ rq[r].cmd \in Commands
    BY Zenon DEF IndInv, Typed, RqType
  <1>7. Asked = [d \in DBs |-> IF d = rq[r].dbid THEN rq[r].cmd ELSE "none"]
    BY <1>2, <1>3, Zenon DEF Asked
  <1>8. FateOf = [d \in DBs |-> IF d = rq[r].dbid THEN rq[r].fate ELSE "waiting"]
    BY <1>2, <1>3, Zenon DEF FateOf
  <1> QED
    BY <1>4, <1>5, <1>6, <1>7, <1>8, Zenon DEF Abandoned, HeldForm

\* The same after a step.
LEMMA MapFreeNext == (IndInv /\ lock = NoProc)' => FreeForm'
  BY MapFree, PTL

\* The same for a held lock.
LEMMA MapHeldNext ==
  ASSUME NEW r \in Requesters
  PROVE  (IndInv /\ lock = r)' => HeldForm(r)'
  <1>1. IndInv /\ lock = r => HeldForm(r)
    BY MapHeld, Zenon
  <1> QED
    BY <1>1, PTL

ServiceStep == [Service!ServiceNext]_(Service!svars)

\* A step that keeps the holder, its request and its fate is a stutter, or
\* the end of an abandoned request.
LEMMA Quiet ==
  ASSUME IndInv, IndInv', UNCHANGED <<lock, dbList, told>>,
         \A q \in Requesters : lock = q => UNCHANGED <<rq[q].dbid, rq[q].cmd, rq[q].fate>>,
         Abandoned' => Abandoned
  PROVE  ServiceStep
  <1>1. Asked' = Asked /\ FateOf' = FateOf
    <2>1. CASE lock = NoProc
      BY <2>1, MapFree, MapFreeNext, Zenon DEF FreeForm
    <2>2. CASE lock \in Requesters
      BY <2>2, MapHeld, MapHeldNext DEF HeldForm
    <2> QED
      BY <2>1, <2>2, Zenon DEF IndInv, Typed
  <1>2. CASE Abandoned' = Abandoned
    BY <1>1, <1>2, Zenon DEF ServiceStep, Service!svars
  <1>3. CASE Abandoned /\ Abandoned' = FALSE
    BY <1>1, <1>3, Zenon DEF ServiceStep, Service!ServiceNext, Service!FinishLate
  <1> QED
    BY <1>2, <1>3, Zenon DEF Abandoned

\* Sending is asking.
LEMMA SendRefines ==
  ASSUME IndInv, IndInv', NEW r \in Requesters, Send(r)
  PROVE  ServiceStep
  <1>1. /\ lock = NoProc /\ lock' = r
        /\ UNCHANGED <<lpc, local, dbList, told>>
        /\ rq'[r].dbid = rq[r].dbid /\ rq'[r].cmd = rq[r].cmd /\ rq'[r].fate = "waiting"
    BY Zenon DEF Send, IndInv, Typed, RqType, catVars, ghosts
  <1>2. FreeForm /\ HeldForm(r)'
    BY <1>1, MapFree, MapHeldNext, Zenon
  <1>3. rq[r].dbid \in DBs /\ rq[r].cmd \in Commands /\ Commands = Service!Commands
    BY <1>1, <1>2, Zenon DEF HeldForm, Commands, Service!Commands
  <1>4. Abandoned' => Abandoned
    BY <1>1, <1>2, Zenon DEF FreeForm, HeldForm
  <1>5. Asked[rq[r].dbid] = "none" /\ Asked' = [Asked EXCEPT ![rq[r].dbid] = rq[r].cmd]
    BY <1>1, <1>2, <1>3, Zenon DEF FreeForm, HeldForm
  <1>6. FateOf' = FateOf
    BY <1>1, <1>2, <1>3, Zenon DEF FreeForm, HeldForm
  <1>7. Abandoned' \in BOOLEAN
    BY Zenon DEF Abandoned
  <1>8. Service!Ask(rq[r].dbid, rq[r].cmd)
    BY <1>1, <1>4, <1>5, <1>6, <1>7, Zenon DEF Service!Ask
  <1> QED
    BY <1>3, <1>8, Zenon DEF ServiceStep, Service!ServiceNext

\* The mapped request disappears when its holder frees the lock.
LEMMA SetBack ==
  ASSUME NEW r \in Requesters, HeldForm(r), FreeForm'
  PROVE  /\ rq[r].dbid \in DBs /\ Asked[rq[r].dbid] # "none"
         /\ FateOf[rq[r].dbid] = rq[r].fate
         /\ Asked' = [Asked EXCEPT ![rq[r].dbid] = "none"]
         /\ FateOf' = [FateOf EXCEPT ![rq[r].dbid] = "waiting"]
  <1> DEFINE d == rq[r].dbid
             c == rq[r].cmd
             f == rq[r].fate
  <1>1. /\ Asked = [e \in DBs |-> IF e = d THEN c ELSE "none"]
        /\ FateOf = [e \in DBs |-> IF e = d THEN f ELSE "waiting"]
        /\ d \in DBs /\ c # "none"
    BY Zenon DEF HeldForm, Commands
  <1>2. Asked' = [e \in DBs |-> "none"] /\ FateOf' = [e \in DBs |-> "waiting"]
    BY Zenon DEF FreeForm
  <1> HIDE DEF d, c, f
  <1> HIDE DEF HeldForm, FreeForm
  <1>3. d \in DBs /\ Asked[d] # "none" /\ FateOf[d] = f
    BY <1>1, Zenon
  <1>4. Asked' = [Asked EXCEPT ![d] = "none"]
    BY <1>1, <1>2, Zenon
  <1>5. FateOf' = [FateOf EXCEPT ![d] = "waiting"]
    BY <1>1, <1>2, Zenon
  <1> QED
    BY <1>3, <1>4, <1>5, Zenon DEF d, f

\* An error told to the holder is a requester that gives up.
LEMMA LeaveRefines ==
  ASSUME IndInv, IndInv', NEW r \in Requesters, NEW b \in BOOLEAN,
         rq[r].pc \in Waiting, Leave(r, b), UNCHANGED dbList
  PROVE  ServiceStep
  <1>1. /\ lock = r /\ lock' = NoProc
        /\ told' = [told EXCEPT ![rq[r].dbid] = "error"]
    BY Zenon DEF Leave, Release, IndInv, HolderIsAlone
  <1>2. HeldForm(r) /\ FreeForm'
    BY <1>1, MapHeld, MapFreeNext, Zenon
  <1>3. /\ rq[r].dbid \in DBs /\ Asked[rq[r].dbid] # "none"
        /\ Asked' = [Asked EXCEPT ![rq[r].dbid] = "none"]
        /\ FateOf' = [FateOf EXCEPT ![rq[r].dbid] = "waiting"]
    BY <1>2, SetBack, Zenon
  <1>4. Abandoned' \in BOOLEAN
    BY Zenon DEF Abandoned
  <1>5. Service!GiveUp(rq[r].dbid)
    BY <1>1, <1>3, <1>4, Zenon DEF Service!GiveUp, Service!Leave
  <1> QED
    BY <1>3, <1>5, Zenon DEF ServiceStep, Service!ServiceNext

\* The holder that finds ERR_OK was served, or lost its request to a late
\* answer, and the launcher holds nothing of it any more.
LEMMA FinalRefines ==
  ASSUME IndInv, IndInv', NEW r \in Requesters, Final(r)
  PROVE  ServiceStep
  <1>1. rq[r].pc \in Waiting /\ UNCHANGED <<msg, sent, sig, lpc, local, dbList>>
    BY Zenon DEF Final, Waiting, lauVars, catVars
  <1>2. CASE msg.result # "ERR_OK"
    <2>1. Leave(r, Answered(r)) /\ Answered(r) \in BOOLEAN
      BY <1>2, Zenon DEF Final, Answered
    <2> QED
      BY <1>1, <2>1, LeaveRefines, Zenon
  <1>3. CASE msg.result = "ERR_OK"
    <2>1. /\ lock = r /\ lock' = NoProc /\ HolderSees(r)
          /\ told' = [told EXCEPT ![rq[r].dbid] = "ok"]
      BY <1>1, <1>3, Zenon DEF Final, Release, IndInv, HolderIsAlone
    <2>2. HeldForm(r) /\ FreeForm'
      BY <2>1, MapHeld, MapFreeNext, Zenon
    <2>3. /\ rq[r].fate \in {"done", "lost"} /\ msg.req = NoOne
          /\ lpc \in Busy => local.id # rq[r].id
      BY <1>3, <2>1, Zenon DEF HolderSees
    <2>4. /\ rq[r].dbid \in DBs /\ Asked[rq[r].dbid] # "none"
          /\ FateOf[rq[r].dbid] = rq[r].fate
          /\ Asked' = [Asked EXCEPT ![rq[r].dbid] = "none"]
          /\ FateOf' = [FateOf EXCEPT ![rq[r].dbid] = "waiting"]
      BY <2>2, <2>3, SetBack, Zenon
    <2>5. Abandoned' = Abandoned
      BY <1>1, <2>2, <2>3, Zenon DEF FreeForm, HeldForm, Abandoned
    <2>6. Service!TellDone(rq[r].dbid)
      BY <1>1, <2>1, <2>3, <2>4, <2>5, Zenon DEF Service!TellDone, Service!Leave
    <2> QED
      BY <2>4, <2>6, Zenon DEF ServiceStep, Service!ServiceNext
  <1> QED
    BY <1>2, <1>3, Zenon

\* The first transaction carries out or refuses the holder's request, or an
\* abandoned one.
LEMMA Tx1Refines ==
  ASSUME IndInv, IndInv', Tx1
  PROVE  ServiceStep
  <1>1. /\ lpc = "tx1" /\ lpc \in Busy
        /\ UNCHANGED <<msg, lock, sent, sig, local, told>>
    BY Zenon DEF Tx1, ghosts, Busy
  <1>2. PICK f \in {"done", "refused"} :
           /\ Outcome(f)
           /\ f = "done" => dbList' = Service!After(dbList, local.cmd, local.dbid)
           /\ f = "refused" => UNCHANGED dbList
    BY Tx1Outcome, Zenon DEF Service!After
  <1>3. lpc' \in Busy
    BY <1>2, Zenon DEF Outcome, Busy
  <1>4. \A r \in Requesters :
           /\ rq'[r].id = rq[r].id /\ rq'[r].cmd = rq[r].cmd /\ rq'[r].dbid = rq[r].dbid
           /\ rq'[r].fate = IF IsMine(r, local.id) THEN f ELSE rq[r].fate
    BY <1>2, Zenon DEF Outcome, Settle, IndInv, Typed, RqType
  <1>5. local.dbid \in DBs /\ local.cmd \in Service!Commands
    BY Zenon DEF IndInv, Typed, LocalType, Commands, Service!Commands
  <1>6. ASSUME NEW r \in Requesters, lock = r, local.id = rq[r].id
        PROVE  ServiceStep
    <2>1. HeldForm(r) /\ HeldForm(r)' /\ HolderSees(r) /\ IsMine(r, local.id)
      BY <1>1, <1>6, MapHeld, MapHeldNext, Zenon DEF IndInv, HolderIsAlone, IsMine
    <2>2. rq[r].cmd = local.cmd /\ rq[r].dbid = local.dbid /\ rq[r].fate = "waiting"
      BY <1>1, <1>6, <2>1, Zenon DEF HolderSees
    <2>3. rq'[r].fate = f /\ rq'[r].cmd = local.cmd /\ rq'[r].dbid = local.dbid
      BY <1>4, <2>1, <2>2, Zenon
    <2>4. /\ Asked[local.dbid] = local.cmd /\ local.cmd # "none"
          /\ FateOf[local.dbid] = "waiting"
          /\ Asked' = Asked
      BY <1>5, <2>1, <2>2, <2>3, Zenon DEF HeldForm, Service!Commands
    <2>f. \A e \in DBs : FateOf'[e] = IF e = local.dbid THEN f ELSE FateOf[e]
      BY <1>5, <2>1, <2>2, <2>3, Zenon DEF HeldForm
    <2>g. FateOf = [e \in DBs |-> FateOf[e]] /\ FateOf' = [e \in DBs |-> FateOf'[e]]
      BY Zenon DEF FateOf
    <2>5. Abandoned = FALSE /\ Abandoned' = FALSE
      BY <1>1, <1>4, <1>6, <2>1, Zenon DEF HeldForm, Abandoned
    <2>h. Abandoned' = Abandoned
      BY <2>5, Zenon
    <2>6. CASE f = "done"
      <3>1. Service!CarryOut(local.dbid)
        <4>1. dbList' = Service!After(dbList, Asked[local.dbid], local.dbid)
          BY <1>2, <2>4, <2>6, Zenon
        <4>2. FateOf' = [FateOf EXCEPT ![local.dbid] = "done"]
          BY <1>5, <2>f, <2>g, <2>6, Zenon
        <4>3. UNCHANGED <<Asked, told, Abandoned>>
          BY <1>1, <2>4, <2>h, Zenon
        <4>4. Asked[local.dbid] # "none" /\ FateOf[local.dbid] = "waiting"
          BY <2>4, Zenon
        <4> QED
          BY <4>1, <4>2, <4>3, <4>4, Zenon DEF Service!CarryOut
      <3> QED
        BY <1>5, <3>1, Zenon DEF ServiceStep, Service!ServiceNext
    <2>7. CASE f = "refused"
      <3>1. Service!Refuse(local.dbid)
        <4>1. FateOf' = [FateOf EXCEPT ![local.dbid] = "refused"]
          BY <1>5, <2>f, <2>g, <2>7, Zenon
        <4>3. UNCHANGED <<dbList, Asked, told, Abandoned>>
          BY <1>1, <1>2, <2>4, <2>h, <2>7, Zenon
        <4>4. Asked[local.dbid] # "none" /\ FateOf[local.dbid] = "waiting"
          BY <2>4, Zenon
        <4> QED
          BY <4>1, <4>3, <4>4, Zenon DEF Service!Refuse
      <3> QED
        BY <1>5, <3>1, Zenon DEF ServiceStep, Service!ServiceNext
    <2> QED
      BY <2>6, <2>7, Zenon
  <1>7. ASSUME \A r \in Requesters : lock = r => local.id # rq[r].id
        PROVE  ServiceStep
    <2>1. \A r \in Requesters : lock = r => rq'[r].fate = rq[r].fate
      BY <1>4, <1>7, Zenon DEF IsMine
    <2>2. Abandoned /\ Abandoned'
      <3>1. CASE lock = NoProc
        BY <1>1, <1>3, <3>1, MapFree, MapFreeNext, Zenon DEF FreeForm
      <3>2. CASE lock \in Requesters
        BY <1>1, <1>3, <1>4, <1>7, <3>2, MapHeld, MapHeldNext DEF HeldForm
      <3> QED
        BY <3>1, <3>2, Zenon DEF IndInv, Typed
    <2>3. Asked' = Asked /\ FateOf' = FateOf
      <3>1. CASE lock = NoProc
        BY <1>1, <3>1, MapFree, MapFreeNext, Zenon DEF FreeForm
      <3>2. CASE lock \in Requesters
        BY <1>1, <1>4, <2>1, <3>2, MapHeld, MapHeldNext DEF HeldForm
      <3> QED
        BY <3>1, <3>2, Zenon DEF IndInv, Typed
    <2>4. Abandoned' = Abandoned
      BY <2>2, Zenon DEF Abandoned
    <2>5. CASE f = "done"
      <3>1. Service!CarryOutLate(local.dbid, local.cmd)
        BY <1>1, <1>2, <2>2, <2>3, <2>4, <2>5, Zenon DEF Service!CarryOutLate
      <3> QED
        BY <1>5, <3>1, Zenon DEF ServiceStep, Service!ServiceNext
    <2>6. CASE f = "refused"
      BY <1>1, <1>2, <2>3, <2>4, <2>6, Zenon DEF ServiceStep, Service!svars
    <2> QED
      BY <2>5, <2>6, Zenon
  <1> QED
    BY <1>6, <1>7, Zenon

\* An answer to the holder changes nothing that the service promises.  An
\* answer to an abandoned request may cost the holder its own.
LEMMA AnswerRefines ==
  ASSUME IndInv, IndInv', Answer
  PROVE  ServiceStep
  <1>1. /\ lpc = "answer" /\ lpc' = "idle" /\ lpc \in Busy /\ lpc' \notin Busy
        /\ UNCHANGED <<lock, sent, sig, dbList, told>>
        /\ msg'.req = NoOne
    BY Zenon DEF Answer, Blank, Busy, catVars, ghosts
  <1>2. \A r \in Requesters :
           /\ rq'[r].cmd = rq[r].cmd /\ rq'[r].dbid = rq[r].dbid
           /\ rq'[r].fate = IF /\ rq[r].pc \in Waiting /\ rq[r].id # local.id
                               /\ rq[r].fate = "waiting"
                            THEN "lost" ELSE rq[r].fate
    BY DEF Answer, IndInv, Typed, RqType
  <1>3. Abandoned' = FALSE
    BY <1>1, Zenon DEF Abandoned
  <1>4. ASSUME NEW r \in Requesters, lock = r, local.id # rq[r].id
        PROVE  ServiceStep
    <2>1. HeldForm(r) /\ HeldForm(r)' /\ HolderSees(r) /\ rq[r].pc \in Waiting
      BY <1>1, <1>4, MapHeld, MapHeldNext, Zenon DEF IndInv, HolderIsAlone
    <2>2. rq[r].fate = "waiting" /\ rq'[r].fate = "lost"
      BY <1>1, <1>2, <1>4, <2>1, Zenon DEF HolderSees
    <2>3. /\ rq[r].dbid \in DBs /\ Asked[rq[r].dbid] # "none"
          /\ FateOf[rq[r].dbid] = "waiting" /\ Asked' = Asked
      BY <1>2, <2>1, <2>2, Zenon DEF HeldForm, Commands
    <2>f. \A e \in DBs : FateOf'[e] = IF e = rq[r].dbid THEN "lost" ELSE FateOf[e]
      BY <1>2, <2>1, <2>2, Zenon DEF HeldForm
    <2>g. FateOf = [e \in DBs |-> FateOf[e]] /\ FateOf' = [e \in DBs |-> FateOf'[e]]
      BY Zenon DEF FateOf
    <2>4. FateOf' = [FateOf EXCEPT ![rq[r].dbid] = "lost"]
      BY <2>3, <2>f, <2>g, Zenon
    <2>5. Abandoned
      BY <1>1, <1>4, <2>1, Zenon DEF HeldForm
    <2>6. Service!FinishLate
      <3>1. \E d \in DBs : /\ Asked[d] # "none" /\ FateOf[d] = "waiting"
                          /\ FateOf' = [FateOf EXCEPT ![d] = "lost"]
        BY <2>3, <2>4, Zenon
      <3>2. UNCHANGED <<dbList, Asked, told>>
        BY <1>1, <2>3, Zenon
      <3> QED
        BY <1>3, <2>5, <3>1, <3>2, Zenon DEF Service!FinishLate
    <2> QED
      BY <2>6, Zenon DEF ServiceStep, Service!ServiceNext
  <1>5. ASSUME \A r \in Requesters : lock = r => local.id = rq[r].id
        PROVE  ServiceStep
    BY <1>1, <1>2, <1>3, <1>5, Quiet, Zenon
  <1> QED
    BY <1>4, <1>5, Zenon

\* A reset by the postmaster ends all waits.
LEMMA PostmasterResetRefines ==
  ASSUME IndInv, IndInv', PostmasterReset
  PROVE  ServiceStep
  <1>1. /\ lock' = NoProc /\ lpc' \notin Busy /\ msg'.req = NoOne
        /\ UNCHANGED <<dbList, told>>
    BY Zenon DEF PostmasterReset, LauncherGone, Blank, Busy
  <1>2. FreeForm'
    BY <1>1, MapFreeNext, Zenon
  <1>3. Abandoned' = FALSE
    BY <1>1, Zenon DEF Abandoned
  <1>4. Service!LoseSessions
    BY <1>1, <1>2, <1>3, Zenon DEF FreeForm, Service!LoseSessions
  <1> QED
    BY <1>4, Zenon DEF ServiceStep, Service!ServiceNext

\* Asking for the extension is not yet a request.
LEMMA StartRefines ==
  ASSUME IndInv, IndInv', NEW r \in Requesters, NEW d \in DBs, Start(r, d)
  PROVE  ServiceStep
  <1>0. /\ rq[r].pc \notin Waiting
        /\ rq'[r].pc \notin Waiting
        /\ \A q \in Requesters : q # r => rq'[q] = rq[q]
    BY Zenon DEF IndInv, Typed, RqType, Start, IdleRequester, Waiting
  <1>1. UNCHANGED <<msg, lock, sig, lpc, local, dbList, told>>
    BY Zenon DEF Start, lauVars, catVars, ghosts
  <1>2. lock # r
    BY <1>0, Zenon DEF IndInv, HolderIsAlone
  <1>3. \A n : Mine(n)' <=> Mine(n)
    BY <1>0, Zenon DEF Mine, IsMine
  <1>4. Abandoned' => Abandoned
    BY <1>1, <1>3, Zenon DEF Abandoned
  <1> QED
    BY <1>0, <1>1, <1>2, <1>4, Quiet, Zenon

\* The end of the session is no part of the service.
LEMMA CommitRefines ==
  ASSUME IndInv, IndInv', NEW r \in Requesters, Commit(r)
  PROVE  ServiceStep
  <1>1. /\ rq[r].pc \notin Waiting
        /\ \A q \in Requesters : q # r => rq'[q] = rq[q]
        /\ rq'[r].pc \notin Waiting
        /\ UNCHANGED <<msg, lock, sig, lpc, local, dbList, told>>
    BY Zenon DEF Commit, IndInv, Typed, IdleRequester, Waiting, lauVars, catVars
  <1>2. lock # r
    BY <1>1, Zenon DEF IndInv, HolderIsAlone
  <1>3. \A n : Mine(n)' <=> Mine(n)
    BY <1>1, Zenon DEF Mine, IsMine
  <1>4. Abandoned' => Abandoned
    BY <1>1, <1>3, Zenon DEF Abandoned
  <1> QED
    BY <1>1, <1>2, <1>4, Quiet, Zenon

\* Looking at the result is a stutter.
LEMMA ReadResultRefines ==
  ASSUME IndInv, IndInv', NEW r \in Requesters, ReadResult(r)
  PROVE  ServiceStep
  <1>1. /\ rq[r].pc \in Waiting /\ rq'[r].pc \in Waiting
        /\ UNCHANGED <<rq[r].id, rq[r].cmd, rq[r].dbid, rq[r].fate>>
        /\ \A q \in Requesters : q # r => rq'[q] = rq[q]
        /\ UNCHANGED <<msg, lock, sig, lpc, local, dbList, told>>
    BY Zenon DEF ReadResult, IndInv, Typed, RqType, Waiting, lauVars, catVars, ghosts
  <1>3. \A n : Mine(n)' <=> Mine(n)
    BY <1>1, Zenon DEF Mine, IsMine
  <1>4. Abandoned' => Abandoned
    BY <1>1, <1>3, Zenon DEF Abandoned
  <1> QED
    BY <1>1, <1>4, Quiet, Zenon

\* The second transaction is a stutter.
LEMMA Tx2Refines ==
  ASSUME IndInv, IndInv', Tx2
  PROVE  ServiceStep
  <1>1. /\ lpc \in Busy
        /\ UNCHANGED <<msg, lock, rq, sig, local, dbList, told>>
    BY Zenon DEF Tx2, reqVars, ghosts, Busy
  <1>2. Abandoned' => Abandoned
    BY <1>1, Zenon DEF Abandoned, Mine, IsMine
  <1> QED
    BY <1>1, <1>2, Quiet, Zenon

\* So is the start of a launcher.
LEMMA RestartRefines ==
  ASSUME IndInv, IndInv', Restart
  PROVE  ServiceStep
  <1>1. /\ lpc' \notin Busy /\ msg'.req = msg.req
        /\ UNCHANGED <<lock, rq, sig, dbList, told>>
    BY Zenon DEF Restart, Busy, IndInv, Typed, MsgType
  <1>2. Abandoned' => Abandoned
    BY <1>1, Zenon DEF Abandoned, Mine, IsMine
  <1> QED
    BY <1>1, <1>2, Quiet, Zenon

\* An ERROR of the launcher may end an abandoned request.
LEMMA LauncherErrorRefines ==
  ASSUME IndInv, IndInv', LauncherError
  PROVE  ServiceStep
  <1>1. /\ lpc' \notin Busy /\ sig' = FALSE
        /\ UNCHANGED <<lock, rq, dbList, told>>
    BY Zenon DEF LauncherError, LauncherGone, reqVars, catVars, ghosts, Busy
  <1>2. ~Abandoned'
    BY <1>1, Zenon DEF Abandoned
  <1> QED
    BY <1>1, <1>2, Quiet, Zenon

\* Receiving moves a request from the message into the launcher's hands.
LEMMA ReceiveRefines ==
  ASSUME IndInv, IndInv', Receive
  PROVE  ServiceStep
  <1>1. /\ lpc \notin Busy /\ sig' = FALSE
        /\ UNCHANGED <<msg, lock, rq, dbList, told>>
    BY Zenon DEF Receive, reqVars, catVars, ghosts, Busy
  <1>2. lpc' \in Busy => local'.id = msg.req /\ msg.req # NoOne /\ sig
    BY <1>1 DEF Receive
  <1>3. \A n : Mine(n)' <=> Mine(n)
    BY <1>1, Zenon DEF Mine, IsMine
  <1>4. Abandoned' => Abandoned
    BY <1>1, <1>2, <1>3, Zenon DEF Abandoned
  <1> QED
    BY <1>1, <1>4, Quiet, Zenon

\* The existence check of a poll does nothing, or the requester gives up.
LEMMA CheckLauncherRefines ==
  ASSUME IndInv, IndInv', NEW r \in Requesters, CheckLauncher(r)
  PROVE  ServiceStep
  <1>1. rq[r].pc \in Waiting /\ UNCHANGED <<msg, sig, lpc, local, dbList>>
    BY Zenon DEF CheckLauncher, Waiting, lauVars, catVars
  <1>2. CASE Leave(r, FALSE)
    <2>1. FALSE \in BOOLEAN /\ UNCHANGED dbList
      BY <1>1, Zenon
    <2> QED
      BY <1>1, <1>2, <2>1, LeaveRefines, Zenon
  <1>3. CASE Goto(r, "read") /\ UNCHANGED <<lock, ghosts>>
    <2>1. /\ rq'[r].pc \in Waiting
          /\ UNCHANGED <<rq[r].id, rq[r].cmd, rq[r].dbid, rq[r].fate>>
          /\ \A q \in Requesters : q # r => rq'[q] = rq[q]
          /\ UNCHANGED <<lock, told>>
      BY <1>3 DEF Goto, IndInv, Typed, RqType, Waiting, ghosts
    <2>2. \A n : Mine(n)' <=> Mine(n)
      BY <1>1, <2>1, Zenon DEF Mine, IsMine
    <2>3. Abandoned' => Abandoned
      BY <1>1, <2>2, Zenon DEF Abandoned
    <2> QED
      BY <1>1, <2>1, <2>3, Quiet, Zenon
  <1>4. Leave(r, FALSE) \/ (Goto(r, "read") /\ UNCHANGED <<lock, ghosts>>)
    BY Zenon DEF CheckLauncher
  <1> QED
    BY <1>2, <1>3, <1>4, Zenon

\* Initial states map to initial states of the service.
LEMMA InitRefines == Init => Service!ServiceInit
  <1> SUFFICES ASSUME Init PROVE Service!ServiceInit
    BY Zenon
  <1>1. IndInv
    BY InitInv, Zenon
  <1>2. /\ lock = NoProc /\ dbList \in SUBSET DBs /\ told = [d \in DBs |-> "none"]
        /\ lpc \notin Busy
    BY Zenon DEF Init, Busy
  <1>s. ~sig
    BY Zenon DEF Init
  <1>3. FreeForm
    BY <1>1, <1>2, MapFree, Zenon
  <1>4. Abandoned = FALSE
    BY <1>2, <1>s, Zenon DEF Abandoned
  <1> QED
    BY <1>2, <1>3, <1>4, Zenon DEF FreeForm, Service!ServiceInit

\* Every step maps to a step of the service or to a stutter.
LEMMA NextRefines ==
  ASSUME IndInv, IndInv', [Next]_vars
  PROVE  ServiceStep
  <1>1. CASE UNCHANGED vars
    <2>1. UNCHANGED <<msg, lock, rq, sig, lpc, local, dbList, told>>
      BY <1>1, Zenon DEF vars, reqVars, lauVars, catVars, ghosts
    <2>2. Abandoned' => Abandoned
      BY <2>1, Zenon DEF Abandoned, Mine, IsMine
    <2> QED
      BY <2>1, <2>2, Quiet, Zenon
  <1>2. CASE \E r \in Requesters, d \in DBs : Start(r, d)
    BY <1>2, StartRefines, Zenon
  <1>3. CASE \E r \in Requesters : Requester(r)
    BY <1>3, SendRefines, CheckLauncherRefines, ReadResultRefines, FinalRefines,
       CommitRefines, Zenon DEF Requester
  <1>4. CASE LauncherStep
    BY <1>4, ReceiveRefines, Tx1Refines, Tx2Refines, AnswerRefines, RestartRefines, Zenon
    DEF LauncherStep
  <1> QED
    BY <1>1, <1>2, <1>3, <1>4, LauncherErrorRefines, PostmasterResetRefines, Zenon DEF Next

\* The message protocol between sessions and launcher implements the service:
\* a session is told that its CREATE or DROP EXTENSION was done only if the
\* launcher did it, or a late answer was written over its request; nothing is
\* carried out twice, or without having been asked for.
THEOREM ProtocolImplementsService == Spec => ImplementsService
  <1>1. Init => Service!ServiceInit
    BY InitRefines, Zenon
  <1>2. IndInv /\ IndInv' /\ [Next]_vars => [Service!ServiceNext]_(Service!svars)
    BY NextRefines, Zenon DEF ServiceStep
  <1>3. Spec => []IndInv
    BY InitInv, NextInv, PTL DEF Spec
  <1> QED
    BY <1>1, <1>2, <1>3, PTL DEF Spec, ImplementsService, Service!ServiceSpec
=============================================================================
