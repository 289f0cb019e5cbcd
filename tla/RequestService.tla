--------------------------- MODULE RequestService ---------------------------
(***************************************************************************)
(* What CREATE and DROP EXTENSION expect of the launcher: a request for a  *)
(* database is carried out or refused, once, and its requester is told     *)
(* which.  A requester may give up.  Its request may then still be carried *)
(* out, and when the launcher is through with it the answer may reach a    *)
(* request that is waiting by then, which is lost.                         *)
(***************************************************************************)
CONSTANT DBs

VARIABLES
    listed,     \* databases the launcher has on its list
    asked,      \* the request that a session of each database waits for
    fate,       \* what became of that request
    told,       \* what a session of each database was told last
    late        \* does the launcher hold a request whose requester left?

svars == <<listed, asked, fate, told, late>>

Commands == {"create", "drop"}
Fates    == {"waiting", "done", "refused", "lost"}

ServiceInit ==
    /\ listed \in SUBSET DBs
    /\ asked = [d \in DBs |-> "none"]
    /\ fate = [d \in DBs |-> "waiting"]
    /\ told = [d \in DBs |-> "none"]
    /\ late = FALSE

After(L, c, d) == IF c = "create" THEN L \cup {d} ELSE L \ {d}

\* A new request may replace one whose requester left.
Ask(d, c) ==
    /\ asked[d] = "none"
    /\ asked' = [asked EXCEPT ![d] = c]
    /\ late' \in BOOLEAN
    /\ late' => late
    /\ UNCHANGED <<listed, fate, told>>

CarryOut(d) ==
    /\ asked[d] # "none"
    /\ fate[d] = "waiting"
    /\ listed' = After(listed, asked[d], d)
    /\ fate' = [fate EXCEPT ![d] = "done"]
    /\ UNCHANGED <<asked, told, late>>

Refuse(d) ==
    /\ asked[d] # "none"
    /\ fate[d] = "waiting"
    /\ fate' = [fate EXCEPT ![d] = "refused"]
    /\ UNCHANGED <<listed, asked, told, late>>

CarryOutLate(d, c) ==
    /\ late
    /\ listed' = After(listed, c, d)
    /\ UNCHANGED <<asked, fate, told, late>>

\* The launcher is through with a request whose requester left.
FinishLate ==
    /\ late
    /\ late' = FALSE
    /\ \/ \E d \in DBs : /\ asked[d] # "none"
                         /\ fate[d] = "waiting"
                         /\ fate' = [fate EXCEPT ![d] = "lost"]
       \/ UNCHANGED fate
    /\ UNCHANGED <<listed, asked, told>>

Leave(d, t) ==
    /\ asked[d] # "none"
    /\ asked' = [asked EXCEPT ![d] = "none"]
    /\ fate' = [fate EXCEPT ![d] = "waiting"]
    /\ told' = [told EXCEPT ![d] = t]
    /\ UNCHANGED listed

TellDone(d) ==
    /\ fate[d] \in {"done", "lost"}
    /\ Leave(d, "ok")
    /\ UNCHANGED late

TellRefused(d) ==
    /\ fate[d] \in {"refused", "lost"}
    /\ Leave(d, "error")
    /\ UNCHANGED late

GiveUp(d) ==
    /\ Leave(d, "error")
    /\ late' \in BOOLEAN

\* The coordinator's processes are restarted: nobody waits any more.
LoseSessions ==
    /\ asked' = [d \in DBs |-> "none"]
    /\ fate' = [d \in DBs |-> "waiting"]
    /\ late' = FALSE
    /\ UNCHANGED <<listed, told>>

ServiceNext ==
    \/ \E d \in DBs, c \in Commands : Ask(d, c) \/ CarryOutLate(d, c)
    \/ \E d \in DBs : \/ CarryOut(d) \/ Refuse(d)
                      \/ TellDone(d) \/ TellRefused(d) \/ GiveUp(d)
    \/ FinishLate
    \/ LoseSessions

ServiceSpec == ServiceInit /\ [][ServiceNext]_svars
=============================================================================
