------------------------------ MODULE SyncTurns ------------------------------
(***************************************************************************)
(* What the scheduler of the resync promises (services/tn_scheduler.py),   *)
(* with nothing of locks, pages or rows: the workers take turns, a turn is *)
(* taken when it is due or somebody asks for one, and only a turn that has *)
(* committed ends the interval.  MirrorSync implements it.                 *)
(***************************************************************************)
CONSTANT Workers

VARIABLES
    turn,   \* how far each worker is with a resync
    due     \* no resync was completed since the interval began

vars == <<turn, due>>

Working == {"scheduled", "forced"}
Phases == {"idle", "committed"} \cup Working

Init == turn = [w \in Workers |-> "idle"] /\ due = TRUE

Advance(w, phase) == turn' = [turn EXCEPT ![w] = phase]

Take(w, how) ==
    /\ \A v \in Workers : turn[v] = "idle"
    /\ Advance(w, how)
    /\ UNCHANGED due

\* The scheduler takes a turn only when it is due.
Scheduled(w) == due /\ Take(w, "scheduled")
Forced(w) == Take(w, "forced")

Commit(w) == turn[w] \in Working /\ Advance(w, "committed") /\ UNCHANGED due

\* The interval starts again.
Complete(w) == turn[w] = "committed" /\ Advance(w, "idle") /\ due' = FALSE

\* A call fails, the database refuses, or the process dies.
GiveUp(w) == turn[w] # "idle" /\ Advance(w, "idle") /\ UNCHANGED due

IntervalPasses == ~due /\ due' = TRUE /\ UNCHANGED turn

Next ==
    \/ \E w \in Workers : Scheduled(w) \/ Forced(w) \/ Commit(w) \/ Complete(w) \/ GiveUp(w)
    \/ IntervalPasses

Spec == Init /\ [][Next]_vars
=============================================================================
