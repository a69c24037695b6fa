----------------------------- MODULE FifoTasks -----------------------------
(***************************************************************************)
(* What the pattern layout service promises of its tasks: they begin in    *)
(* the order they were accepted in, one at a time; an accepted task is     *)
(* neither lost nor begun twice, and is forgotten only when it has ended.  *)
(* docs/pattern-layout-service.md; implemented by PatternQueue.            *)
(***************************************************************************)
EXTENDS Naturals

CONSTANT Tasks

VARIABLES
    stage,  \* "new", "waiting", "running", "ended" or "gone"
    rank    \* the place of a task in the order of acceptance, 0 before

vars == <<stage, rank>>

Init ==
    /\ stage = [t \in Tasks |-> "new"]
    /\ rank = [t \in Tasks |-> 0]

Ended(S) == \A t \in S : stage[t] = "ended"

\* A task is accepted behind all others; expired ones may be forgotten.
Accept(t, forgotten) ==
    /\ stage[t] = "new"
    /\ Ended(forgotten)
    /\ stage' = [u \in Tasks |-> IF u = t THEN "waiting"
                                ELSE IF u \in forgotten THEN "gone" ELSE stage[u]]
    /\ rank' = [rank EXCEPT ![t] = rank'[t]]
    /\ \A u \in Tasks : rank[u] < rank'[t]

\* Nothing runs, and nothing that waits was accepted before.
Begin(t) ==
    /\ stage[t] = "waiting"
    /\ \A u \in Tasks :
        /\ stage[u] # "running"
        /\ stage[u] = "waiting" => rank[t] <= rank[u]
    /\ stage' = [stage EXCEPT ![t] = "running"]
    /\ UNCHANGED rank

\* Tasks end, ended ones are forgotten; a restart does both at once.
Leave(ending, forgotten) ==
    /\ \A t \in ending : stage[t] \in {"waiting", "running"}
    /\ Ended(forgotten)
    /\ stage' = [t \in Tasks |-> IF t \in ending THEN "ended"
                                ELSE IF t \in forgotten THEN "gone" ELSE stage[t]]
    /\ UNCHANGED rank

Next ==
    \/ \E t \in Tasks, forgotten \in SUBSET Tasks : Accept(t, forgotten)
    \/ \E t \in Tasks : Begin(t)
    \/ \E ending, forgotten \in SUBSET Tasks : Leave(ending, forgotten)

Spec == Init /\ [][Next]_vars

=============================================================================
