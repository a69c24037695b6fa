---------------------------- MODULE FreshAnswer -----------------------------
(***************************************************************************)
(* What an analysis that runs in the background promises: the answer on    *)
(* record is the answer to the question on record.  Asking something else  *)
(* withdraws the old answer in the same step, and nothing else does: what  *)
(* has been answered is not asked again.  Implemented by LayoutSuggestion  *)
(* and ProjectionAnalysis.                                                 *)
(***************************************************************************)

CONSTANTS Questions, Nothing

VARIABLES
    question,   \* what was asked last, or Nothing
    answer      \* the question that the recorded answer belongs to, or Nothing

vars == <<question, answer>>

Init == question = Nothing /\ answer = Nothing

Ask(q) ==
    /\ q # question
    /\ question' = q
    /\ answer' = Nothing

Answer ==
    /\ answer = Nothing
    /\ answer' = question
    /\ UNCHANGED question

Next == (\E q \in Questions \cup {Nothing} : Ask(q)) \/ Answer

Spec == Init /\ [][Next]_vars

=============================================================================
