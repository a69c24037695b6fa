-------------------------- MODULE MCBackgroundJobs --------------------------
(* The three kinds of jobs the RQ workers run, for TLC: a conversion, the  *)
(* layout analysis of a preview, and that of a projected document.  They   *)
(* share no record, lock or lease, so a behaviour is about one of them,    *)
(* the lane, while the others rest; the questions are the same for all:    *)
(* does it come to an end, and is the answer the one that was asked for?   *)
EXTENDS ConversionJob, LayoutSuggestion, ProjectionAnalysis

VARIABLE lane

jobsVars == <<vars, suggestionVars, analysisVars, lane>>

\* Where no conversion is posted.
Rests == pc = [a \in Actors |-> IF a \in Posts THEN "refused"
                                ELSE IF a \in Attempts THEN "none" ELSE "idle"]

\* The questions are interchangeable: the first asker may ask the first.
FirstQuestion == CHOOSE q \in Questions : TRUE

JobsInit ==
    /\ lane \in {"conversion", "preview", "projection"}
    /\ IF lane = "conversion" THEN Init
       ELSE /\ Rests
            /\ rec = NoRecord /\ file = FALSE /\ ledger = "none" /\ lock = Free
            /\ seen = [c \in Clients |-> NoRecord]
            /\ stop = {} /\ crashes = 0 /\ faults = 0 /\ late = FALSE
    /\ SuggestionInit
    /\ AnalysisInit /\ (lane # "projection" => \A a \in Askers : asks[a] = FirstQuestion)
    /\ asks[CHOOSE a \in Askers : TRUE] = FirstQuestion

JobsNext ==
    \/ lane = "conversion" /\ Next /\ UNCHANGED <<suggestionVars, analysisVars, lane>>
    \/ lane = "preview" /\ SuggestionNext /\ UNCHANGED <<vars, analysisVars, lane>>
    \/ lane = "projection" /\ AnalysisNext /\ UNCHANGED <<vars, suggestionVars, lane>>

JobsSpec ==
    /\ JobsInit /\ [][JobsNext]_jobsVars
    /\ Fairness /\ SuggestionFairness /\ AnalysisFairness

\* The types of the two analyses.
AnalysesTypeOK == SuggestionTypeOK /\ AnalysisTypeOK

\* Neither shows what was found for another question.
AnswersAreFresh == SuggestionIsFresh /\ AnalysisIsFresh

=============================================================================
