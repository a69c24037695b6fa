-------------------------- MODULE LayoutSuggestion --------------------------
(***************************************************************************)
(* The layout analysis of one uploaded preview: the GET that asks for it   *)
(* (get_pdf_layout_suggestion of app/routes.py), its admission             *)
(* (enqueue_pdf_layout_suggestion of app/job_queue.py) and the attempts    *)
(* the workers run (app/tasks.py).  A client that changes the pages or the *)
(* way metadata is used asks again while an older attempt is still at      *)
(* work.  Implements FreshAnswer.                                          *)
(*                                                                         *)
(* Everything under the job lock is one step, except where a process can   *)
(* be killed between two writes.  A killed process keeps the lock until it *)
(* expires; whoever finds it held for five seconds gives up.               *)
(***************************************************************************)
EXTENDS Naturals, Sequences, FiniteSets, SequencesExt

CONSTANTS
    Selections,     \* page_indexes and metadata_mode
    NoSelection,
    MaxAttempts,    \* bound: attempt numbers used
    MaxDeaths       \* bound: killed web or worker processes

ASSUME SuggestionAssumption ==
    /\ IsFiniteSet(Selections) /\ NoSelection \notin Selections
    /\ {MaxAttempts, MaxDeaths} \subseteq Nat

VARIABLES
    selection,   \* layout_suggestion_page_indexes and _mode
    attempt,     \* layout_suggestion_attempt
    status,      \* layout_suggestion_status
    suggestion,  \* layout_suggestion: the selection it was computed for
    lost,        \* attempts nobody will report on: published by a process killed before
                 \* they were queued, or given up by their failure callback
    orphan,      \* TRUE iff a killed process holds the job lock
    entering,    \* the attempt a GET has published and not queued yet, 0 if none
    waiting,     \* the RQ queue
    working,     \* attempts that run: attempt number and the selection they read
    reports,     \* failure callbacks RQ has still to make
    deaths

suggestionVars ==
    <<selection, attempt, status, suggestion, lost, orphan, entering, waiting, working, reports,
      deaths>>

-----------------------------------------------------------------------------
UnderWay == {"queued", "processing"}

\* Nobody holds the job lock across two steps.
Unlocked == entering = 0 /\ ~orphan

\* A process is killed, holding the job lock or not.
Killed ==
    /\ deaths < MaxDeaths
    /\ deaths' = deaths + 1
    /\ orphan' \in {orphan, entering = 0}

Forget == status' = "none" /\ suggestion' = NoSelection

\* A GET for another selection retires what is known and makes older attempts
\* stale, whether or not it is then admitted.
Reselect(s) ==
    /\ Unlocked
    /\ s # selection
    /\ attempt < MaxAttempts
    /\ selection' = s
    /\ attempt' = attempt + 1
    /\ Forget
    /\ UNCHANGED <<lost, orphan, entering, waiting, working, reports, deaths>>

\* Nothing is known about the selection, or the client retries a failure.
Wanted ==
    /\ selection # NoSelection /\ suggestion = NoSelection
    /\ status \notin UnderWay

\* Rate limit and room in the queue permitting, the attempt is published ...
PublishAttempt ==
    /\ Unlocked /\ Wanted
    /\ attempt < MaxAttempts
    /\ attempt' = attempt + 1
    /\ status' = "queued"
    /\ entering' = attempt'
    /\ UNCHANGED <<selection, suggestion, lost, orphan, waiting, working, reports, deaths>>

\* ... and queued.
EnqueueAttempt ==
    /\ entering # 0
    /\ waiting' = Append(waiting, entering)
    /\ entering' = 0
    /\ UNCHANGED <<selection, attempt, status, suggestion, lost, orphan, working, reports, deaths>>

\* enqueue_call raises; the attempt may have reached the queue all the same.
EnqueueFailed ==
    /\ entering # 0
    /\ status' = "failed"
    /\ waiting' \in {waiting, Append(waiting, entering)}
    /\ entering' = 0
    /\ UNCHANGED <<selection, attempt, suggestion, lost, orphan, working, reports, deaths>>

\* The web process dies before or after enqueue_call, the job lock in hand.
WebProcessDies ==
    /\ entering # 0
    /\ deaths < MaxDeaths
    /\ deaths' = deaths + 1
    /\ \/ lost' = lost \cup {entering} /\ UNCHANGED waiting
       \/ waiting' = Append(waiting, entering) /\ UNCHANGED lost
    /\ entering' = 0
    /\ orphan' = TRUE
    /\ UNCHANGED <<selection, attempt, status, suggestion, working, reports>>

\* The thirty-second timeout of the lock.
OrphanExpires ==
    /\ orphan
    /\ orphan' = FALSE
    /\ UNCHANGED <<selection, attempt, status, suggestion, lost, entering, waiting, working,
                   reports, deaths>>

-----------------------------------------------------------------------------
\* execute_pdf_layout_suggestion: a stale attempt leaves at once.
StartAttempt ==
    /\ Unlocked /\ waiting # <<>>
    /\ waiting' = Tail(waiting)
    /\ IF Head(waiting) = attempt
       THEN /\ status' = "processing"
            /\ working' = working \cup {[attempt |-> attempt, selection |-> selection]}
       ELSE UNCHANGED <<status, working>>
    /\ UNCHANGED <<selection, attempt, suggestion, lost, orphan, entering, reports, deaths>>

\* The attempt ends before it has written anything: it finds the job lock
\* held, or is killed.
StartFails ==
    /\ waiting # <<>>
    /\ waiting' = Tail(waiting)
    /\ reports' = reports \cup {Head(waiting)}
    /\ \/ ~Unlocked /\ UNCHANGED <<orphan, deaths>>
       \/ Killed
    /\ UNCHANGED <<selection, attempt, status, suggestion, lost, entering, working>>

\* Seeded bug: a late failure hides the suggestion.
Finishes_Late(n, outcome) == n = attempt

\* _finish_pdf_layout_suggestion: only the current attempt, and no failure
\* after a success.
Finishes(n, outcome) ==
    /\ n = attempt
    /\ ~(status = "done" /\ outcome # "done")

Finish(n, outcome, found) ==
    IF Finishes(n, outcome)
    THEN /\ status' = outcome
         /\ suggestion' = IF outcome = "done" THEN found ELSE suggestion
    ELSE UNCHANGED <<status, suggestion>>

Found(r) ==
    /\ Unlocked /\ r \in working
    /\ Finish(r.attempt, "done", r.selection)
    /\ working' = working \ {r}
    /\ \/ UNCHANGED <<orphan, reports, deaths>>
       \* killed after the write: RQ reports the attempt as failed all the same
       \/ Killed /\ reports' = reports \cup {r.attempt}
    /\ UNCHANGED <<selection, attempt, lost, entering, waiting>>

\* The analysis raises: the failure is written here and again by the callback.
Raised(r) ==
    /\ Unlocked /\ r \in working
    /\ Finish(r.attempt, "failed", NoSelection)
    /\ working' = working \ {r}
    /\ reports' = reports \cup {r.attempt}
    /\ UNCHANGED <<selection, attempt, lost, orphan, entering, waiting, deaths>>

\* The result or the failure is not written: the job lock is held.
FinishBusy(r) ==
    /\ ~Unlocked /\ r \in working
    /\ working' = working \ {r}
    /\ reports' = reports \cup {r.attempt}
    /\ UNCHANGED <<selection, attempt, status, suggestion, lost, orphan, entering, waiting, deaths>>

\* Stopped, timed out or abandoned by a worker that was killed.
Dies(r) ==
    /\ r \in working
    /\ Killed
    /\ working' = working \ {r}
    /\ reports' = reports \cup {r.attempt}
    /\ UNCHANGED <<selection, attempt, status, suggestion, lost, entering, waiting>>

\* mark_pdf_layout_suggestion_failed and _stopped.
Report(n) ==
    /\ Unlocked /\ n \in reports
    /\ Finish(n, "failed", NoSelection)
    /\ reports' = reports \ {n}
    /\ UNCHANGED <<selection, attempt, lost, orphan, entering, waiting, working, deaths>>

\* The callback finds the job lock held as well: the failure is never written.
ReportBusy(n) ==
    /\ ~Unlocked /\ n \in reports
    /\ lost' = lost \cup {n}
    /\ reports' = reports \ {n}
    /\ UNCHANGED <<selection, attempt, status, suggestion, orphan, entering, waiting, working, deaths>>

SuggestionInit ==
    /\ selection = NoSelection /\ attempt = 0
    /\ status = "none" /\ suggestion = NoSelection
    /\ lost = {} /\ orphan = FALSE /\ entering = 0 /\ waiting = <<>>
    /\ working = {} /\ reports = {} /\ deaths = 0

\* Seeded bug: the attempts are queued without the callbacks.
AttemptStep_NoCallbacks ==
    \/ StartAttempt \/ StartFails
    \/ \E r \in working : Found(r) \/ Raised(r) \/ FinishBusy(r)

AttemptStep ==
    \/ StartAttempt \/ StartFails
    \/ \E r \in working : Found(r) \/ Raised(r) \/ FinishBusy(r)
    \/ \E n \in reports : Report(n) \/ ReportBusy(n)

WebStep == EnqueueAttempt \/ EnqueueFailed

SuggestionNext ==
    \/ \E s \in Selections : Reselect(s)
    \/ PublishAttempt
    \/ WebStep
    \/ WebProcessDies
    \/ OrphanExpires
    \/ AttemptStep
    \/ \E r \in working : Dies(r)

\* A request that is not killed finishes, Redis lets a lock expire, and RQ's
\* workers go on and make their callbacks.
SuggestionFairness ==
    /\ WF_suggestionVars(WebStep)
    /\ WF_suggestionVars(OrphanExpires)
    /\ WF_suggestionVars(AttemptStep)

SuggestionSpec == SuggestionInit /\ [][SuggestionNext]_suggestionVars /\ SuggestionFairness

-----------------------------------------------------------------------------
(* Properties                                                              *)

\* The shape of the state; attempts never carry a number that was not given
\* out, and the queue holds each at most once.
SuggestionTypeOK ==
    /\ {selection, suggestion} \subseteq Selections \cup {NoSelection}
    /\ attempt \in 0..MaxAttempts /\ entering \in 0..attempt
    /\ lost \subseteq 1..attempt /\ orphan \in BOOLEAN
    /\ status \in {"none", "queued", "processing", "done", "failed"}
    /\ ToSet(waiting) \subseteq 1..attempt /\ IsInjective(waiting)
    /\ working \subseteq [attempt : 1..attempt, selection : Selections]
    /\ reports \subseteq 1..attempt

\* What the preview shows was computed for the selection it shows, however
\* many attempts were at work, and an answer stays until it is asked again.
FreshSuggestion == INSTANCE FreshAnswer WITH question <- selection, answer <- suggestion,
                                   Questions <- Selections, Nothing <- NoSelection
SuggestionIsFresh == FreshSuggestion!Spec

\* The status tells the truth.  What was found is shown as found: no late
\* report of a failure turns the preview back.  What is reported as under way
\* is, one attempt only: queued, running, about to be queued, or ended with
\* its report to come.  An attempt is lost - not queued, not running, never
\* reported - only if a process was killed: the one that published it, before
\* it queued it, or one whose lock the attempt's callback then ran into.
StatusIsTrue ==
    LET live == (IF attempt \in ToSet(waiting) THEN 1 ELSE 0)
            + Cardinality({r \in working : r.attempt = attempt})
            + (IF entering = attempt THEN 1 ELSE 0)
    IN  /\ suggestion # NoSelection => status = "done"
        /\ attempt > 0 => live <= 1
        /\ status \in UnderWay =>
              \/ live = 1
              \/ attempt \in reports
              \/ attempt \in lost
        /\ attempt \in lost => deaths > 0

\* The client that polls is told an end, unless a kill made the attempt lost:
\* then the preview stays "queued" or "processing" until its record expires,
\* or the client asks for other pages.
AnalysisSettles ==
    status \in UnderWay ~> (status \notin UnderWay \/ attempt \in lost)

=============================================================================
