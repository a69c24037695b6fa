------------------------- MODULE ProjectionAnalysis -------------------------
(***************************************************************************)
(* The layout analysis of one projected document: the POSTs that ask for   *)
(* it, the GETs that poll it and the layouts that are applied meanwhile    *)
(* (app/projection.py), the submission and the job the RQ worker runs      *)
(* (app/projection_layout.py), and the compare-and-swap updates of the     *)
(* document's metadata (app/projection_store.py).  Implements FreshAnswer. *)
(*                                                                         *)
(* A transaction of the ledger is one step, an exchange with Redis         *)
(* another.  A lease is released in the step before: until then only its   *)
(* own job looks at it, whose updates are refused by then.  An account has *)
(* one active document (ProjectionLedger), so its other analyses are not   *)
(* modelled; other accounts show only in refusals.                         *)
(***************************************************************************)
EXTENDS Integers, FiniteSets

CONSTANTS
    Askers,        \* POST layout-analysis; names the analysis, its job and lease
    NoPost,
    Polls,        \* clients that GET layout-analysis again and again
    Layouts,      \* POST layout
    Questions,    \* metadata_mode and included_page_indexes
    NoQuestion,
    MaxMishaps     \* bound: processes killed, locks that ran out, workers missed

Requests == Askers \cup Polls \cup Layouts

ASSUME AnalysisAssumption ==
    /\ IsFiniteSet(Requests) /\ NoPost \notin Askers
    /\ Askers \cap Polls = {} /\ Askers \cap Layouts = {} /\ Polls \cap Layouts = {}
    /\ NoQuestion \notin Questions
    /\ MaxMishaps \in Nat

VARIABLES
    active, generation,   \* the row of the session
    analysis,   \* analysis of the document's metadata
    lease,      \* the leases of kind analysis
    job,        \* the RQ jobs
    run,        \* what the worker does with each job
    request,    \* where each request is, and the metadata it has read
    asks,       \* the question of each POST
    holder,     \* the submission lock
    mishaps

storeVars == <<active, generation, analysis>>
requestVars == <<request, asks, holder>>
analysisVars == <<storeVars, lease, job, run, requestVars, mishaps>>

-----------------------------------------------------------------------------
\* Without its phase, which is only shown.  An analysis that found nothing
\* reliable counts as failed: both may be asked for again.
NoAnalysis ==
    [id |-> NoPost, question |-> NoQuestion, status |-> "none", suggestion |-> NoQuestion]

NoLease == [held |-> FALSE, busy |-> FALSE, generation |-> 0]
Revoked == -1

\* What a request or a job that is over remembers.
Request(place) == [at |-> place, seen |-> [generation |-> 0, analysis |-> NoAnalysis]]
Run(place) == [at |-> place, generation |-> 0, asked |-> NoQuestion, result |-> "failed"]

\* Of a session that was deleted or has expired nothing is read any more.
Metadata == [generation |-> generation, analysis |-> analysis]
Current(g) == active /\ generation = g
Analyzing(m) == m.analysis.status = "analyzing"

\* valid_lease
Valid(n) == lease[n].held /\ active /\ lease[n].generation = generation

\* release: not under a child that lives.
Released(n) ==
    IF n = NoPost \/ lease[n].busy THEN lease ELSE [lease EXCEPT ![n] = NoLease]

\* discard_analysis_job of the analysis somebody has read, as far as Redis
\* answers.
Discarded(m) ==
    LET n == m.analysis.id IN
    IF Analyzing(m) /\ job[n] \in {"queued", "started"}
    THEN {job, [job EXCEPT ![n] = "canceled"]} ELSE {job}

\* The guard of update_analysis.
Concerns(n, g) == Current(g) /\ analysis.id = n /\ analysis.status = "analyzing"

At(r, place) == request[r].at = place
Seen(r) == request[r].seen
Move(r, place) == request' = [request EXCEPT ![r].at = place]
See(r, place) == request' = [request EXCEPT ![r] = [at |-> place, seen |-> Metadata]]
End(r) == request' = [request EXCEPT ![r] = Request("end")]

-----------------------------------------------------------------------------
(* Reading and polling                                                     *)

\* owned.  A POST polls an older analysis first.
Read(r) ==
    /\ At(r, "start")
    /\ IF ~active THEN End(r)
       ELSE \/ r \in Layouts /\ See(r, "update")
            \/ r \notin Layouts /\ Analyzing(Metadata) /\ See(r, "fetch")
            \/ r \in Askers /\ ~Analyzing(Metadata) /\ See(r, "lock")
    /\ UNCHANGED <<storeVars, lease, job, run, asks, holder, mishaps>>

\* A POST reads again what it has polled; a client polls again.
Polled(r) ==
    IF r \notin Askers THEN request' = [request EXCEPT ![r] = Request("start")]
    ELSE IF active THEN See(r, "lock") ELSE End(r)

\* Seeded bug: a job that is not there is still to come.
Over_Present == {"finished", "failed", "canceled"}

Over == {"none", "finished", "failed", "canceled"}

\* refresh_analysis_failure asks RQ for the job of the analysis it has read:
\* it is over, nobody is there to take it, or it takes more than its ninety
\* seconds.  Otherwise nothing happens.
Fetch(r) ==
    LET n == Seen(r).analysis.id IN
    /\ At(r, "fetch")
    /\ \/ job[n] \in Over /\ Move(r, "settle") /\ UNCHANGED <<job, mishaps>>
       \/ job[n] \notin Over /\ Polled(r) /\ UNCHANGED <<job, mishaps>>
       \/ /\ job[n] \in {"queued", "started"}
          /\ mishaps < MaxMishaps /\ mishaps' = mishaps + 1
          /\ Move(r, "settle")
          /\ job' = IF job[n] = "queued" THEN [job EXCEPT ![n] = "canceled"] ELSE job
    /\ UNCHANGED <<storeVars, lease, run, asks, holder>>

\* The analysis fails and its lease goes, unless it has ended or was replaced
\* meanwhile.
Settle(r) ==
    LET n == Seen(r).analysis.id IN
    /\ At(r, "settle")
    /\ IF Concerns(n, Seen(r).generation)
       THEN /\ analysis' = [analysis EXCEPT !.status = "failed"]
            /\ lease' = Released(n)
       ELSE UNCHANGED <<analysis, lease>>
    /\ Polled(r)
    /\ UNCHANGED <<active, generation, job, run, asks, holder, mishaps>>

-----------------------------------------------------------------------------
(* submit_analysis                                                         *)

\* Known already: the same question is being analysed, or has its answer.
Answered(p) == analysis.question = asks[p] /\ analysis.status \in {"analyzing", "ready"}

\* The metadata changed, the answer is known, or a limit is reached: the lock
\* is given back at once.
Refused(p) ==
    /\ At(p, "lock")
    /\ End(p)
    /\ UNCHANGED <<storeVars, lease, job, run, asks, holder, mishaps>>

Reserve(p) ==
    /\ At(p, "lock")
    /\ holder = NoPost
    /\ Current(Seen(p).generation) /\ ~Answered(p)
    /\ holder' = p
    /\ lease' = [lease EXCEPT ![p] = [held |-> TRUE, busy |-> FALSE, generation |-> generation]]
    /\ See(p, "publish")
    /\ UNCHANGED <<storeVars, job, run, asks, mishaps>>

\* The request is over and gives the lock back.
Leave(p) ==
    /\ holder' = IF holder = p THEN NoPost ELSE holder
    /\ End(p)

\* Seeded bug: the lease of the analysis that is replaced stays valid.
Revoke_Nothing(n, leases) == leases

\* A lease that is given up stops its child at the next look.
Revoke(n, leases) ==
    IF n # NoPost /\ leases[n].held
    THEN [leases EXCEPT ![n].generation = Revoked] ELSE leases

\* replace_analysis: against the analysis and the generation that were read.
PublishAnalysis(p) ==
    LET prior == Seen(p).analysis.id IN
    /\ At(p, "publish")
    /\ IF Current(Seen(p).generation) /\ analysis.id = prior
       THEN /\ analysis' = [NoAnalysis EXCEPT !.id = p, !.question = asks[p],
                                              !.status = "analyzing"]
            /\ lease' = Revoke(prior, lease)
            /\ Move(p, "enqueue")
            /\ UNCHANGED holder
       ELSE lease' = Released(p) /\ Leave(p) /\ UNCHANGED analysis
    /\ UNCHANGED <<active, generation, job, run, asks, mishaps>>

\* The older job leaves the queue and its lease the ledger.
Enqueue(p) ==
    /\ At(p, "enqueue")
    /\ \E jobs \in Discarded(Seen(p)) : job' = [jobs EXCEPT ![p] = "queued"]
    /\ lease' = Released(Seen(p).analysis.id)
    /\ Leave(p)
    /\ UNCHANGED <<storeVars, run, asks, mishaps>>

\* Redis fails: the analysis fails too.
EnqueueRaises(p) ==
    /\ At(p, "enqueue")
    /\ mishaps < MaxMishaps /\ mishaps' = mishaps + 1
    /\ lease' = Released(p)
    /\ analysis' = IF Concerns(p, Seen(p).generation)
                   THEN [analysis EXCEPT !.status = "failed"] ELSE analysis
    /\ Leave(p)
    /\ UNCHANGED <<active, generation, job, run, asks>>

AskerDies(p) ==
    /\ request[p].at \in {"publish", "enqueue"}
    /\ mishaps < MaxMishaps /\ mishaps' = mishaps + 1
    /\ request' = [request EXCEPT ![p] = Request("dead")]
    /\ UNCHANGED <<storeVars, lease, job, run, asks, holder>>

\* Fifteen seconds after it was taken, whatever its holder does.
SubmitLockExpires ==
    /\ holder # NoPost
    /\ holder' = NoPost
    /\ IF At(holder, "dead") THEN UNCHANGED mishaps
       ELSE mishaps < MaxMishaps /\ mishaps' = mishaps + 1
    /\ UNCHANGED <<storeVars, lease, job, run, request, asks>>

-----------------------------------------------------------------------------
(* apply_layout, close_document                                            *)

\* Seeded bug: only the generation is compared.
Unmoved_Generation(r) == Current(Seen(r).generation)

Unmoved(r) == Current(Seen(r).generation) /\ analysis.id = Seen(r).analysis.id

\* The whole metadata is written back: a layout that was suggested with the
\* analysis as it was read, a manual one without any.  Only then the job and
\* the lease of the analysis that was dropped go, as far as they can.
ApplyLayout(r) ==
    /\ At(r, "update")
    /\ \/ /\ Unmoved(r)
          /\ generation' = generation + 1
          /\ \/ /\ Seen(r).analysis.status = "ready"
                /\ analysis' = Seen(r).analysis
                /\ UNCHANGED <<job, lease>>
             \/ /\ analysis' = NoAnalysis
                /\ job' \in Discarded(Seen(r))
                /\ lease' \in {lease, Released(Seen(r).analysis.id)}
       \/ \* refused, or too late
          UNCHANGED <<generation, analysis, job, lease>>
    /\ End(r)
    /\ UNCHANGED <<active, run, asks, holder, mishaps>>

\* The document is deleted, replaced by a newer upload, or expires; in the
\* first two cases its job is discarded and its idle leases are released.
DeleteDocument ==
    /\ active
    /\ active' = FALSE
    /\ generation' = generation + 1
    /\ analysis' = NoAnalysis
    /\ job' \in Discarded(Metadata)
    /\ lease' \in {lease, [n \in Askers |-> Released(n)[n]]}
    /\ UNCHANGED <<run, requestVars, mishaps>>

-----------------------------------------------------------------------------
(* execute_layout_analysis, in the RQ worker                               *)

Proceed(n, place) == run' = [run EXCEPT ![n].at = place]

JobEnds(n) ==
    /\ job' = [job EXCEPT ![n] = "finished"]
    /\ run' = [run EXCEPT ![n] = Run("end")]

\* The answer is not wanted any more.
Stale(n) == lease' = Released(n) /\ JobEnds(n)

BeginAnalysis(n) ==
    /\ job[n] = "queued"
    /\ IF active /\ analysis.id = n /\ Valid(n)
       THEN /\ job' = [job EXCEPT ![n] = "started"]
            /\ run' = [run EXCEPT ![n] = [Run("loaded") EXCEPT !.generation = generation,
                                                              !.asked = analysis.question]]
            /\ UNCHANGED lease
       ELSE Stale(n)
    /\ UNCHANGED <<storeVars, requestVars, mishaps>>

\* The phase is marked and the child started; nobody else can have dropped
\* the lease without the analysis.
StartChild(n) ==
    /\ run[n].at = "loaded"
    /\ IF ~Concerns(n, run[n].generation) THEN Stale(n)
       ELSE /\ lease' = [lease EXCEPT ![n].busy = TRUE]
            /\ Proceed(n, "child")
            /\ UNCHANGED job
    /\ UNCHANGED <<storeVars, requestVars, mishaps>>

\* It ends, or is stopped because its lease is not valid any more.
ChildEnds(n) ==
    /\ run[n].at = "child"
    /\ lease' = [lease EXCEPT ![n] = NoLease]
    /\ \E result \in IF Valid(n) THEN {"ready", "failed"} ELSE {"failed"} :
          run' = [run EXCEPT ![n].at = "publish", ![n].result = result]
    /\ UNCHANGED <<storeVars, job, requestVars, mishaps>>

\* Seeded bug: a suggestion that was not found is published too.
PublishResult_Always(n) ==
    /\ run[n].at = "publish"
    /\ analysis' = IF Concerns(n, run[n].generation)
                   THEN [analysis EXCEPT !.status = run[n].result, !.suggestion = run[n].asked]
                   ELSE analysis
    /\ JobEnds(n)
    /\ UNCHANGED <<active, generation, lease, requestVars, mishaps>>

\* publish_analysis
PublishResult(n) ==
    LET result == run[n].result IN
    /\ run[n].at = "publish"
    /\ analysis' = IF Concerns(n, run[n].generation)
                   THEN [analysis EXCEPT !.status = result,
                            !.suggestion = IF result = "ready" THEN run[n].asked ELSE @]
                   ELSE analysis
    /\ JobEnds(n)
    /\ UNCHANGED <<active, generation, lease, requestVars, mishaps>>

\* Killed or out of time; the child dies with it.  RQ notices later.
HorseDies(n) ==
    /\ run[n].at \notin {"none", "end", "dead"}
    /\ mishaps < MaxMishaps /\ mishaps' = mishaps + 1
    /\ lease' = [lease EXCEPT ![n].busy = FALSE]
    /\ run' = [run EXCEPT ![n] = Run("dead")]
    /\ UNCHANGED <<storeVars, job, requestVars>>

JobAbandoned(n) ==
    /\ run[n].at = "dead" /\ job[n] = "started"
    /\ job' = [job EXCEPT ![n] = "failed"]
    /\ UNCHANGED <<storeVars, lease, run, requestVars, mishaps>>

\* reconcile: the supervisor of the lease has gone, or the job has waited for
\* an hour.
ReconcileLease(n) ==
    /\ lease[n].held /\ ~lease[n].busy
    /\ run[n].at \in {"none", "dead"} /\ request[n].at \in {"end", "dead"}
    /\ lease' = Released(n)
    /\ UNCHANGED <<storeVars, job, run, requestVars, mishaps>>

-----------------------------------------------------------------------------
AnalysisInit ==
    /\ active = TRUE /\ generation = 0
    /\ analysis = NoAnalysis
    /\ lease = [n \in Askers |-> NoLease]
    /\ job = [n \in Askers |-> "none"]
    /\ run = [n \in Askers |-> Run("none")]
    /\ request = [r \in Requests |-> Request("start")]
    /\ asks \in [Askers -> Questions]
    /\ holder = NoPost
    /\ mishaps = 0

Refresh(r) == Read(r) \/ Fetch(r) \/ Settle(r)
Post(p) == Refused(p) \/ Reserve(p) \/ PublishAnalysis(p) \/ Enqueue(p)
JobStep(n) ==
    BeginAnalysis(n) \/ StartChild(n) \/ ChildEnds(n) \/ PublishResult(n) \/ JobAbandoned(n)

AnalysisNext ==
    \/ \E r \in Requests : Refresh(r)
    \/ \E p \in Askers : Post(p) \/ EnqueueRaises(p) \/ AskerDies(p)
    \/ SubmitLockExpires
    \/ \E r \in Layouts : ApplyLayout(r)
    \/ DeleteDocument
    \/ \E n \in Askers : JobStep(n) \/ HorseDies(n) \/ ReconcileLease(n)

\* Clients poll, requests that are not killed go on, and so does the worker.
AnalysisFairness ==
    /\ \A r \in Polls : WF_analysisVars(Refresh(r))
    /\ \A n \in Askers : WF_analysisVars(PublishAnalysis(n) \/ Enqueue(n)) /\ WF_analysisVars(JobStep(n))

AnalysisSpec == AnalysisInit /\ [][AnalysisNext]_analysisVars /\ AnalysisFairness

-----------------------------------------------------------------------------
(* Properties                                                              *)

Analyses ==
    {NoAnalysis} \cup
    [id : Askers, question : Questions, status : {"analyzing", "ready", "failed"},
     suggestion : Questions \cup {NoQuestion}]

\* The shape of the state: a child works on a lease that is there, and a
\* suggestion comes with the status that announces it.
AnalysisTypeOK ==
    /\ active \in BOOLEAN /\ generation \in Nat
    /\ analysis \in Analyses
    /\ (analysis.suggestion # NoQuestion) = (analysis.status = "ready")
    /\ lease \in [Askers -> [held : BOOLEAN, busy : BOOLEAN, generation : Nat \cup {Revoked}]]
    /\ \A n \in Askers : lease[n].busy => lease[n].held /\ run[n].at = "child"
    /\ job \in [Askers -> {"none", "queued", "started", "finished", "failed", "canceled"}]
    /\ \A r \in Requests : Seen(r).analysis \in Analyses /\ Seen(r).generation \in Nat
    /\ asks \in [Askers -> Questions]
    /\ holder \in Askers \cup {NoPost}

\* The suggestion a document shows belongs to the pages and the way metadata
\* is used that it shows, although jobs, polls and layouts finish in any
\* order; a suggestion is withdrawn only by another question or a layout.
FreshAnalysis == INSTANCE FreshAnswer WITH
    question <- analysis.question, answer <- analysis.suggestion,
    Questions <- Questions, Nothing <- NoQuestion
AnalysisIsFresh == FreshAnalysis!Spec

\* Of the analyses of a document only the one on record may go on: the child
\* of any other has lost its lease and is stopped at its supervisor's next
\* look, so an account cannot pile them up.
OneAnalysisWorks == \A n \in Askers : lease[n].busy /\ Valid(n) => analysis.id = n

\* A client that polls is told an end whatever is killed, even between the
\* publication of an analysis and the queueing of its job.
PolledAnalysisEnds == analysis.status = "analyzing" ~> analysis.status # "analyzing"

=============================================================================
