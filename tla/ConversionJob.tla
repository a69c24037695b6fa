--------------------------- MODULE ConversionJob ---------------------------
(***************************************************************************)
(* The life of one billed conversion job: the POST handlers that admit and *)
(* confirm it, the RQ attempts that run it, the clients that poll and      *)
(* cancel it, the worker's sweep, the RQ callbacks, and the quota service  *)
(* they all call.  app/job_queue.py, app/tasks.py, app/routes.py,          *)
(* app/billing.py, worker.py.                                              *)
(*                                                                         *)
(* The per-job Redis lock is explicit: it is held across calls to the      *)
(* quota service, a caller gives up after five seconds, and a process      *)
(* killed inside keeps it until it expires.                                *)
(***************************************************************************)
EXTENDS Naturals, FiniteSets

CONSTANTS
    Posts,        \* POST requests carrying the same X-Conversion-Request-ID
    Clients,      \* GET and DELETE requests for the job
    Sweep,        \* the cleanup thread of worker.py
    Free,         \* the value of an unlocked job lock
    JobType,      \* "plt_to_pdf", "pdf_to_plt" or "pdf_to_pdf"
    Access,       \* billing_access_method: "free", "ad" or "vip"
    MaxCrashes,   \* bound: processes killed
    MaxFaults     \* bound: calls to the quota service that go wrong

MaxRetries == 1
Attempts == 0..MaxRetries
Actors == Posts \cup Attempts \cup Clients \cup {Sweep}

ASSUME ActorsAssumption ==
    /\ Posts \cap Clients = {}
    /\ (Posts \cup Clients) \cap (Attempts \cup {Sweep}) = {}
    /\ Sweep \notin Attempts
    /\ Free \notin Actors

ASSUME KindAssumption ==
    /\ JobType \in {"plt_to_pdf", "pdf_to_plt", "pdf_to_pdf"}
    /\ Access \in {"free", "ad", "vip"}

ASSUME BoundsAssumption ==
    /\ MaxCrashes \in Nat
    /\ MaxFaults \in Nat

VARIABLES
    rec,      \* the Redis record plt-converter:job:<job_id>
    file,     \* TRUE iff the result file is on disk
    ledger,   \* the usage the quota service keeps for the request
    lock,     \* holder of plt-converter:job-lock:<job_id>
    pc,       \* where each actor is
    seen,     \* the record a client loaded without the lock
    stop,     \* attempts a stop command was sent to and has not reached
    crashes, faults,
    late      \* history: a failure report of an attempt that had handed the
              \* job over to its retry has ended the job

vars == <<rec, file, ledger, lock, pc, seen, stop, crashes, faults, late>>

-----------------------------------------------------------------------------
(* Records and control states *)

Waiting == {"billing_pending", "queued"}
Active == Waiting \cup {"processing", "finalizing", "cancelling"}
Unsuccessful == {"failed", "cancelled"}
Terminal == {"done"} \cup Unsuccessful

Record == [status : {"none"} \cup Active \cup Terminal,
           cancelRequested : BOOLEAN, confirmed : BOOLEAN,
           retries : Attempts, result : BOOLEAN,
           released : BOOLEAN, rollback : BOOLEAN]

NoRecord == [status |-> "none", cancelRequested |-> FALSE, confirmed |-> FALSE,
             retries |-> 0, result |-> FALSE, released |-> FALSE,
             rollback |-> FALSE]

NewRecord == [NoRecord EXCEPT !.status = "billing_pending"]

\* Only these jobs reserve a usage that the worker settles.
Billable == JobType = "pdf_to_pdf" \/ Access \in {"ad", "free"}

PostStates == {"start", "submit", "commit", "confirm", "rollback", "refund",
               "refundUnbound", "accepted", "refused"}

\* An attempt inside execute_job.  It holds the job lock in Holding.
Holding == {"committing", "counted", "releasing"}
Running == Holding \cup {"wait", "deadline", "convert", "publish", "finalize",
                         "retryable", "broken", "failing", "returned"}

AttemptStates == Running \cup {"none", "queued", "stopping", "dead", "gone"}

ClientStates == Holding \cup {"idle", "finalize", "refund",
                              "markReleased", "markUnreleased"}

SweepStates == Holding \cup {"idle"}

Go(a, state) == pc' = [pc EXCEPT ![a] = state]

-----------------------------------------------------------------------------
(* The quota service, as app/billing.py uses it.  An answer may be lost,   *)
(* or arrive unreadable (json.loads raises ValueError), after the call     *)
(* took effect; MaxFaults bounds the calls that go wrong.                  *)

Fault ==
    /\ faults < MaxFaults
    /\ faults' = faults + 1

Committed(completed) ==
    IF ledger \in {"none", "released"} THEN ledger
    ELSE IF completed \/ ledger = "counted" THEN "counted" ELSE "started"

\* "rejected" is a status below 500 other than 200, or a body that cannot be
\* read; "outage" is any other failure.
CommitCall(completed, answer) ==
    \/ /\ answer = IF ledger \in {"none", "released"} THEN "rejected" ELSE "ok"
       /\ ledger' = Committed(completed)
       /\ UNCHANGED faults
    \/ /\ answer \in {"rejected", "outage"}
       /\ ledger' \in {ledger, Committed(completed)}
       /\ Fault

Refunded(rollback) ==
    IF \/ ledger \in {"reserved", "started"}
       \/ ledger = "counted" /\ rollback
    THEN "released" ELSE ledger

\* release_conversion answers False for a call that failed; an unreadable
\* body raises out of it.
ReleaseAnswers == {"released", "refused", "unreadable"}

ReleaseCall(rollback, answer) ==
    \/ /\ answer = IF Refunded(rollback) = "released" THEN "released" ELSE "refused"
       /\ ledger' = Refunded(rollback)
       /\ UNCHANGED faults
    \/ /\ answer \in {"refused", "unreadable"}
       /\ ledger' \in {ledger, Refunded(rollback)}
       /\ Fault

-----------------------------------------------------------------------------
(* Writes made under the job lock *)

\* Seeded bug: a cancelled job is not refunded.
AfterLoad_FailedOnly(record) ==
    CASE record.status = "finalizing" -> "finalize"
      [] Billable /\ record.status = "failed" /\ ~record.released -> "refund"
      [] OTHER -> "idle"

\* settle_terminal_conversion_billing, given the record it has loaded.
AfterLoad(record) ==
    CASE record.status = "finalizing" -> "finalize"
      [] Billable /\ record.status \in Unsuccessful /\ ~record.released -> "refund"
      [] OTHER -> "idle"

\* Where an actor goes when its locked work is over.
Resume(a, record) ==
    CASE a \in Attempts -> "returned"
      [] a \in Clients -> AfterLoad(record)
      [] OTHER -> "idle"

\* A client keeps the record it goes on to settle.
Remember(a, record) ==
    seen' = IF a \in Clients /\ AfterLoad(record) = "refund"
            THEN [seen EXCEPT ![a] = record] ELSE seen

\* A failed or cancelled job: the status is written, and a billable job
\* keeps the lock for persist_terminal_conversion_billing_release.
EndJob(a, record) ==
    /\ rec' = record
    /\ late' = (late \/ (a \in Attempts /\ a < rec.retries))
    /\ IF Billable
       THEN Go(a, "releasing") /\ lock' = a
       ELSE Go(a, Resume(a, record)) /\ lock' = Free
    /\ UNCHANGED <<file, ledger, seen, stop, crashes, faults>>

Failed(record) == [record EXCEPT !.status = "failed"]
Cancelled(record) == [record EXCEPT !.status = "cancelled"]

CancelAsked == rec.cancelRequested \/ rec.status = "cancelling"

\* Seeded bug: the answer of the quota service is not looked at.
PersistRelease_Unchecked(a) ==
    /\ pc[a] = "releasing"
    /\ lock = a
    /\ \E answer \in ReleaseAnswers : ReleaseCall(rec.rollback, answer)
    /\ rec' = [rec EXCEPT !.released = TRUE]
    /\ Go(a, Resume(a, rec'))
    /\ Remember(a, rec')
    /\ lock' = Free
    /\ UNCHANGED <<file, stop, crashes, late>>

\* persist_terminal_conversion_billing_release, where an exception counts
\* as not released, and the end of the lock.
PersistRelease(a) ==
    /\ pc[a] = "releasing"
    /\ lock = a
    /\ \E answer \in ReleaseAnswers :
        /\ ReleaseCall(rec.rollback, answer)
        /\ rec' = [rec EXCEPT !.released = (answer = "released")]
        /\ Go(a, Resume(a, rec'))
        /\ Remember(a, rec')
    /\ lock' = Free
    /\ UNCHANGED <<file, stop, crashes, late>>

-----------------------------------------------------------------------------
(* finalize_ready_conversion_job, run by an attempt, a poller or the sweep *)

\* Seeded bug: only attempts and pollers finalize, there is no sweep.
Ready_NoSweep(a) ==
    /\ lock = Free
    /\ a # Sweep
    /\ pc[a] = "finalize"

Ready(a) ==
    /\ lock = Free
    /\ pc[a] = IF a = Sweep THEN "idle" ELSE "finalize"

OutputMissing == ~rec.result \/ ~file

FinalizeStale(a) ==
    /\ Ready(a)
    /\ rec.status # "finalizing"
    /\ a # Sweep
    /\ Go(a, Resume(a, rec))
    /\ Remember(a, rec)
    /\ UNCHANGED <<rec, file, ledger, lock, stop, crashes, faults, late>>

FinalizeMissing(a) ==
    /\ Ready(a)
    /\ rec.status = "finalizing"
    /\ OutputMissing
    /\ EndJob(a, [rec EXCEPT !.status = "failed", !.rollback = TRUE])

FinalizeBegin(a) ==
    /\ Ready(a)
    /\ rec.status = "finalizing"
    /\ ~OutputMissing
    /\ lock' = a
    /\ Go(a, "committing")
    /\ UNCHANGED <<rec, file, ledger, seen, stop, crashes, faults, late>>

\* Seeded bug: an outage is taken for a success.
FinalizeCommit_Optimistic(a) ==
    /\ pc[a] = "committing"
    /\ lock = a
    /\ \E answer \in {"ok", "outage"} : CommitCall(TRUE, answer)
    /\ Go(a, "counted")
    /\ UNCHANGED <<rec, file, lock, seen, stop, crashes, late>>

\* Seeded bug: an outage fails the job and rolls a completed usage back.
FinalizeCommit_NoRetry(a) ==
    /\ pc[a] = "committing"
    /\ lock = a
    /\ \E answer \in {"ok", "rejected", "outage"} :
        /\ CommitCall(TRUE, answer)
        /\ IF answer = "ok" THEN Go(a, "counted") /\ UNCHANGED rec
           ELSE /\ Go(a, "releasing")
                /\ rec' = [rec EXCEPT !.status = "failed", !.rollback = TRUE]
    /\ UNCHANGED <<file, lock, seen, stop, crashes, late>>

\* An answer of 500 or more, or none, leaves the job finalizing; any other
\* refusal, and a body that cannot be read, fails it, without the rollback of
\* a usage that may have been counted.
FinalizeCommit(a) ==
    /\ pc[a] = "committing"
    /\ lock = a
    /\ \E answer \in {"ok", "rejected", "outage"} :
        /\ CommitCall(TRUE, answer)
        /\ CASE answer = "ok" -> Go(a, "counted") /\ UNCHANGED <<rec, lock>>
             [] answer = "rejected" ->
                  /\ Go(a, "releasing") /\ UNCHANGED lock
                  /\ rec' = [rec EXCEPT !.status = "failed", !.rollback = FALSE]
             [] answer = "outage" ->
                  /\ Go(a, IF a \in Attempts THEN "broken" ELSE "idle")
                  /\ lock' = Free /\ UNCHANGED rec
    /\ UNCHANGED <<file, seen, stop, crashes, late>>

FinalizeDone(a) ==
    /\ pc[a] = "counted"
    /\ lock = a
    /\ rec' = [rec EXCEPT !.status = "done"]
    /\ lock' = Free
    /\ Go(a, IF a \in Attempts THEN "returned" ELSE "idle")
    /\ UNCHANGED <<file, ledger, seen, stop, crashes, faults, late>>

Finalize(a) ==
    \/ FinalizeStale(a)
    \/ FinalizeMissing(a)
    \/ FinalizeBegin(a)
    \/ FinalizeCommit(a)
    \/ FinalizeDone(a)

-----------------------------------------------------------------------------
(* POST handlers: authorize_job, submit_job, commit_conversion,            *)
(* confirm_job_billing, rollback_conversion_submission                     *)

\* Repage jobs commit before the worker runs only when backed by an ad.
CommitsEarly == JobType # "pdf_to_pdf" \/ Access = "ad"
AfterAdmission == IF CommitsEarly THEN "commit" ELSE "confirm"

\* The PLT and PDF-to-PLT routes count the request as confirmed once the
\* quota service took the commit, the repage route after confirm_job_billing.
AfterRefusedConfirm == IF JobType = "pdf_to_pdf" THEN "rollback" ELSE "refused"

Reserved == IF ledger \in {"none", "released"} THEN "reserved" ELSE ledger

\* A request repeated after its job failed makes another job, which is
\* another instance of this module.
Authorize(p) ==
    /\ pc[p] = "start"
    /\ rec.status \notin Unsuccessful
    /\ ledger' = Reserved
    /\ Go(p, "submit")
    /\ UNCHANGED <<rec, file, lock, seen, stop, crashes, faults, late>>

\* The answer is lost or the request refused: nothing is rolled back.
AuthorizeRefused(p) ==
    /\ pc[p] = "start"
    /\ rec.status \notin Unsuccessful
    /\ ledger' \in {ledger, Reserved}
    /\ Fault
    /\ Go(p, "refused")
    /\ UNCHANGED <<rec, file, lock, seen, stop, crashes, late>>

SubmitNew(p) ==
    /\ pc[p] = "submit"
    /\ rec.status = "none"
    /\ rec' = NewRecord
    /\ pc' = [pc EXCEPT ![p] = AfterAdmission, ![0] = "queued"]
    /\ UNCHANGED <<file, ledger, lock, seen, stop, crashes, faults, late>>

\* Rate limit, user capacity or a full queue: there is no record to cancel.
SubmitRejected(p) ==
    /\ pc[p] = "submit"
    /\ rec.status = "none"
    /\ Go(p, "refundUnbound")
    /\ UNCHANGED <<rec, file, ledger, lock, seen, stop, crashes, faults, late>>

\* enqueue_call raises, or the index write after it does, when the attempt
\* is already queued.
SubmitBroken(p) ==
    /\ pc[p] = "submit"
    /\ rec.status = "none"
    /\ rec' = Failed(NewRecord)
    /\ \E queued \in BOOLEAN :
         pc' = [pc EXCEPT ![p] = "refundUnbound",
                          ![0] = IF queued THEN "queued" ELSE "none"]
    /\ UNCHANGED <<file, ledger, lock, seen, stop, crashes, faults, late>>

SubmitDuplicate(p) ==
    /\ pc[p] = "submit"
    /\ rec.status \in Active \/ (rec.status = "done" /\ file)
    /\ Go(p, AfterAdmission)
    /\ UNCHANGED <<rec, file, ledger, lock, seen, stop, crashes, faults, late>>

CommitByPost(p) ==
    /\ pc[p] = "commit"
    /\ \E answer \in {"ok", "rejected", "outage"} :
        /\ CommitCall(FALSE, answer)
        /\ Go(p, IF answer = "ok" THEN "confirm" ELSE "rollback")
    /\ UNCHANGED <<rec, file, lock, seen, stop, crashes, late>>

Confirm(p) ==
    /\ pc[p] = "confirm"
    /\ lock = Free
    /\ rec' = IF rec.status = "billing_pending"
              THEN [rec EXCEPT !.status = "queued", !.confirmed = TRUE] ELSE rec
    /\ Go(p, IF ~rec.confirmed /\ rec.status \in Terminal
              THEN AfterRefusedConfirm ELSE "accepted")
    /\ UNCHANGED <<file, ledger, lock, seen, stop, crashes, faults, late>>

ConfirmLockBusy(p) ==
    /\ pc[p] = "confirm"
    /\ lock # Free
    /\ Go(p, AfterRefusedConfirm)
    /\ UNCHANGED <<rec, file, ledger, lock, seen, stop, crashes, faults, late>>

\* Without a job id the service only lets go of a usage no job has taken.
RefundByPost(p) ==
    /\ pc[p] \in {"refund", "refundUnbound"}
    /\ \/ /\ pc[p] = "refund" \/ ledger = "reserved"
          /\ \E answer \in ReleaseAnswers : ReleaseCall(FALSE, answer)
       \/ /\ pc[p] = "refundUnbound" /\ ledger # "reserved"
          /\ UNCHANGED <<ledger, faults>>
    /\ Go(p, "refused")
    /\ UNCHANGED <<rec, file, lock, seen, stop, crashes, late>>

-----------------------------------------------------------------------------
(* cancel_job, called by DELETE and by a POST that rolls back              *)

Executing(k) == pc[k] \in Running \cup {"dead"}

\* A POST keeps its hands off a result that is ready.
AfterCancel(a, record) ==
    IF a \in Clients THEN AfterLoad(record)
    ELSE IF record.status \in {"finalizing", "done"} THEN "refused" ELSE "refund"

CancelJob(a) ==
    /\ lock = Free
    /\ rec.status # "none"
    /\ \/ /\ rec.status \in Terminal \cup {"finalizing"}
          /\ Go(a, AfterCancel(a, rec))
          /\ UNCHANGED <<rec, stop>>
       \/ \* NoSuchJobError: RQ has forgotten the attempt.
          /\ rec.status \in Active \ {"finalizing"}
          /\ pc[rec.retries] = "gone"
          /\ rec' = Cancelled(rec)
          /\ Go(a, AfterCancel(a, rec'))
          /\ UNCHANGED stop
       \/ /\ rec.status \in Waiting
          /\ rec' = Cancelled(rec)
          /\ pc' = [pc EXCEPT ![a] = AfterCancel(a, rec'),
                              ![rec.retries] = IF @ = "queued" THEN "gone" ELSE @]
          /\ UNCHANGED stop
       \/ /\ rec.status \in {"processing", "cancelling"}
          /\ Executing(rec.retries)
          /\ rec' = [rec EXCEPT !.status = "cancelling", !.cancelRequested = TRUE]
          /\ stop' = stop \cup {rec.retries}
          /\ Go(a, AfterCancel(a, rec'))
       \/ \* InvalidJobOperation: the attempt is not executing any more.
          /\ rec.status \in {"processing", "cancelling"}
          /\ pc[rec.retries] \in {"gone", "dead"}
          /\ rec' = [rec EXCEPT !.cancelRequested = FALSE]
          /\ Go(a, AfterCancel(a, rec'))
          /\ UNCHANGED stop

Rollback(p) ==
    /\ pc[p] = "rollback"
    /\ CancelJob(p)
    /\ UNCHANGED <<file, ledger, lock, seen, crashes, faults, late>>

\* QueueRejected: the job lock was busy for five seconds.
RollbackLockBusy(p) ==
    /\ pc[p] = "rollback"
    /\ lock # Free
    /\ Go(p, "refund")
    /\ UNCHANGED <<rec, file, ledger, lock, seen, stop, crashes, faults, late>>

-----------------------------------------------------------------------------
(* Clients: GET and DELETE                                                 *)

Get(c) ==
    /\ pc[c] = "idle"
    /\ AfterLoad(rec) # "idle"
    /\ Go(c, AfterLoad(rec))
    /\ Remember(c, rec)
    /\ UNCHANGED <<rec, file, ledger, lock, stop, crashes, faults, late>>

Delete(c) ==
    /\ pc[c] = "idle"
    /\ CancelJob(c)
    /\ Remember(c, rec')
    /\ UNCHANGED <<file, ledger, lock, crashes, faults, late>>

\* release_conversion, then the read half of update_job, which takes no
\* lock; an unreadable answer ends the request (500) with nothing written.
RefundByClient(c) ==
    /\ pc[c] = "refund"
    /\ \E answer \in ReleaseAnswers :
        /\ ReleaseCall(seen[c].rollback, answer)
        /\ Go(c, CASE answer = "released" -> "markReleased"
                    [] answer = "refused" -> "markUnreleased"
                    [] answer = "unreadable" -> "idle")
    /\ seen' = [seen EXCEPT ![c] = rec]
    /\ UNCHANGED <<rec, file, lock, stop, crashes, late>>

\* The write half of update_job puts the whole record back.
MarkReleased(c) ==
    /\ pc[c] \in {"markReleased", "markUnreleased"}
    /\ rec' = [seen[c] EXCEPT !.released = (pc[c] = "markReleased")]
    /\ seen' = [seen EXCEPT ![c] = NoRecord]
    /\ Go(c, "idle")
    /\ UNCHANGED <<file, ledger, lock, stop, crashes, faults, late>>

\* finalize_ready_conversion_job cannot take the lock: 503.
ClientLockBusy(c) ==
    /\ pc[c] = "finalize"
    /\ lock # Free
    /\ Go(c, "idle")
    /\ UNCHANGED <<rec, file, ledger, lock, seen, stop, crashes, faults, late>>

-----------------------------------------------------------------------------
(* RQ attempts: execute_job                                                *)

Start(k) ==
    /\ pc[k] = "queued"
    /\ Go(k, "wait")
    /\ UNCHANGED <<rec, file, ledger, lock, seen, stop, crashes, faults, late>>

\* The confirmation deadline passes while the record, read without the
\* lock, is still unconfirmed.
DeadlinePasses(k) ==
    /\ pc[k] = "wait"
    /\ rec.status = "billing_pending"
    /\ Go(k, "deadline")
    /\ UNCHANGED <<rec, file, ledger, lock, seen, stop, crashes, faults, late>>

\* Seeded bug: the attempt gives up without failing the job.
GiveUpWaiting_Silent(k) ==
    /\ pc[k] = "deadline"
    /\ lock = Free
    /\ Go(k, "returned")
    /\ UNCHANGED <<rec, file, ledger, lock, seen, stop, crashes, faults, late>>

\* The record is read again under the lock; the attempt ends either way.
GiveUpWaiting(k) ==
    /\ pc[k] = "deadline"
    /\ lock = Free
    /\ \/ /\ rec.status = "billing_pending"
          /\ EndJob(k, Failed(rec))
       \/ /\ rec.status # "billing_pending"
          /\ Go(k, "returned")
          /\ UNCHANGED <<rec, file, ledger, lock, seen, stop, crashes, faults, late>>

\* Seeded bug: a job that has ended is started.
Begin_Blind(k) ==
    /\ pc[k] = "wait"
    /\ rec.status # "billing_pending"
    /\ lock = Free
    /\ rec' = [rec EXCEPT !.status = "processing"]
    /\ Go(k, "convert")
    /\ UNCHANGED <<file, ledger, lock, seen, stop, crashes, faults, late>>

Begin(k) ==
    /\ pc[k] = "wait"
    /\ rec.status # "billing_pending"
    /\ \/ /\ rec.status = "finalizing"
          /\ Go(k, "finalize")
          /\ UNCHANGED <<rec, file, ledger, lock, seen, stop, crashes, faults, late>>
       \/ /\ lock = Free
          /\ rec.status \in Terminal \cup {"finalizing"}
          /\ Go(k, "returned")
          /\ UNCHANGED <<rec, file, ledger, lock, seen, stop, crashes, faults, late>>
       \/ /\ lock = Free
          /\ rec.status \notin Terminal \cup {"finalizing"}
          /\ rec.cancelRequested
          /\ EndJob(k, Cancelled(rec))
       \/ /\ lock = Free
          /\ rec.status \notin Terminal \cup {"finalizing"}
          /\ ~rec.cancelRequested
          /\ rec' = [rec EXCEPT !.status = "processing"]
          /\ Go(k, "convert")
          /\ UNCHANGED <<file, ledger, lock, seen, stop, crashes, faults, late>>

\* _execute: the result file is written, or the conversion raises.
Convert(k) ==
    /\ pc[k] = "convert"
    /\ \E next \in {"publish", "retryable", "broken"} :
        /\ Go(k, next)
        /\ file' = (file \/ next = "publish")
    /\ UNCHANGED <<rec, ledger, lock, seen, stop, crashes, faults, late>>

\* Seeded bug: a cancellation that arrived during the conversion is lost.
Publish_IgnoresCancel(k) ==
    /\ pc[k] = "publish"
    /\ lock = Free
    /\ rec' = [rec EXCEPT !.status = IF Billable THEN "finalizing" ELSE "done",
                          !.result = TRUE]
    /\ Go(k, IF Billable THEN "finalize" ELSE "returned")
    /\ UNCHANGED <<file, ledger, lock, seen, stop, crashes, faults, late>>

\* Seeded bug: the result is shown before it is billed.
Publish_Unbilled(k) ==
    /\ pc[k] = "publish"
    /\ lock = Free
    /\ rec' = [rec EXCEPT !.status = "done", !.result = TRUE]
    /\ Go(k, "returned")
    /\ UNCHANGED <<file, ledger, lock, seen, stop, crashes, faults, late>>

Publish(k) ==
    /\ pc[k] = "publish"
    /\ lock = Free
    /\ \/ /\ rec.cancelRequested
          /\ EndJob(k, Cancelled(rec))
       \/ /\ ~rec.cancelRequested
          /\ rec' = [rec EXCEPT !.status = IF Billable THEN "finalizing" ELSE "done",
                                !.result = TRUE]
          /\ Go(k, IF Billable THEN "finalize" ELSE "returned")
          /\ UNCHANGED <<file, ledger, lock, seen, stop, crashes, faults, late>>

\* Seeded bug: the attempt converts again itself as well.
EnqueueRetry_InPlace(k) ==
    LET next == [rec EXCEPT !.status = "queued", !.retries = @ + 1]
    IN  /\ rec' = next
        /\ pc' = [pc EXCEPT ![k] = "convert", ![next.retries] = "queued"]
        /\ UNCHANGED <<file, ledger, lock, seen, stop, crashes, faults, late>>

\* enqueue_retry: the record is queued again before enqueue_call.
EnqueueRetry(k) ==
    LET next == [rec EXCEPT !.status = "queued", !.retries = @ + 1]
    IN  \/ /\ rec' = next
           /\ pc' = [pc EXCEPT ![k] = "returned", ![next.retries] = "queued"]
           /\ UNCHANGED <<file, ledger, lock, seen, stop, crashes, faults, late>>
        \/ EndJob(k, Failed(next))

\* Seeded bug: one retry too many.
SettleFailure_OffByOne(k, transient) ==
    IF transient /\ rec.retries <= MaxRetries
    THEN EnqueueRetry(k) ELSE EndJob(k, Failed(rec))

\* What execute_job and mark_job_failed do with a job that did not succeed.
SettleFailure(k, transient) ==
    \/ /\ CancelAsked
       /\ EndJob(k, Cancelled(rec))
    \/ /\ ~CancelAsked
       /\ transient /\ rec.retries < MaxRetries
       /\ EnqueueRetry(k)
    \/ /\ ~CancelAsked
       /\ ~(transient /\ rec.retries < MaxRetries)
       /\ EndJob(k, Failed(rec))

\* The exception handlers of execute_job.
HandleError(k) ==
    /\ pc[k] \in {"retryable", "broken"}
    /\ lock = Free
    /\ \/ /\ rec.status \in {"finalizing", "done"}
          /\ Go(k, "returned")
          /\ UNCHANGED <<rec, file, ledger, lock, seen, stop, crashes, faults, late>>
       \/ /\ rec.status \notin {"finalizing", "done"}
          /\ SettleFailure(k, pc[k] = "retryable")

\* The job lock is busy for five seconds: QueueRejected.
AttemptLockBusy(k) ==
    /\ lock # Free
    /\ pc[k] = "wait" => rec.status # "billing_pending"
    /\ \/ /\ pc[k] \in {"wait", "deadline", "retryable", "broken"}
          /\ Go(k, "failing")
       \/ /\ pc[k] \in {"publish", "finalize"}
          /\ Go(k, "broken")
       \/ /\ pc[k] \in {"failing", "stopping", "dead"}
          /\ Go(k, "gone")
    /\ UNCHANGED <<rec, file, ledger, lock, seen, stop, crashes, faults, late>>

-----------------------------------------------------------------------------
(* RQ callbacks.  A killed process leaves its lock to expire.              *)

\* on_failure: the exception escaped execute_job, or RQ found the attempt
\* abandoned.  The attempt is not compared with the record's rq_job_id: one
\* killed behind enqueue_retry fails the job under its retry (late).
MarkJobFailed(k) ==
    /\ pc[k] \in {"failing", "dead"}
    /\ lock = Free
    /\ \/ /\ rec.status \in Terminal \cup {"finalizing"}
          /\ Go(k, "returned")
          /\ UNCHANGED <<rec, file, ledger, lock, seen, stop, crashes, faults, late>>
       \/ /\ rec.status \notin Terminal \cup {"finalizing"}
          /\ \E transient \in {FALSE, pc[k] = "failing"} : SettleFailure(k, transient)

\* A stop command reaches the worker, which kills the attempt.
StopDelivered(k) ==
    /\ k \in stop
    /\ stop' = stop \ {k}
    /\ pc' = [pc EXCEPT ![k] = IF @ \in Running THEN "stopping" ELSE @]
    /\ UNCHANGED <<rec, file, ledger, lock, seen, crashes, faults, late>>

\* on_stopped
MarkJobStopped(k) ==
    /\ pc[k] = "stopping"
    /\ lock = Free
    /\ \/ /\ rec.status \in Terminal \cup {"finalizing"}
          /\ Go(k, "returned")
          /\ UNCHANGED <<rec, file, ledger, lock, seen, stop, crashes, faults, late>>
       \/ /\ rec.status \notin Terminal \cup {"finalizing"}
          /\ EndJob(k, Cancelled(rec))

RqFinish(k) ==
    /\ pc[k] = "returned"
    /\ Go(k, "gone")
    /\ UNCHANGED <<rec, file, ledger, lock, seen, stop, crashes, faults, late>>

Crash(a) ==
    /\ crashes < MaxCrashes
    /\ crashes' = crashes + 1
    /\ \/ /\ a \in Attempts
          /\ pc[a] \in Running
          /\ Go(a, "dead")
       \/ /\ a \in Clients \cup {Sweep}
          /\ pc[a] # "idle"
          /\ Go(a, "idle")
       \/ /\ a \in Posts
          /\ pc[a] \notin {"start", "accepted", "refused"}
          /\ Go(a, "refused")
    /\ UNCHANGED <<rec, file, ledger, lock, seen, stop, faults, late>>

\* The thirty-second timeout of a lock whose holder was killed.
LockExpires ==
    /\ lock \in Actors
    /\ pc[lock] \notin Holding
    /\ lock' = Free
    /\ UNCHANGED <<rec, file, ledger, pc, seen, stop, crashes, faults, late>>

\* The result file disappears from PLT_TEMP_FOLDER.
LoseFile ==
    /\ file
    /\ rec.result
    /\ file' = FALSE
    /\ UNCHANGED <<rec, ledger, lock, pc, seen, stop, crashes, faults, late>>

-----------------------------------------------------------------------------
Init ==
    /\ rec = NoRecord
    /\ file = FALSE
    /\ ledger = "none"
    /\ lock = Free
    /\ pc = [a \in Actors |-> IF a \in Posts THEN "start"
                             ELSE IF a \in Attempts THEN "none" ELSE "idle"]
    /\ seen = [c \in Clients |-> NoRecord]
    /\ stop = {}
    /\ crashes = 0
    /\ faults = 0
    /\ late = FALSE

PostNext(p) ==
    \/ Authorize(p) \/ AuthorizeRefused(p) \/ SubmitNew(p)
    \/ SubmitRejected(p) \/ SubmitBroken(p) \/ SubmitDuplicate(p) \/ CommitByPost(p) \/ Confirm(p) \/ ConfirmLockBusy(p)
    \/ Rollback(p) \/ RollbackLockBusy(p) \/ RefundByPost(p)

AttemptNext(k) ==
    \/ Start(k) \/ DeadlinePasses(k) \/ GiveUpWaiting(k) \/ Begin(k)
    \/ Convert(k) \/ Publish(k) \/ HandleError(k) \/ AttemptLockBusy(k)
    \/ MarkJobFailed(k) \/ StopDelivered(k) \/ MarkJobStopped(k) \/ RqFinish(k)

Settling(c) ==
    RefundByClient(c) \/ MarkReleased(c) \/ ClientLockBusy(c)

ClientNext(c) == Get(c) \/ Delete(c) \/ Settling(c)

Shared(a) == Finalize(a) \/ PersistRelease(a)

Next ==
    \/ \E p \in Posts : PostNext(p)
    \/ \E k \in Attempts : AttemptNext(k) \/ Shared(k)
    \/ \E c \in Clients : ClientNext(c) \/ Shared(c)
    \/ Shared(Sweep)
    \/ \E a \in Actors : Crash(a)
    \/ LockExpires
    \/ LoseFile

\* Workers, the sweep and the requests in progress run on; nobody has to
\* post, poll or cancel.
Fairness ==
    /\ \A p \in Posts : WF_vars(PostNext(p))
    /\ \A k \in Attempts : WF_vars(AttemptNext(k)) /\ WF_vars(Shared(k))
    /\ \A c \in Clients : WF_vars(Settling(c)) /\ WF_vars(Shared(c))
    /\ WF_vars(Shared(Sweep))
    /\ WF_vars(LockExpires)

Spec == Init /\ [][Next]_vars

FairSpec == Spec /\ Fairness

\* Somebody keeps polling the job.
Polling == \A c \in Clients : WF_vars(Get(c))

-----------------------------------------------------------------------------
(* Properties                                                              *)

\* The type invariant: every record, lock holder and control state is one
\* the code can write.
TypeOK ==
    /\ rec \in Record
    /\ file \in BOOLEAN
    /\ ledger \in {"none", "reserved", "started", "counted", "released"}
    /\ lock \in Actors \cup {Free}
    /\ pc \in [Actors -> PostStates \cup AttemptStates \cup ClientStates]
    /\ seen \in [Clients -> Record]
    /\ stop \subseteq Attempts
    /\ crashes \in Nat /\ faults \in Nat
    /\ late \in BOOLEAN

\* A result the download routes serve (status done) is paid for: the quota
\* service has counted the usage and never takes it back.  A late report is
\* the exception: it refunds a job whose retry may still be published.
DoneIsCounted ==
    ~late /\ Billable /\ rec.status = "done" => ledger = "counted"

\* A failed or cancelled job marked billing_released, which no poll will try
\* to release again, has had its usage released, also when a poller writes
\* the record back without the lock; until a late report ends the job.
ReleasedIsReleased ==
    ~late /\ rec.released /\ rec.status \in Unsuccessful => ledger = "released"

\* At most one attempt of the job converts at a time, retries, crashes and
\* late failure reports included.
OneAttemptConverts ==
    \A j, k \in Attempts :
        pc[j] \in {"convert", "publish"} /\ pc[k] \in {"convert", "publish"} => j = k

\* An ended job stays ended: no retry, callback or unlocked write of a
\* poller changes a terminal status.  Only a job that a late report ended
\* under its running retry comes back to life: the retry publishes it.
EndsAreFinal ==
    [][rec.status \in Terminal => rec'.status = rec.status \/ late]_vars

\* A cancellation the service has accepted is never undone: the job is not
\* retried, published or resumed, although the stop command may be lost and
\* a failure report may be late.
CancelIsHonoured ==
    [][rec.status = "cancelling" =>
        rec'.status \in {"cancelling", "cancelled", "failed"}]_vars

\* A counted usage is given back only when the result cannot be served, by
\* whichever attempt, poller or late report the job was ended.
CountedIsGivenBackOnlyIfLost ==
    [][ledger = "counted" /\ ledger' # "counted" => ~file]_vars

BilledDelivery == INSTANCE BilledDelivery WITH
    visible <- rec.status = "done",
    usage <- CASE ledger \in {"reserved", "started"} -> "held"
               [] ledger = "released" -> "returned"
               [] OTHER -> ledger

\* The job keeps the promise of BilledDelivery as long as no late report has
\* ended it.
Implements ==
    /\ BilledDelivery!Init
    /\ [][BilledDelivery!Next \/ late']_(BilledDelivery!vars)

\* A POST that rolls back leaves a ready result its usage.
RollbackSparesReady ==
    [][\A p \in Posts : rec.status \in {"finalizing", "done"} /\ RefundByPost(p)
        => ledger' = ledger]_vars

\* A confirmed job has an attempt that will run it.
QueuedHasAttempt ==
    rec.status = "queued" => pc[rec.retries] \in {"queued", "wait", "deadline", "dead", "failing"}

\* A ready output is settled even if nobody polls: the sweep retries the
\* commit after an outage, a crash or a busy lock.
FinalizingSettles == rec.status = "finalizing" ~> rec.status \in Terminal

\* A job whose confirmation never comes does not wait for ever.
ConfirmationSettles ==
    rec.status = "billing_pending" ~> rec.status # "billing_pending"

\* The usage of an ended job was counted and nothing asks for it back: the
\* answer to the last commit was refused or unreadable although the commit
\* had taken effect, or a late report was overtaken by its retry.
KeepsUsage == ledger = "counted" /\ ~rec.rollback

\* As long as somebody polls, the usage of a failed or cancelled job is
\* released and the record says so, whatever answers were lost on the way;
\* except that of a job that KeepsUsage.
RefundArrives ==
    Polling =>
        (Billable /\ rec.status \in Unsuccessful
            ~> (rec.released /\ ledger = "released") \/ KeepsUsage)

=============================================================================
