------------------------ MODULE ConversionJobProofs ------------------------
(***************************************************************************)
(* Type correctness and the safety properties of ConversionJob, proved for *)
(* every number of requests and clients, every kind of job and every       *)
(* bound.                                                                  *)
(*                                                                         *)
(* The types come first: one lemma per kind of actor, with one step per    *)
(* action; EndJob and CancelJob, which several actions share, have lemmas  *)
(* of their own.                                                           *)
(*                                                                         *)
(* IInv is the inductive invariant.  It has two halves.  InTimeInv holds   *)
(* until a late report ends the job under its running retry; its parts say *)
(* where an attempt can be (only the last one queued still works on the    *)
(* job), what the holder of the job lock relies on (the status cannot      *)
(* change under it), and what a client that settles a failed job without   *)
(* the lock relies on (an ended job does not change any more).  LateInv    *)
(* says what is left of this afterwards.                                   *)
(***************************************************************************)
EXTENDS ConversionJob, TLAPS

States == PostStates \cup AttemptStates \cup ClientStates
Ledger == {"none", "reserved", "started", "counted", "released"}

LEMMA ActorsFacts ==
    /\ Posts \subseteq Actors /\ Clients \subseteq Actors
    /\ Attempts \subseteq Actors /\ Sweep \in Actors
    /\ Attempts = {0, 1} /\ MaxRetries = 1
BY DEF Actors, Attempts, MaxRetries

LEMMA GoType ==
    ASSUME pc \in [Actors -> States], NEW a \in Actors, NEW state \in States,
           Go(a, state)
    PROVE  pc' \in [Actors -> States]
BY DEF Go

LEMMA RecordTypes ==
    ASSUME NEW r \in Record, NEW b \in BOOLEAN
    PROVE  /\ Failed(r) \in Record /\ Cancelled(r) \in Record
           /\ [r EXCEPT !.released = b] \in Record
           /\ NoRecord \in Record /\ NewRecord \in Record
<1> USE DEF Record, Active, Waiting, Terminal, Unsuccessful
<1>1. Failed(r) \in Record /\ Cancelled(r) \in Record
  BY DEF Failed, Cancelled
<1>2. [r EXCEPT !.released = b] \in Record
  OBVIOUS
<1>3. NoRecord \in Record
  BY ActorsFacts DEF NoRecord
<1>4. NewRecord \in Record
  BY <1>3 DEF NewRecord
<1>5. QED
  BY <1>1, <1>2, <1>3, <1>4

LEMMA NextStates ==
    ASSUME NEW r, NEW a
    PROVE  /\ AfterLoad(r) \in {"finalize", "refund", "idle"}
           /\ Resume(a, r) \in {"returned", "finalize", "refund", "idle"}
           /\ AfterCancel(a, r) \in {"finalize", "refund", "idle", "refused"}
<1>1. AfterLoad(r) \in {"finalize", "refund", "idle"}
  BY DEF AfterLoad
<1>2. QED
  BY <1>1 DEF Resume, AfterCancel

LEMMA CallTypes ==
    ASSUME TypeOK, NEW flag \in BOOLEAN, NEW answer,
           CommitCall(flag, answer) \/ ReleaseCall(flag, answer)
    PROVE  ledger' \in Ledger /\ faults' \in Nat
BY BoundsAssumption DEF TypeOK, CommitCall, ReleaseCall, Committed, Refunded, Fault, Ledger

LEMMA EndJobType ==
    ASSUME TypeOK, NEW a \in Actors, NEW r \in Record, EndJob(a, r)
    PROVE  TypeOK'
<1> USE DEF States, PostStates, AttemptStates, ClientStates, Running, Holding
<1>1. pc' \in [Actors -> States] /\ lock' \in Actors \cup {Free}
  <2>1. CASE Billable
    BY <2>1, GoType DEF EndJob, TypeOK
  <2>2. CASE ~Billable
    <3>1. Resume(a, r) \in States
      BY NextStates
    <3>2. QED
      BY <2>2, <3>1, GoType DEF EndJob, TypeOK
  <2>3. QED
    BY <2>1, <2>2
<1>2. QED
  BY <1>1 DEF EndJob, TypeOK

LEMMA SharedType ==
    ASSUME TypeOK, NEW a \in Actors, Shared(a)
    PROVE  TypeOK'
<1> USE DEF States, PostStates, AttemptStates, ClientStates, Running, Holding
<1>1. CASE FinalizeStale(a)
  BY <1>1, NextStates, GoType DEF FinalizeStale, TypeOK, Remember
<1>2. CASE FinalizeMissing(a)
  <2>1. [rec EXCEPT !.status = "failed", !.rollback = TRUE] \in Record
    BY DEF TypeOK, Record, Terminal, Unsuccessful
  <2>2. QED
    BY <1>2, <2>1, EndJobType DEF FinalizeMissing
<1>3. CASE FinalizeBegin(a)
  BY <1>3, GoType DEF FinalizeBegin, TypeOK
<1>4. CASE FinalizeCommit(a)
  <2>1. PICK answer \in {"ok", "rejected", "outage"} :
        /\ CommitCall(TRUE, answer)
        /\ CASE answer = "ok" -> Go(a, "counted") /\ UNCHANGED <<rec, lock>>
             [] answer = "rejected" ->
                  /\ Go(a, "releasing") /\ UNCHANGED lock
                  /\ rec' = [rec EXCEPT !.status = "failed", !.rollback = FALSE]
             [] answer = "outage" ->
                  /\ Go(a, IF a \in Attempts THEN "broken" ELSE "idle")
                  /\ lock' = Free /\ UNCHANGED rec
    BY <1>4 DEF FinalizeCommit
  <2>2. ledger' \in Ledger /\ faults' \in Nat
    BY <2>1, CallTypes
  <2>3. [rec EXCEPT !.status = "failed", !.rollback = FALSE] \in Record
    BY DEF TypeOK, Record, Terminal, Unsuccessful
  <2>4. rec' \in Record /\ lock' \in Actors \cup {Free} /\ pc' \in [Actors -> States]
    <3>1. CASE answer = "ok"
      BY <2>1, <3>1, GoType DEF TypeOK
    <3>2. CASE answer = "rejected"
      BY <2>1, <2>3, <3>2, GoType DEF TypeOK
    <3>3. CASE answer = "outage"
      BY <2>1, <3>3, GoType DEF TypeOK
    <3>4. QED
      BY <2>1, <3>1, <3>2, <3>3
  <2>5. QED
    BY <1>4, <2>2, <2>4 DEF FinalizeCommit, TypeOK, Ledger
<1>5. CASE FinalizeDone(a)
  <2>1. [rec EXCEPT !.status = "done"] \in Record
    BY DEF TypeOK, Record, Terminal
  <2>2. QED
    BY <1>5, <2>1, GoType DEF FinalizeDone, TypeOK
<1>6. CASE PersistRelease(a)
  <2>1. PICK answer \in ReleaseAnswers :
        /\ ReleaseCall(rec.rollback, answer)
        /\ rec' = [rec EXCEPT !.released = (answer = "released")]
        /\ Go(a, Resume(a, rec'))
        /\ Remember(a, rec')
    BY <1>6 DEF PersistRelease
  <2>2. rec.rollback \in BOOLEAN
    BY DEF TypeOK, Record
  <2>3. ledger' \in Ledger /\ faults' \in Nat
    BY <2>1, <2>2, CallTypes
  <2>4. rec' \in Record
    BY <2>1, RecordTypes DEF TypeOK
  <2>5. pc' \in [Actors -> States]
    BY <2>1, NextStates, GoType DEF TypeOK
  <2>6. seen' \in [Clients -> Record]
    BY <2>1, <2>4 DEF Remember, TypeOK
  <2>7. QED
    BY <1>6, <2>3, <2>4, <2>5, <2>6 DEF PersistRelease, TypeOK, Ledger
<1>7. QED
  BY <1>1, <1>2, <1>3, <1>4, <1>5, <1>6 DEF Shared, Finalize

LEMMA CancelJobType ==
    ASSUME TypeOK, NEW a \in Actors, CancelJob(a)
    PROVE  /\ rec' \in Record
           /\ pc' \in [Actors -> States]
           /\ stop' \subseteq Attempts
<1>1. /\ rec \in Record /\ pc \in [Actors -> States] /\ stop \subseteq Attempts
  BY DEF TypeOK, States
<1>2. /\ rec.retries \in Attempts /\ rec.retries \in Actors
  BY <1>1, ActorsFacts DEF Record
<1>3. /\ Cancelled(rec) \in Record
      /\ [rec EXCEPT !.status = "cancelling", !.cancelRequested = TRUE] \in Record
      /\ [rec EXCEPT !.cancelRequested = FALSE] \in Record
  BY <1>1, RecordTypes DEF Record, Active
<1>4. AfterCancel(a, rec) \in States /\ AfterCancel(a, rec') \in States
  <2>1. {"finalize", "refund", "idle", "refused"} \subseteq States
    BY DEF States, PostStates, AttemptStates, ClientStates
  <2>2. AfterCancel(a, rec) \in {"finalize", "refund", "idle", "refused"}
    BY NextStates
  <2>3. AfterCancel(a, rec') \in {"finalize", "refund", "idle", "refused"}
    BY NextStates
  <2>4. QED
    BY <2>1, <2>2, <2>3
<1>5. "gone" \in States
  BY DEF States, AttemptStates
<1>6. CASE /\ Go(a, AfterCancel(a, rec))
           /\ UNCHANGED <<rec, stop>>
  BY <1>1, <1>4, <1>6, GoType
<1>7. CASE /\ rec' = Cancelled(rec)
           /\ Go(a, AfterCancel(a, rec'))
           /\ UNCHANGED stop
  BY <1>1, <1>3, <1>4, <1>7, GoType
<1>8. CASE /\ rec' = Cancelled(rec)
           /\ pc' = [pc EXCEPT ![a] = AfterCancel(a, rec'),
                               ![rec.retries] = IF @ = "queued" THEN "gone" ELSE @]
           /\ UNCHANGED stop
  <2>1. pc' \in [Actors -> States]
    BY <1>1, <1>2, <1>4, <1>5, <1>8
  <2>2. QED
    BY <1>1, <1>3, <1>8, <2>1
<1>9. CASE /\ rec' = [rec EXCEPT !.status = "cancelling", !.cancelRequested = TRUE]
           /\ stop' = stop \cup {rec.retries}
           /\ Go(a, AfterCancel(a, rec'))
  BY <1>1, <1>2, <1>3, <1>4, <1>9, GoType
<1>10. CASE /\ rec' = [rec EXCEPT !.cancelRequested = FALSE]
            /\ Go(a, AfterCancel(a, rec'))
            /\ UNCHANGED stop
  BY <1>1, <1>3, <1>4, <1>10, GoType
<1>11. QED
  BY <1>6, <1>7, <1>8, <1>9, <1>10 DEF CancelJob

LEMMA PostType ==
    ASSUME TypeOK, NEW p \in Posts, PostNext(p)
    PROVE  TypeOK'
<1> USE DEF States, PostStates, AttemptStates, ClientStates, Running, Holding
<1>0. p \in Actors /\ 0 \in Actors /\ NoRecord \in Record /\ NewRecord \in Record
      /\ Failed(NewRecord) \in Record
  BY ActorsFacts, RecordTypes DEF TypeOK
<1>1. CASE Authorize(p)
  BY <1>0, <1>1, GoType DEF Authorize, Reserved, TypeOK
<1>13. CASE AuthorizeRefused(p)
  BY <1>0, <1>13, GoType DEF AuthorizeRefused, Reserved, Fault, TypeOK
<1>2. CASE SubmitNew(p)
  BY <1>0, <1>2 DEF SubmitNew, TypeOK, AfterAdmission
<1>3. CASE SubmitRejected(p)
  BY <1>0, <1>3, GoType DEF SubmitRejected, TypeOK
<1>4. CASE SubmitBroken(p)
  BY <1>0, <1>4 DEF SubmitBroken, TypeOK
<1>5. CASE SubmitDuplicate(p)
  BY <1>0, <1>5, GoType DEF SubmitDuplicate, TypeOK, AfterAdmission
<1>6. CASE CommitByPost(p)
  <2>1. PICK answer \in {"ok", "rejected", "outage"} :
        /\ CommitCall(FALSE, answer)
        /\ Go(p, IF answer = "ok" THEN "confirm" ELSE "rollback")
    BY <1>6 DEF CommitByPost
  <2>2. ledger' \in Ledger /\ faults' \in Nat
    BY <2>1, CallTypes
  <2>3. pc' \in [Actors -> States]
    BY <1>0, <2>1, GoType DEF TypeOK
  <2>4. QED
    BY <1>6, <2>2, <2>3 DEF CommitByPost, TypeOK, Ledger
<1>7. CASE Confirm(p)
  <2>1. [rec EXCEPT !.status = "queued", !.confirmed = TRUE] \in Record
    BY DEF TypeOK, Record, Active, Waiting
  <2>2. AfterRefusedConfirm \in States
    BY DEF AfterRefusedConfirm
  <2>3. QED
    BY <1>0, <1>7, <2>1, <2>2, GoType DEF Confirm, TypeOK
<1>8. CASE ConfirmLockBusy(p)
  BY <1>0, <1>8, GoType DEF ConfirmLockBusy, TypeOK, AfterRefusedConfirm
<1>9. CASE Rollback(p)
  BY <1>0, <1>9, CancelJobType DEF Rollback, TypeOK
<1>10. CASE RollbackLockBusy(p)
  BY <1>0, <1>10, GoType DEF RollbackLockBusy, TypeOK
<1>11. CASE RefundByPost(p)
  <2>1. ledger' \in Ledger /\ faults' \in Nat
    BY <1>11, CallTypes DEF RefundByPost, TypeOK, Ledger
  <2>2. QED
    BY <1>0, <1>11, <2>1, GoType DEF RefundByPost, TypeOK, Ledger
<1>12. QED
  BY <1>1, <1>2, <1>3, <1>4, <1>5, <1>6, <1>7, <1>8, <1>9, <1>10, <1>11, <1>13
  DEF PostNext

LEMMA ClientType ==
    ASSUME TypeOK, NEW c \in Clients, ClientNext(c)
    PROVE  TypeOK'
<1> USE DEF States, PostStates, AttemptStates, ClientStates, Running, Holding
<1>0. c \in Actors
  BY ActorsFacts
<1>1. CASE Get(c)
  BY <1>0, <1>1, NextStates, GoType DEF Get, TypeOK, Remember
<1>2. CASE Delete(c)
  BY <1>0, <1>2, CancelJobType DEF Delete, TypeOK, Remember
<1>3. CASE RefundByClient(c)
  <2>1. seen[c].rollback \in BOOLEAN
    BY DEF TypeOK, Record
  <2>2. ledger' \in Ledger /\ faults' \in Nat
    BY <1>3, <2>1, CallTypes DEF RefundByClient
  <2>3. \E state \in {"markReleased", "markUnreleased", "idle"} : Go(c, state)
    BY <1>3 DEF RefundByClient, ReleaseAnswers
  <2>4. pc' \in [Actors -> States]
    BY <1>0, <2>3, GoType DEF TypeOK
  <2>5. QED
    BY <1>0, <1>3, <2>2, <2>4 DEF RefundByClient, TypeOK, Ledger
<1>4. CASE MarkReleased(c)
  <2>1. seen[c] \in Record /\ (pc[c] = "markReleased") \in BOOLEAN
    BY DEF TypeOK
  <2>2. [seen[c] EXCEPT !.released = (pc[c] = "markReleased")] \in Record
    BY <2>1, RecordTypes
  <2>3. NoRecord \in Record
    BY RecordTypes DEF TypeOK
  <2>4. QED
    BY <1>0, <1>4, <2>2, <2>3, GoType DEF MarkReleased, TypeOK
<1>5. CASE ClientLockBusy(c)
  BY <1>0, <1>5, GoType DEF ClientLockBusy, TypeOK
<1>6. QED
  BY <1>1, <1>2, <1>3, <1>4, <1>5 DEF ClientNext, Settling

LEMMA EnqueueRetryType ==
    ASSUME TypeOK, NEW k \in Attempts, rec.retries < MaxRetries, EnqueueRetry(k)
    PROVE  TypeOK'
<1> USE DEF States, PostStates, AttemptStates, ClientStates, Running, Holding
<1> DEFINE next == [rec EXCEPT !.status = "queued", !.retries = @ + 1]
<1>1. next \in Record /\ next.retries \in Attempts
  <2>1. rec.retries \in Attempts
    BY DEF TypeOK, Record
  <2>2. rec.retries + 1 \in Attempts
    BY <2>1, ActorsFacts
  <2>3. QED
    BY <2>2 DEF TypeOK, Record, Active, Waiting
<1>2. k \in Actors /\ next.retries \in Actors
  BY <1>1, ActorsFacts
<1> HIDE DEF next
<1>3. CASE EndJob(k, Failed(next))
  BY <1>1, <1>2, <1>3, RecordTypes, EndJobType
<1>4. CASE /\ rec' = next
           /\ pc' = [pc EXCEPT ![k] = "returned", ![next.retries] = "queued"]
           /\ UNCHANGED <<file, ledger, lock, seen, stop, crashes, faults, late>>
  BY <1>1, <1>2, <1>4 DEF TypeOK
<1>5. QED
  BY <1>3, <1>4 DEF EnqueueRetry, next

LEMMA SettleFailureType ==
    ASSUME TypeOK, NEW k \in Attempts, NEW transient, SettleFailure(k, transient)
    PROVE  TypeOK'
<1>1. k \in Actors /\ Failed(rec) \in Record /\ Cancelled(rec) \in Record
  BY ActorsFacts, RecordTypes DEF TypeOK
<1>2. QED
  BY <1>1, EndJobType, EnqueueRetryType DEF SettleFailure

LEMMA AttemptType ==
    ASSUME TypeOK, NEW k \in Attempts, AttemptNext(k)
    PROVE  TypeOK'
<1> USE DEF States, PostStates, AttemptStates, ClientStates, Running, Holding
<1>0. k \in Actors /\ Failed(rec) \in Record /\ Cancelled(rec) \in Record
  BY ActorsFacts, RecordTypes DEF TypeOK
<1>1. CASE Start(k)
  BY <1>0, <1>1, GoType DEF Start, TypeOK
<1>2. CASE DeadlinePasses(k)
  BY <1>0, <1>2, GoType DEF DeadlinePasses, TypeOK
<1>3. CASE GiveUpWaiting(k)
  <2>1. CASE EndJob(k, Failed(rec))
    BY <1>0, <2>1, EndJobType
  <2>2. CASE ~EndJob(k, Failed(rec))
    BY <1>0, <1>3, <2>2, GoType DEF GiveUpWaiting, TypeOK
  <2>3. QED
    BY <2>1, <2>2
<1>4. CASE Begin(k)
  <2>1. CASE EndJob(k, Cancelled(rec))
    BY <1>0, <2>1, EndJobType
  <2>2. CASE ~EndJob(k, Cancelled(rec))
    <3>1. [rec EXCEPT !.status = "processing"] \in Record
      BY DEF TypeOK, Record, Active
    <3>2. QED
      BY <1>0, <1>4, <2>2, <3>1, GoType DEF Begin, TypeOK
  <2>3. QED
    BY <2>1, <2>2
<1>5. CASE Convert(k)
  BY <1>0, <1>5, GoType DEF Convert, TypeOK
<1>6. CASE Publish(k)
  <2>1. CASE EndJob(k, Cancelled(rec))
    BY <1>0, <2>1, EndJobType
  <2>2. CASE ~EndJob(k, Cancelled(rec))
    <3>1. [rec EXCEPT !.status = IF Billable THEN "finalizing" ELSE "done",
                      !.result = TRUE] \in Record
      BY DEF TypeOK, Record, Active, Terminal
    <3>2. QED
      BY <1>0, <1>6, <2>2, <3>1, GoType DEF Publish, TypeOK
  <2>3. QED
    BY <2>1, <2>2
<1>7. CASE HandleError(k)
  <2>1. CASE SettleFailure(k, pc[k] = "retryable")
    BY <2>1, SettleFailureType
  <2>2. CASE ~SettleFailure(k, pc[k] = "retryable")
    BY <1>0, <1>7, <2>2, GoType DEF HandleError, TypeOK
  <2>3. QED
    BY <2>1, <2>2
<1>8. CASE AttemptLockBusy(k)
  BY <1>0, <1>8, GoType DEF AttemptLockBusy, TypeOK
<1>9. CASE MarkJobFailed(k)
  <2>1. CASE \E transient \in {FALSE, pc[k] = "failing"} : SettleFailure(k, transient)
    BY <2>1, SettleFailureType
  <2>2. CASE Go(k, "returned")
             /\ UNCHANGED <<rec, file, ledger, lock, seen, stop, crashes, faults, late>>
    BY <1>0, <2>2, GoType DEF TypeOK
  <2>3. QED
    BY <1>9, <2>1, <2>2 DEF MarkJobFailed
<1>10. CASE StopDelivered(k)
  BY <1>0, <1>10 DEF StopDelivered, TypeOK
<1>11. CASE MarkJobStopped(k)
  <2>1. CASE EndJob(k, Cancelled(rec))
    BY <1>0, <2>1, EndJobType
  <2>2. CASE ~EndJob(k, Cancelled(rec))
    BY <1>0, <1>11, <2>2, GoType DEF MarkJobStopped, TypeOK
  <2>3. QED
    BY <2>1, <2>2
<1>12. CASE RqFinish(k)
  BY <1>0, <1>12, GoType DEF RqFinish, TypeOK
<1>13. QED
  BY <1>1, <1>2, <1>3, <1>4, <1>5, <1>6, <1>7, <1>8, <1>9, <1>10, <1>11, <1>12
  DEF AttemptNext

LEMMA TypeStep ==
    ASSUME TypeOK, [Next]_vars
    PROVE  TypeOK'
<1> USE DEF States, PostStates, AttemptStates, ClientStates, Running, Holding
<1>1. ASSUME NEW a \in Actors, Crash(a)
      PROVE  TypeOK'
  BY <1>1, GoType, BoundsAssumption DEF Crash, TypeOK
<1>2. CASE LockExpires
  BY <1>2 DEF LockExpires, TypeOK
<1>3. CASE LoseFile
  BY <1>3 DEF LoseFile, TypeOK
<1>4. CASE UNCHANGED vars
  BY <1>4 DEF vars, TypeOK
<1>5. QED
  BY <1>1, <1>2, <1>3, <1>4, PostType, AttemptType, ClientType, SharedType, ActorsFacts
  DEF Next

\* Every record, lock holder and control state the conversion service
\* writes has its type, in every execution.
THEOREM TypeCorrect == Spec => []TypeOK
<1>1. Init => TypeOK
  <2> SUFFICES ASSUME Init
               PROVE  TypeOK
    OBVIOUS
  <2>1. NoRecord \in Record
    BY ActorsFacts DEF NoRecord, Record
  <2>2. QED
    BY <2>1 DEF Init, TypeOK, PostStates, AttemptStates, ClientStates
<1>2. TypeOK /\ [Next]_vars => TypeOK'
  BY TypeStep
<1>3. QED
  BY <1>1, <1>2, PTL DEF Spec

-----------------------------------------------------------------------------
(* Safety                                                                  *)

\* The lock protects every section that calls the quota service.
LockInv ==
    \A a \in Actors : pc[a] \in Holding => lock = a

\* Nothing runs before the job is admitted.
EmptyInv ==
    rec.status = "none" =>
        rec = NoRecord /\ stop = {} /\ \A k \in Attempts : pc[k] = "none"

\* Only the attempt the record names works on the job.
AttemptInv ==
    \A k \in Attempts :
        /\ k > rec.retries => pc[k] = "none"
        /\ k < rec.retries =>
             pc[k] \in {"returned", "gone", "dead", "stopping", "releasing"}

\* A job that is being converted has not ended.
ConvertInv ==
    \A k \in Attempts :
        /\ pc[k] \in {"convert", "publish", "retryable"} =>
             rec.status \in {"processing", "cancelling"}
        /\ pc[k] = "finalize" =>
             rec.status \in {"finalizing", "done", "failed"} /\ ~rec.cancelRequested
        /\ pc[k] = "broken" =>
             \/ rec.status \in {"processing", "cancelling"}
             \/ rec.status \in {"finalizing", "done", "failed"} /\ ~rec.cancelRequested

\* A stop command is only sent to the last attempt of a job being cancelled.
StopInv ==
    /\ \A k \in Attempts :
        k \in stop \/ pc[k] = "stopping" =>
            k = rec.retries /\ rec.status \in {"cancelling", "cancelled", "failed"}
    /\ rec.status = "cancelling" /\ ~rec.cancelRequested =>
        pc[rec.retries] \in {"gone", "dead"}
    /\ rec.status = "finalizing" => ~rec.cancelRequested

\* What the holder of the job lock relies on.
HolderInv ==
    \A a \in Actors :
        /\ pc[a] \in {"committing", "counted"} => rec.status = "finalizing"
        /\ pc[a] = "counted" => ledger = "counted"
        /\ pc[a] = "releasing" => rec.status \in Unsuccessful

\* What a client that settles without the lock relies on.
ClientInv ==
    \A c \in Clients :
        pc[c] \in {"refund", "markReleased", "markUnreleased"} =>
            /\ rec.status \in Unsuccessful
            /\ seen[c] = [rec EXCEPT !.released = seen[c].released]
            /\ pc[c] = "markReleased" => ledger = "released"

ReleasedInv ==
    rec.released => rec.status \in Unsuccessful /\ ledger = "released"

\* A completed usage is only taken back for an output that is lost.
RollbackInv ==
    /\ rec.status = "finalizing" => rec.result
    /\ rec.rollback => rec.status = "failed" /\ ~file

\* A result the download routes serve is paid for.
PaidInv == Billable /\ rec.status = "done" => ledger = "counted"

\* What holds until a late report.
InTimeInv ==
    /\ TypeOK
    /\ LockInv
    /\ EmptyInv
    /\ AttemptInv
    /\ ConvertInv
    /\ StopInv
    /\ HolderInv
    /\ ClientInv
    /\ ReleasedInv
    /\ RollbackInv
    /\ PaidInv

-----------------------------------------------------------------------------
(* Every action keeps the invariant                                        *)

\* The record an attempt, a poller or the sweep ends a job with.
EndsJob(a, record) ==
    /\ record.status \in Unsuccessful
    /\ rec.status \notin {"none", "done", "cancelled"}
    /\ rec.status = "failed" => record = rec
    /\ record.released => rec.released
    /\ record.rollback => record.status = "failed" /\ ~file
    /\ \/ record.retries = rec.retries
       \/ a = rec.retries /\ record.retries = rec.retries + 1 /\ rec.status # "cancelling"
    /\ a \in Attempts =>
         /\ a = rec.retries
         /\ pc[a] # "none"
    /\ rec.status = "finalizing" => record.status = "failed" /\ ~record.cancelRequested
    /\ a \notin Attempts => rec.status = "finalizing"

LEMMA EndJobKeeps ==
    ASSUME InTimeInv, TypeOK', NEW a \in Actors, NEW record \in Record,
           lock = Free, EndsJob(a, record), EndJob(a, record)
    PROVE  InTimeInv'
<1> USE ActorsFacts, ActorsAssumption
    DEF InTimeInv, TypeOK, Record, EndsJob, EndJob, Go, Resume, AfterLoad, Unsuccessful, Holding
<1>1. LockInv'
  BY DEF LockInv
<1>2. EmptyInv'
  BY DEF EmptyInv
<1>3. AttemptInv'
  BY DEF AttemptInv
<1>4. ConvertInv'
  BY DEF ConvertInv, AttemptInv, AfterLoad
<1>5. StopInv'
  BY DEF StopInv, ConvertInv, AttemptInv
<1>6. HolderInv'
  BY DEF HolderInv, LockInv
<1>7. ClientInv'
  BY DEF ClientInv, AfterLoad
<1>8. ReleasedInv' /\ RollbackInv' /\ PaidInv'
  BY DEF ReleasedInv, RollbackInv, PaidInv
<1>9. QED
  BY <1>1, <1>2, <1>3, <1>4, <1>5, <1>6, <1>7, <1>8

LEMMA CancelJobKeeps ==
    ASSUME InTimeInv, TypeOK', NEW a \in Posts \cup Clients, CancelJob(a),
           a \in Clients /\ AfterLoad(rec') = "refund" => seen'[a] = rec',
           \A c \in Clients : c # a => seen'[c] = seen[c],
           pc[a] \in {"rollback", "idle"},
           UNCHANGED <<file, ledger, lock>>
    PROVE  InTimeInv'
<1> USE ActorsFacts, ActorsAssumption
    DEF InTimeInv, TypeOK, Record, LockInv, EmptyInv, AttemptInv, ConvertInv, StopInv,
        HolderInv, ClientInv, ReleasedInv, RollbackInv, PaidInv, Holding, Unsuccessful
<1>1. /\ pc'[a] \in {"finalize", "refund", "idle", "refused"}
      /\ a \notin Attempts /\ a \in Actors
      /\ \A b \in Actors : b \notin {a, rec.retries} => pc'[b] = pc[b]
      /\ rec.retries \in Attempts
  BY NextStates DEF CancelJob, Go
<1>2. a \in Clients /\ pc'[a] = "refund" =>
        /\ rec'.status \in Unsuccessful
        /\ seen'[a] = [rec' EXCEPT !.released = seen'[a].released]
  BY DEF CancelJob, Go, AfterCancel, AfterLoad
<1>3. \A c \in Clients : c # a => pc'[c] = pc[c] /\ seen'[c] = seen[c]
  BY <1>1
<1>4. CASE UNCHANGED <<rec, stop>> /\ rec.status \in Terminal \cup {"finalizing"}
           /\ pc'[rec.retries] = pc[rec.retries]
  BY <1>1, <1>2, <1>3, <1>4 DEF Terminal
<1>5. CASE /\ rec.status \in Active \ {"finalizing"} /\ pc[rec.retries] = "gone"
           /\ rec' = Cancelled(rec) /\ UNCHANGED stop
           /\ pc'[rec.retries] = "gone"
  <2>1. LockInv' /\ EmptyInv' /\ AttemptInv'
    BY <1>1, <1>5 DEF Cancelled, Active, Waiting
  <2>2. ConvertInv' /\ StopInv'
    BY <1>1, <1>5 DEF Cancelled, Active, Waiting
  <2>3. HolderInv' /\ ReleasedInv' /\ RollbackInv' /\ PaidInv'
    BY <1>1, <1>5 DEF Cancelled, Active, Waiting
  <2>4. ClientInv'
    <3>1. rec.status \notin Unsuccessful
      BY <1>5 DEF Cancelled, Active, Waiting
    <3>2. \A c \in Clients : c # a => pc'[c] \notin {"refund", "markReleased", "markUnreleased"}
      BY <1>3, <3>1
    <3>3. a \in Clients => pc'[a] \notin {"markReleased", "markUnreleased"}
      BY <1>1
    <3>4. QED
      BY <1>2, <3>2, <3>3
  <2>5. QED
    BY <2>1, <2>2, <2>3, <2>4
<1>6. CASE /\ rec.status \in Waiting
           /\ rec' = Cancelled(rec) /\ UNCHANGED stop
           /\ pc'[rec.retries] = IF pc[rec.retries] = "queued" THEN "gone" ELSE pc[rec.retries]
  <2>1. LockInv' /\ EmptyInv' /\ AttemptInv'
    BY <1>1, <1>6 DEF Cancelled, Waiting
  <2>2. ConvertInv' /\ StopInv'
    BY <1>1, <1>6 DEF Cancelled, Waiting
  <2>3. HolderInv' /\ ReleasedInv' /\ RollbackInv' /\ PaidInv'
    BY <1>1, <1>6 DEF Cancelled, Waiting
  <2>4. ClientInv'
    <3>1. rec.status \notin Unsuccessful
      BY <1>6 DEF Cancelled, Waiting
    <3>2. \A c \in Clients : c # a => pc'[c] \notin {"refund", "markReleased", "markUnreleased"}
      BY <1>3, <3>1
    <3>3. a \in Clients => pc'[a] \notin {"markReleased", "markUnreleased"}
      BY <1>1
    <3>4. QED
      BY <1>2, <3>2, <3>3
  <2>5. QED
    BY <2>1, <2>2, <2>3, <2>4
<1>7. CASE /\ rec.status \in {"processing", "cancelling"} /\ Executing(rec.retries)
           /\ rec' = [rec EXCEPT !.status = "cancelling", !.cancelRequested = TRUE]
           /\ stop' = stop \cup {rec.retries}
           /\ pc'[rec.retries] = pc[rec.retries]
  <2>1. LockInv' /\ EmptyInv' /\ AttemptInv'
    BY <1>1, <1>7 DEF Executing, Running
  <2>2. ConvertInv' /\ StopInv'
    BY <1>1, <1>7 DEF Executing, Running
  <2>3. HolderInv' /\ ReleasedInv' /\ RollbackInv' /\ PaidInv'
    BY <1>1, <1>7 DEF Executing, Running
  <2>4. ClientInv'
    <3>1. rec.status \notin Unsuccessful
      BY <1>7
    <3>2. \A c \in Clients : c # a => pc'[c] \notin {"refund", "markReleased", "markUnreleased"}
      BY <1>3, <3>1
    <3>3. a \in Clients => pc'[a] \notin {"markReleased", "markUnreleased"}
      BY <1>1
    <3>4. QED
      BY <1>2, <3>2, <3>3
  <2>5. QED
    BY <2>1, <2>2, <2>3, <2>4
<1>8. CASE /\ rec.status \in {"processing", "cancelling"} /\ pc[rec.retries] \in {"gone", "dead"}
           /\ rec' = [rec EXCEPT !.cancelRequested = FALSE] /\ UNCHANGED stop
           /\ pc'[rec.retries] = pc[rec.retries]
  <2>1. LockInv' /\ EmptyInv' /\ AttemptInv'
    BY <1>1, <1>8
  <2>2. ConvertInv' /\ StopInv'
    BY <1>1, <1>8
  <2>3. HolderInv' /\ ReleasedInv' /\ RollbackInv' /\ PaidInv'
    BY <1>1, <1>8
  <2>4. ClientInv'
    <3>1. rec.status \notin Unsuccessful
      BY <1>8
    <3>2. \A c \in Clients : c # a => pc'[c] \notin {"refund", "markReleased", "markUnreleased"}
      BY <1>3, <3>1
    <3>3. a \in Clients => pc'[a] \notin {"markReleased", "markUnreleased"}
      BY <1>1
    <3>4. QED
      BY <1>2, <3>2, <3>3
  <2>5. QED
    BY <2>1, <2>2, <2>3, <2>4
<1>9. /\ \A state : Go(a, state) => pc'[rec.retries] = pc[rec.retries]
      /\ \A state, next : pc' = [pc EXCEPT ![a] = state, ![rec.retries] = next] =>
            pc'[rec.retries] = next
  BY <1>1 DEF Go
<1>10. QED
  <2> HIDE DEF InTimeInv, TypeOK, Record, LockInv, EmptyInv, AttemptInv, ConvertInv, StopInv,
           HolderInv, ClientInv, ReleasedInv, RollbackInv, PaidInv, Holding, Unsuccessful
  <2>1. pc' = [pc EXCEPT ![a] = AfterCancel(a, rec'),
                         ![rec.retries] = IF @ = "queued" THEN "gone" ELSE @] =>
          pc'[rec.retries] = IF pc[rec.retries] = "queued" THEN "gone" ELSE pc[rec.retries]
    BY <1>1, <1>9
  <2>2. QED
    BY <1>4, <1>5, <1>6, <1>7, <1>8, <1>9, <2>1 DEF CancelJob

LEMMA CommittedFacts ==
    ASSUME NEW completed \in BOOLEAN
    PROVE  /\ ledger = "released" => Committed(completed) = "released"
           /\ ledger = "counted" => Committed(completed) = "counted"
BY DEF Committed

LEMMA PostKeeps ==
    ASSUME InTimeInv, TypeOK', NEW p \in Posts, PostNext(p)
    PROVE  InTimeInv'
<1> USE ActorsFacts, ActorsAssumption
    DEF InTimeInv, TypeOK, Record, LockInv, EmptyInv, AttemptInv, ConvertInv, StopInv,
        HolderInv, ClientInv, ReleasedInv, RollbackInv, PaidInv,
        Go, Holding, Unsuccessful
<1>1. CASE Authorize(p)
  BY <1>1 DEF Authorize, Reserved
<1>13. CASE AuthorizeRefused(p)
  BY <1>13 DEF AuthorizeRefused, Reserved, Fault
<1>2. CASE SubmitNew(p)
  BY <1>2 DEF SubmitNew, NewRecord, NoRecord, AfterAdmission
<1>3. CASE SubmitRejected(p)
  BY <1>3 DEF SubmitRejected
<1>4. CASE SubmitBroken(p)
  <2>1. /\ rec'.status = "failed" /\ rec'.retries = 0
        /\ ~rec'.released /\ ~rec'.rollback /\ ~rec'.cancelRequested
    BY <1>4 DEF SubmitBroken, NewRecord, NoRecord, Failed
  <2>2. \A a \in Actors : a \notin {p, 0} => pc'[a] = pc[a]
    BY <1>4 DEF SubmitBroken
  <2>3. pc'[p] = "refundUnbound" /\ pc'[0] \in {"queued", "none"}
    BY <1>4 DEF SubmitBroken
  <2>4. LockInv' /\ EmptyInv' /\ AttemptInv' /\ ConvertInv' /\ StopInv'
    BY <1>4, <2>1, <2>2, <2>3 DEF SubmitBroken
  <2>5. HolderInv' /\ ClientInv' /\ ReleasedInv' /\ RollbackInv' /\ PaidInv'
    BY <1>4, <2>1, <2>2, <2>3 DEF SubmitBroken
  <2>6. QED
    BY <2>4, <2>5
<1>5. CASE SubmitDuplicate(p)
  BY <1>5 DEF SubmitDuplicate, AfterAdmission
<1>6. CASE CommitByPost(p)
  BY <1>6 DEF CommitByPost, CommitCall, Committed
<1>7. CASE Confirm(p)
  BY <1>7 DEF Confirm, AfterRefusedConfirm, Terminal
<1>8. CASE ConfirmLockBusy(p)
  BY <1>8 DEF ConfirmLockBusy, AfterRefusedConfirm
<1>9. CASE Rollback(p)
  BY <1>9, CancelJobKeeps DEF Rollback
<1>10. CASE RollbackLockBusy(p)
  BY <1>10 DEF RollbackLockBusy
<1>11. CASE RefundByPost(p)
  BY <1>11 DEF RefundByPost, ReleaseCall, Refunded
<1>12. QED
  BY <1>1, <1>2, <1>3, <1>4, <1>5, <1>6, <1>7, <1>8, <1>9, <1>10, <1>11, <1>13
  DEF PostNext

LEMMA SettleFailureKeeps ==
    ASSUME InTimeInv, TypeOK', NEW k \in Attempts,
           lock = Free, pc[k] \notin {"none", "gone"}, k = rec.retries,
           \/ rec.status \in {"processing", "cancelling"} \cup Waiting
           \/ rec.status = "failed" /\ ~rec.cancelRequested,
           \/ CancelAsked /\ EndJob(k, Cancelled(rec))
           \/ ~CancelAsked /\ EndJob(k, Failed(rec))
           \/ /\ ~CancelAsked /\ rec.status # "failed"
              /\ rec.retries < MaxRetries /\ EnqueueRetry(k)
    PROVE  InTimeInv'
<1> DEFINE next == [rec EXCEPT !.status = "queued", !.retries = @ + 1]
<1>0. /\ k \in Actors /\ rec \in Record /\ rec.retries \in {0, 1}
      /\ Failed(rec) \in Record /\ Cancelled(rec) \in Record
  BY ActorsFacts, RecordTypes DEF InTimeInv, TypeOK, Record
<1>1. CASE CancelAsked /\ EndJob(k, Cancelled(rec))
  <2>1. EndsJob(k, Cancelled(rec))
    BY <1>0, <1>1 DEF InTimeInv, Record, ReleasedInv, RollbackInv, CancelAsked, EndsJob, Cancelled,
        Unsuccessful, Waiting
  <2>2. QED
    BY <1>0, <1>1, <2>1, EndJobKeeps
<1>2. CASE ~CancelAsked /\ EndJob(k, Failed(rec))
  <2>1. rec.status = "failed" => Failed(rec) = rec
    BY <1>0 DEF Record, Failed
  <2>2. EndsJob(k, Failed(rec))
    BY <1>0, <1>2, <2>1 DEF InTimeInv, Record, ReleasedInv, RollbackInv, CancelAsked, EndsJob,
        Failed, Unsuccessful, Waiting
  <2>3. QED
    BY <1>0, <1>2, <2>2, EndJobKeeps
<1>3. CASE /\ ~CancelAsked /\ rec.status # "failed"
           /\ rec.retries < MaxRetries /\ EnqueueRetry(k)
  <2>1. /\ k = 0 /\ rec.retries = 0
        /\ rec.status \in {"processing"} \cup Waiting
    BY <1>0, <1>3, ActorsFacts DEF CancelAsked
  <2>2. next = [rec EXCEPT !.status = "queued", !.retries = 1]
    BY <1>0, <2>1 DEF Record
  <2>3. CASE EndJob(k, Failed(next))
    <3>1. EndsJob(k, Failed(next)) /\ Failed(next) \in Record
      BY <1>0, <2>1, <2>2, ActorsFacts
      DEF InTimeInv, Record, ReleasedInv, RollbackInv, EndsJob, Failed, Unsuccessful,
          Waiting, Terminal
    <3>2. QED
      BY <1>0, <2>3, <3>1, EndJobKeeps
  <2>4. CASE /\ rec' = next
             /\ pc' = [pc EXCEPT ![k] = "returned", ![next.retries] = "queued"]
             /\ UNCHANGED <<file, ledger, lock, seen, stop, crashes, faults, late>>
    BY <2>1, <2>2, <2>4, ActorsFacts, ActorsAssumption
    DEF InTimeInv, TypeOK, Record, LockInv, EmptyInv, AttemptInv, ConvertInv, StopInv,
        HolderInv, ClientInv, ReleasedInv, RollbackInv, PaidInv, Holding,
        Unsuccessful, Waiting
  <2>5. QED
    BY <1>3, <2>3, <2>4 DEF EnqueueRetry
<1>4. QED
  BY <1>1, <1>2, <1>3

\* A callback that is not late is that of the last attempt.
LEMMA LateReport ==
    ASSUME TypeOK, AttemptInv, ~late', NEW k \in Attempts, pc[k] \in {"failing", "dead"},
           \E transient \in {FALSE, pc[k] = "failing"} : SettleFailure(k, transient)
    PROVE  k = rec.retries
<1>1. k \in {0, 1} /\ rec.retries \in {0, 1}
  BY ActorsFacts DEF TypeOK, Record
<1>2. k <= rec.retries
  BY <1>1 DEF AttemptInv
<1>3. CASE k < rec.retries
  <2>1. pc[k] = "dead"
    BY <1>3 DEF AttemptInv
  <2>2. EndJob(k, Cancelled(rec)) \/ EndJob(k, Failed(rec))
    BY <2>1 DEF SettleFailure
  <2>3. QED
    BY <1>3, <2>2 DEF EndJob
<1>4. QED
  BY <1>1, <1>2, <1>3

LEMMA AttemptKeeps ==
    ASSUME InTimeInv, TypeOK', ~late', NEW k \in Attempts, AttemptNext(k)
    PROVE  InTimeInv'
<1> USE ActorsFacts, ActorsAssumption
    DEF InTimeInv, TypeOK, Record, LockInv, EmptyInv, AttemptInv, ConvertInv, StopInv,
        HolderInv, ClientInv, ReleasedInv, RollbackInv, PaidInv,
        Go, Holding, Unsuccessful
<1>0. k \in Actors /\ Failed(rec) \in Record /\ Cancelled(rec) \in Record
  BY RecordTypes
<1>1. CASE Start(k)
  BY <1>1 DEF Start
<1>2. CASE DeadlinePasses(k)
  BY <1>2 DEF DeadlinePasses
<1>3. CASE GiveUpWaiting(k)
  <2>1. CASE rec.status = "billing_pending" /\ EndJob(k, Failed(rec))
    <3>1. lock = Free /\ EndsJob(k, Failed(rec))
      BY <1>3, <2>1 DEF GiveUpWaiting, EndsJob, Failed
    <3>2. QED
      BY <1>0, <2>1, <3>1, EndJobKeeps
  <2>2. CASE Go(k, "returned") /\ rec.status # "billing_pending"
             /\ UNCHANGED <<rec, file, ledger, lock, seen, stop, crashes, faults, late>>
    BY <1>3, <2>2 DEF GiveUpWaiting
  <2>3. QED
    BY <1>3, <2>1, <2>2 DEF GiveUpWaiting
<1>4. CASE Begin(k)
  <2>1. k = rec.retries /\ pc[k] = "wait" /\ rec.status \notin {"none", "billing_pending"}
    BY <1>4 DEF Begin
  <2>2. CASE /\ lock = Free /\ rec.status \notin Terminal \cup {"finalizing"}
             /\ EndJob(k, Cancelled(rec))
    <3>1. EndsJob(k, Cancelled(rec))
      BY <2>1, <2>2 DEF EndsJob, Cancelled, Terminal
    <3>2. QED
      BY <1>0, <2>2, <3>1, EndJobKeeps
  <2>3. CASE /\ Go(k, "finalize") \/ Go(k, "returned")
             /\ Go(k, "finalize") => rec.status = "finalizing"
             /\ rec.status \in Terminal \cup {"finalizing"}
             /\ UNCHANGED <<rec, file, ledger, lock, seen, stop, crashes, faults, late>>
    BY <2>1, <2>3 DEF Terminal
  <2>4. CASE /\ lock = Free /\ rec.status \notin Terminal \cup {"finalizing"}
             /\ ~rec.cancelRequested
             /\ rec' = [rec EXCEPT !.status = "processing"]
             /\ Go(k, "convert")
             /\ UNCHANGED <<file, ledger, lock, seen, stop, crashes, faults, late>>
    <3>1. rec.status \in {"queued", "processing"}
      BY <2>1, <2>4 DEF Terminal, Active, Waiting
    <3>2. QED
      BY <2>1, <2>4, <3>1
  <2>5. QED
    BY <1>4, <2>2, <2>3, <2>4 DEF Begin
<1>5. CASE Convert(k)
  BY <1>5 DEF Convert
<1>6. CASE Publish(k)
  <2>1. k = rec.retries /\ pc[k] = "publish" /\ rec.status \in {"processing", "cancelling"}
        /\ lock = Free
    BY <1>6 DEF Publish
  <2>2. CASE EndJob(k, Cancelled(rec))
    <3>1. EndsJob(k, Cancelled(rec))
      BY <2>1 DEF EndsJob, Cancelled
    <3>2. QED
      BY <1>0, <2>1, <2>2, <3>1, EndJobKeeps
  <2>3. CASE /\ ~rec.cancelRequested
             /\ rec' = [rec EXCEPT !.status = IF Billable THEN "finalizing" ELSE "done",
                                   !.result = TRUE]
             /\ Go(k, IF Billable THEN "finalize" ELSE "returned")
             /\ UNCHANGED <<file, ledger, lock, seen, stop, crashes, faults, late>>
    <3>1. rec.status = "processing"
      BY <2>1, <2>3
    <3>2. LockInv' /\ EmptyInv' /\ AttemptInv'
      BY <2>1, <2>3
    <3>3. ConvertInv' /\ StopInv'
      BY <2>1, <2>3, <3>1
    <3>4. HolderInv' /\ ClientInv' /\ ReleasedInv' /\ RollbackInv' /\ PaidInv'
      BY <2>1, <2>3, <3>1
    <3>5. QED
      BY <3>2, <3>3, <3>4
  <2>4. QED
    BY <1>6, <2>2, <2>3 DEF Publish
<1>7. CASE HandleError(k)
  <2>1. k = rec.retries /\ lock = Free /\ pc[k] \in {"retryable", "broken"}
    BY <1>7 DEF HandleError
  <2>2. CASE rec.status \notin {"finalizing", "done"} /\ SettleFailure(k, pc[k] = "retryable")
    <3>1. \/ rec.status \in {"processing", "cancelling"}
          \/ rec.status = "failed" /\ pc[k] # "retryable" /\ ~rec.cancelRequested
      BY <2>1, <2>2
    <3>2. QED
      BY <2>1, <2>2, <3>1, SettleFailureKeeps DEF SettleFailure
  <2>3. CASE /\ Go(k, "returned")
             /\ rec.status \in {"finalizing", "done"}
             /\ UNCHANGED <<rec, file, ledger, lock, seen, stop, crashes, faults, late>>
    BY <2>1, <2>3
  <2>4. QED
    BY <1>7, <2>2, <2>3 DEF HandleError
<1>8. CASE AttemptLockBusy(k)
  BY <1>8 DEF AttemptLockBusy
<1>9. CASE MarkJobFailed(k)
  <2>1. lock = Free /\ pc[k] \in {"failing", "dead"}
    BY <1>9 DEF MarkJobFailed
  <2>2. CASE /\ rec.status \notin Terminal \cup {"finalizing"}
             /\ \E transient \in {FALSE, pc[k] = "failing"} : SettleFailure(k, transient)
    <3>0. k = rec.retries
      BY <2>1, <2>2, LateReport
    <3>1. rec.status \in {"processing", "cancelling"} \cup Waiting
      BY <2>1, <2>2 DEF Terminal, Active
    <3>2. QED
      BY <2>1, <2>2, <3>0, <3>1, SettleFailureKeeps DEF SettleFailure, Waiting
  <2>3. CASE /\ Go(k, "returned")
             /\ rec.status \in Terminal \cup {"finalizing"}
             /\ UNCHANGED <<rec, file, ledger, lock, seen, stop, crashes, faults, late>>
    BY <2>1, <2>3 DEF Terminal
  <2>4. QED
    BY <1>9, <2>2, <2>3 DEF MarkJobFailed
<1>10. CASE StopDelivered(k)
  BY <1>10 DEF StopDelivered, Running
<1>11. CASE MarkJobStopped(k)
  <2>1. k = rec.retries /\ lock = Free /\ pc[k] = "stopping"
        /\ rec.status \in {"cancelling", "cancelled", "failed"}
    BY <1>11 DEF MarkJobStopped
  <2>2. CASE rec.status \notin Terminal \cup {"finalizing"} /\ EndJob(k, Cancelled(rec))
    <3>1. EndsJob(k, Cancelled(rec))
      BY <2>1, <2>2 DEF EndsJob, Cancelled, Terminal
    <3>2. QED
      BY <1>0, <2>1, <2>2, <3>1, EndJobKeeps
  <2>3. CASE /\ Go(k, "returned")
             /\ rec.status \in Terminal \cup {"finalizing"}
             /\ UNCHANGED <<rec, file, ledger, lock, seen, stop, crashes, faults, late>>
    BY <2>1, <2>3
  <2>4. QED
    BY <1>11, <2>2, <2>3 DEF MarkJobStopped
<1>12. CASE RqFinish(k)
  BY <1>12 DEF RqFinish
<1>13. QED
  BY <1>1, <1>2, <1>3, <1>4, <1>5, <1>6, <1>7, <1>8, <1>9, <1>10, <1>11, <1>12
  DEF AttemptNext

LEMMA ReleasedTwice ==
    ASSUME NEW r \in Record, NEW x \in BOOLEAN, NEW y \in BOOLEAN
    PROVE  [[r EXCEPT !.released = x] EXCEPT !.released = y] = [r EXCEPT !.released = y]
BY DEF Record

LEMMA ClientKeeps ==
    ASSUME InTimeInv, TypeOK', NEW c \in Clients, ClientNext(c)
    PROVE  InTimeInv'
<1> USE ActorsFacts, ActorsAssumption
    DEF InTimeInv, TypeOK, Record, LockInv, EmptyInv, AttemptInv, ConvertInv, StopInv,
        HolderInv, ClientInv, ReleasedInv, RollbackInv, PaidInv,
        Go, Holding, Unsuccessful
<1>1. CASE Get(c)
  BY <1>1 DEF Get, AfterLoad, Remember
<1>2. CASE Delete(c)
  <2> HIDE DEF InTimeInv, TypeOK
  <2>1. CancelJob(c) /\ pc[c] = "idle" /\ UNCHANGED <<file, ledger, lock>>
    BY <1>2 DEF Delete
  <2>2. /\ AfterLoad(rec') = "refund" => seen'[c] = rec'
        /\ \A d \in Clients : d # c => seen'[d] = seen[d]
    BY <1>2 DEF Delete, Remember, InTimeInv, TypeOK
  <2>3. QED
    BY <2>1, <2>2, CancelJobKeeps
<1>3. CASE RefundByClient(c)
  BY <1>3 DEF RefundByClient, ReleaseCall, Refunded
<1>4. CASE MarkReleased(c)
  <2>1. /\ pc[c] \in {"markReleased", "markUnreleased"} /\ rec.status \in Unsuccessful
        /\ rec' = [rec EXCEPT !.released = (pc[c] = "markReleased")]
        /\ rec'.released = (pc[c] = "markReleased")
    BY <1>4 DEF MarkReleased
  <2>2. /\ rec'.status = rec.status /\ rec'.retries = rec.retries
        /\ rec'.cancelRequested = rec.cancelRequested /\ rec'.rollback = rec.rollback
        /\ rec'.result = rec.result
    BY <2>1
  <2>3. LockInv' /\ EmptyInv' /\ AttemptInv' /\ ConvertInv' /\ StopInv'
    BY <1>4, <2>1, <2>2 DEF MarkReleased
  <2>4. ClientInv'
    <3>1. \A d \in Clients : d # c => pc'[d] = pc[d] /\ seen'[d] = seen[d]
      BY <1>4 DEF MarkReleased
    <3>2. pc'[c] = "idle"
      BY <1>4 DEF MarkReleased
    <3>3. ASSUME NEW d \in Clients, pc[d] \in {"refund", "markReleased", "markUnreleased"}, d # c
          PROVE  seen[d] = [rec' EXCEPT !.released = seen[d].released]
      <4>1. seen[d] = [rec EXCEPT !.released = seen[d].released]
        BY <3>3
      <4>2. rec \in Record /\ seen[d].released \in BOOLEAN
            /\ (pc[c] = "markReleased") \in BOOLEAN
        OBVIOUS
      <4> HIDE DEF Record
      <4>3. QED
        BY <2>1, <4>1, <4>2, ReleasedTwice
    <3>4. ledger' = ledger
      BY <1>4 DEF MarkReleased
    <3>5. ASSUME NEW d \in Clients, pc'[d] \in {"refund", "markReleased", "markUnreleased"}
          PROVE  /\ rec'.status \in Unsuccessful
                 /\ seen'[d] = [rec' EXCEPT !.released = seen'[d].released]
                 /\ pc'[d] = "markReleased" => ledger' = "released"
      <4>1. d # c /\ pc[d] = pc'[d] /\ seen[d] = seen'[d]
        BY <3>1, <3>2, <3>5
      <4>2. rec'.status \in Unsuccessful
        BY <2>1, <2>2
      <4>3. seen[d] = [rec' EXCEPT !.released = seen[d].released]
        BY <3>3, <3>5, <4>1
      <4>4. pc[d] = "markReleased" => ledger' = "released"
        BY <3>4
      <4>5. QED
        BY <4>1, <4>2, <4>3, <4>4
    <3>6. QED
      BY <3>5
  <2>5. HolderInv' /\ ReleasedInv' /\ RollbackInv' /\ PaidInv'
    BY <1>4, <2>1, <2>2 DEF MarkReleased
  <2>6. QED
    BY <2>3, <2>4, <2>5
<1>5. CASE ClientLockBusy(c)
  BY <1>5 DEF ClientLockBusy
<1>6. QED
  BY <1>1, <1>2, <1>3, <1>4, <1>5 DEF ClientNext, Settling

LEMMA SharedKeeps ==
    ASSUME InTimeInv, TypeOK', NEW a \in Attempts \cup Clients \cup {Sweep}, Shared(a)
    PROVE  InTimeInv'
<1> USE ActorsFacts, ActorsAssumption
    DEF InTimeInv, TypeOK, Record, LockInv, EmptyInv, AttemptInv, ConvertInv, StopInv,
        HolderInv, ClientInv, ReleasedInv, RollbackInv, PaidInv,
        Go, Holding, Unsuccessful
<1>0. a \in Actors
  BY DEF Actors
<1>1. CASE FinalizeStale(a)
  BY <1>0, <1>1 DEF FinalizeStale, Ready, Resume, AfterLoad, Remember
<1>2. CASE FinalizeMissing(a)
  <2> DEFINE lost == [rec EXCEPT !.status = "failed", !.rollback = TRUE]
  <2>1. lock = Free /\ rec.status = "finalizing" /\ ~file /\ EndJob(a, lost)
    BY <1>2 DEF FinalizeMissing, Ready, OutputMissing
  <2>2. a \in Attempts => a = rec.retries /\ pc[a] = "finalize"
    BY <1>2 DEF FinalizeMissing, Ready
  <2>3. lost \in Record /\ EndsJob(a, lost)
    BY <2>1, <2>2 DEF EndsJob, Terminal
  <2>4. QED
    BY <1>0, <2>1, <2>3, EndJobKeeps
<1>3. CASE FinalizeBegin(a)
  BY <1>0, <1>3 DEF FinalizeBegin, Ready, OutputMissing
<1>4. CASE FinalizeCommit(a)
  <2>1. PICK answer \in {"ok", "rejected", "outage"} :
        /\ CommitCall(TRUE, answer)
        /\ CASE answer = "ok" -> Go(a, "counted") /\ UNCHANGED <<rec, lock>>
             [] answer = "rejected" ->
                  /\ Go(a, "releasing") /\ UNCHANGED lock
                  /\ rec' = [rec EXCEPT !.status = "failed", !.rollback = FALSE]
             [] answer = "outage" ->
                  /\ Go(a, IF a \in Attempts THEN "broken" ELSE "idle")
                  /\ lock' = Free /\ UNCHANGED rec
    BY <1>4 DEF FinalizeCommit
  <2>2. /\ pc[a] = "committing" /\ lock = a /\ rec.status = "finalizing"
        /\ UNCHANGED <<file, seen, stop, crashes, late>>
        /\ \A b \in Actors : b # a => pc[b] \notin Holding
    BY <1>0, <1>4 DEF FinalizeCommit
  <2>3. ledger = "released" => ledger' = "released"
    BY <2>1, CommittedFacts DEF CommitCall
  <2>4. CASE answer = "ok"
    <3>1. ledger' = "counted"
      BY <2>1, <2>4 DEF CommitCall, Committed
    <3>2. Go(a, "counted") /\ UNCHANGED <<rec, lock>>
      BY <2>1, <2>4
    <3>3. QED
      BY <1>0, <2>2, <3>1, <3>2
  <2>5. CASE answer = "rejected"
    <3>1. /\ Go(a, "releasing") /\ UNCHANGED lock
          /\ rec' = [rec EXCEPT !.status = "failed", !.rollback = FALSE]
      BY <2>1, <2>5
    <3>2. LockInv' /\ EmptyInv' /\ AttemptInv'
      BY <1>0, <2>2, <3>1
    <3>3. ConvertInv' /\ StopInv'
      BY <1>0, <2>2, <3>1
    <3>4. HolderInv'
      BY <1>0, <2>2, <3>1
    <3>5. ClientInv'
      BY <1>0, <2>2, <2>3, <3>1
    <3>6. ReleasedInv' /\ RollbackInv' /\ PaidInv'
      BY <1>0, <2>2, <2>3, <3>1
    <3>7. QED
      BY <3>2, <3>3, <3>4, <3>5, <3>6
  <2>6. CASE answer = "outage"
    <3>1. /\ Go(a, IF a \in Attempts THEN "broken" ELSE "idle")
          /\ lock' = Free /\ UNCHANGED rec
      BY <2>1, <2>6
    <3>2. QED
      BY <1>0, <2>2, <2>3, <3>1
  <2>7. QED
    BY <2>4, <2>5, <2>6
<1>5. CASE FinalizeDone(a)
  BY <1>0, <1>5 DEF FinalizeDone
<1>6. CASE PersistRelease(a)
  <2>1. PICK answer \in ReleaseAnswers :
        /\ ReleaseCall(rec.rollback, answer)
        /\ rec' = [rec EXCEPT !.released = (answer = "released")]
        /\ Go(a, Resume(a, rec'))
        /\ Remember(a, rec')
    BY <1>6 DEF PersistRelease
  <2>2. /\ pc[a] = "releasing" /\ lock = a /\ rec.status \in Unsuccessful /\ lock' = Free
        /\ UNCHANGED <<file, stop, crashes, late>>
        /\ \A b \in Actors : b # a => pc[b] \notin Holding
    BY <1>0, <1>6 DEF PersistRelease
  <2>3. /\ rec'.status = rec.status /\ rec'.retries = rec.retries
        /\ rec'.cancelRequested = rec.cancelRequested /\ rec'.rollback = rec.rollback
        /\ rec'.result = rec.result /\ rec'.released = (answer = "released")
    BY <2>1
  <2>4. /\ answer = "released" => ledger' = "released"
        /\ ledger = "released" => ledger' = "released"
    BY <2>1 DEF ReleaseCall, Refunded
  <2>5. /\ pc'[a] \in {"returned", "finalize", "refund", "idle"}
        /\ a \in Attempts => pc'[a] = "returned"
        /\ pc'[a] # "finalize"
        /\ \A b \in Actors : b # a => pc'[b] = pc[b]
    BY <1>0, <2>1, <2>2, <2>3 DEF Resume, AfterLoad
  <2>6. LockInv' /\ EmptyInv' /\ AttemptInv'
    BY <1>0, <2>2, <2>3, <2>5
  <2>7. ConvertInv' /\ StopInv'
    BY <1>0, <2>2, <2>3, <2>5
  <2>8. HolderInv' /\ ReleasedInv' /\ RollbackInv' /\ PaidInv'
    BY <1>0, <2>2, <2>3, <2>4, <2>5
  <2>9. ClientInv'
    <3>1. \A c \in Clients : c # a => pc'[c] = pc[c] /\ seen'[c] = seen[c]
      BY <2>1, <2>5 DEF Remember
    <3>2. a \in Clients /\ pc'[a] = "refund" => seen'[a] = rec'
      BY <1>0, <2>1, <2>2, <2>3 DEF Remember, AfterLoad, Resume
    <3>3. ASSUME NEW c \in Clients, pc'[c] \in {"refund", "markReleased", "markUnreleased"}
          PROVE  seen'[c] = [rec' EXCEPT !.released = seen'[c].released]
      <4>1. CASE c = a
        BY <2>5, <3>2, <3>3, <4>1
      <4>2. CASE c # a
        <5>1. seen[c] = [rec EXCEPT !.released = seen[c].released] /\ seen'[c] = seen[c]
          BY <3>1, <3>3, <4>2
        <5>2. rec \in Record /\ seen[c].released \in BOOLEAN /\ (answer = "released") \in BOOLEAN
          OBVIOUS
        <5>3. PICK ok \in BOOLEAN : ok = (answer = "released")
          BY <5>2
        <5>4. rec' = [rec EXCEPT !.released = ok]
          BY <2>1, <5>3
        <5> HIDE DEF Record
        <5>5. seen[c] = [[rec EXCEPT !.released = ok] EXCEPT !.released = seen[c].released]
          BY <5>1, <5>2, <5>3, ReleasedTwice
        <5>6. QED
          BY <5>1, <5>4, <5>5
      <4>3. QED
        BY <4>1, <4>2
    <3>4. QED
      BY <2>2, <2>3, <2>4, <2>5, <3>1, <3>3
  <2>10. QED
    BY <2>6, <2>7, <2>8, <2>9
<1>7. QED
  BY <1>1, <1>2, <1>3, <1>4, <1>5, <1>6 DEF Shared, Finalize

LEMMA InTimeStep ==
    ASSUME InTimeInv, ~late', [Next]_vars
    PROVE  InTimeInv'
<1> USE ActorsFacts, ActorsAssumption
    DEF InTimeInv, LockInv, EmptyInv, AttemptInv, ConvertInv, StopInv,
        HolderInv, ClientInv, ReleasedInv, RollbackInv, PaidInv
<1>0. TypeOK'
  BY TypeStep
<1>1. ASSUME NEW a \in Actors, Crash(a)
      PROVE  InTimeInv'
  BY <1>0, <1>1 DEF Crash, Go, Holding, Running, TypeOK, Record
<1>2. CASE LockExpires
  BY <1>0, <1>2 DEF LockExpires, TypeOK
<1>3. CASE LoseFile
  BY <1>0, <1>3 DEF LoseFile
<1>4. CASE UNCHANGED vars
  BY <1>0, <1>4 DEF vars
<1>5. ASSUME NEW p \in Posts, PostNext(p)
      PROVE  InTimeInv'
  BY <1>0, <1>5, PostKeeps
<1>6. ASSUME NEW k \in Attempts, AttemptNext(k) \/ Shared(k)
      PROVE  InTimeInv'
  BY <1>0, <1>6, AttemptKeeps, SharedKeeps
<1>7. ASSUME NEW c \in Clients, ClientNext(c) \/ Shared(c)
      PROVE  InTimeInv'
  BY <1>0, <1>7, ClientKeeps, SharedKeeps
<1>8. CASE Shared(Sweep)
  BY <1>0, <1>8, SharedKeeps
<1>9. QED
  BY <1>1, <1>2, <1>3, <1>4, <1>5, <1>6, <1>7, <1>8 DEF Next

LEMMA InTimeInit == Init => InTimeInv
<1> SUFFICES ASSUME Init
             PROVE  InTimeInv
  OBVIOUS
<1>1. NoRecord \in Record
  BY ActorsFacts DEF NoRecord, Record
<1>2. TypeOK
  BY <1>1 DEF Init, TypeOK, PostStates, AttemptStates, ClientStates
<1>3. \A a \in Actors : pc[a] \in {"start", "none", "idle"}
  BY DEF Init
<1>4. rec.status = "none" /\ rec.retries = 0 /\ ~rec.released /\ ~rec.rollback
  BY DEF Init, NoRecord
<1>5. QED
  BY <1>2, <1>3, <1>4, ActorsFacts, ActorsAssumption
  DEF Init, InTimeInv, LockInv, EmptyInv, AttemptInv, ConvertInv, StopInv, HolderInv,
      ClientInv, ReleasedInv, RollbackInv, PaidInv, Holding

-----------------------------------------------------------------------------
(* What a single step may do                                               *)

\* Which changes of status a step may make.
StatusStep ==
    /\ rec.status \in Terminal => rec'.status = rec.status
    /\ rec.status = "cancelling" => rec'.status \in {"cancelling", "cancelled", "failed"}

LEMMA CancelJobStatus ==
    ASSUME NEW a, CancelJob(a), TypeOK
    PROVE  StatusStep
BY DEF StatusStep, CancelJob, Cancelled, TypeOK, Record, Terminal, Active, Waiting, Unsuccessful

LEMMA SettleFailureStatus ==
    ASSUME TypeOK, NEW k \in Attempts, NEW transient, SettleFailure(k, transient),
           rec.status # "done", rec.status = "failed" => ~transient /\ ~rec.cancelRequested,
           rec.status # "cancelled"
    PROVE  StatusStep
<1> USE DEF StatusStep, EndJob, Cancelled, Failed, TypeOK, Record, Terminal, Unsuccessful
<1>1. CASE CancelAsked /\ EndJob(k, Cancelled(rec))
  BY <1>1 DEF CancelAsked
<1>2. CASE ~CancelAsked /\ EndJob(k, Failed(rec))
  BY <1>2 DEF CancelAsked
<1>3. CASE ~CancelAsked /\ transient /\ EnqueueRetry(k)
  BY <1>3 DEF CancelAsked, EnqueueRetry
<1>4. QED
  BY <1>1, <1>2, <1>3 DEF SettleFailure

LEMMA StatusChanges ==
    ASSUME InTimeInv, ~late', [Next]_vars
    PROVE  StatusStep
<1> USE ActorsFacts DEF StatusStep, TypeOK, InTimeInv, Record, Terminal, Unsuccessful
<1>1. ASSUME NEW p \in Posts, PostNext(p)
      PROVE  StatusStep
  <2>1. CASE Rollback(p)
    BY <2>1, CancelJobStatus DEF Rollback
  <2>2. CASE ~Rollback(p)
    BY <1>1, <2>2 DEF PostNext, Authorize, AuthorizeRefused, SubmitNew, SubmitRejected, SubmitBroken,
        SubmitDuplicate, CommitByPost, Confirm, ConfirmLockBusy, RollbackLockBusy, RefundByPost
  <2>3. QED
    BY <2>1, <2>2
<1>2. ASSUME NEW c \in Clients, ClientNext(c)
      PROVE  StatusStep
  <2>1. CASE Delete(c)
    BY <2>1, CancelJobStatus DEF Delete
  <2>2. CASE MarkReleased(c)
    <3>1. pc[c] \in {"markReleased", "markUnreleased"}
      BY <2>2 DEF MarkReleased
    <3>2. seen[c].status = rec.status /\ seen[c] \in Record
      BY <3>1 DEF ClientInv
    <3>3. QED
      BY <2>2, <3>2 DEF MarkReleased
  <2>3. CASE UNCHANGED rec
    BY <2>3
  <2>4. QED
    BY <1>2, <2>1, <2>2, <2>3 DEF ClientNext, Settling, Get, RefundByClient, ClientLockBusy
<1>3. ASSUME NEW a \in Actors, Shared(a)
      PROVE  StatusStep
  <2>1. CASE FinalizeMissing(a)
    BY <2>1 DEF FinalizeMissing, EndJob
  <2>2. CASE FinalizeCommit(a)
    <3>1. rec.status = "finalizing"
      BY <2>2 DEF FinalizeCommit, HolderInv
    <3>2. QED
      BY <3>1
  <2>3. CASE FinalizeDone(a)
    BY <2>3 DEF FinalizeDone, HolderInv
  <2>4. CASE PersistRelease(a)
    BY <2>4 DEF PersistRelease
  <2>5. CASE UNCHANGED rec
    BY <2>5
  <2>6. QED
    BY <1>3, <2>1, <2>2, <2>3, <2>4, <2>5 DEF Shared, Finalize, FinalizeStale, FinalizeBegin
<1>4. ASSUME NEW k \in Attempts, AttemptNext(k)
      PROVE  StatusStep
  <2>1. CASE GiveUpWaiting(k)
    BY <2>1 DEF GiveUpWaiting, EndJob, Failed
  <2>2. CASE Begin(k)
    <3>1. rec.status = "cancelling" /\ pc[k] = "wait" => rec.cancelRequested
      BY DEF AttemptInv, StopInv
    <3>2. QED
      BY <2>2, <3>1 DEF Begin, EndJob, Cancelled
  <2>3. CASE Publish(k)
    <3>1. /\ pc[k] = "publish"
          /\ rec.status \in {"processing", "cancelling"}
          /\ rec.status = "cancelling" => rec.cancelRequested
      BY <2>3 DEF Publish, ConvertInv, StopInv, AttemptInv
    <3>2. QED
      BY <2>3, <3>1 DEF Publish, EndJob, Cancelled
  <2>4. CASE HandleError(k)
    <3>1. CASE rec.status \notin {"finalizing", "done"} /\ SettleFailure(k, pc[k] = "retryable")
      <4>1. pc[k] \in {"retryable", "broken"}
        BY <2>4 DEF HandleError
      <4>2. /\ rec.status \in {"processing", "cancelling", "failed"}
            /\ rec.status = "failed" => pc[k] # "retryable" /\ ~rec.cancelRequested
        BY <3>1, <4>1 DEF ConvertInv
      <4>3. QED
        BY <3>1, <4>2, SettleFailureStatus
    <3>2. CASE UNCHANGED rec
      BY <3>2
    <3>3. QED
      BY <2>4, <3>1, <3>2 DEF HandleError
  <2>5. CASE MarkJobFailed(k)
    <3>1. CASE rec.status \notin Terminal \cup {"finalizing"}
               /\ \E transient \in {FALSE, pc[k] = "failing"} : SettleFailure(k, transient)
      BY <3>1, SettleFailureStatus
    <3>2. CASE UNCHANGED rec
      BY <3>2
    <3>3. QED
      BY <2>5, <3>1, <3>2 DEF MarkJobFailed
  <2>6. CASE MarkJobStopped(k)
    BY <2>6 DEF MarkJobStopped, EndJob, Cancelled
  <2>7. CASE UNCHANGED rec
    BY <2>7
  <2>8. QED
    BY <1>4, <2>1, <2>2, <2>3, <2>4, <2>5, <2>6, <2>7
    DEF AttemptNext, Start, DeadlinePasses, Convert, AttemptLockBusy, StopDelivered, RqFinish
<1>5. CASE UNCHANGED rec
  BY <1>5
<1>6. QED
  BY <1>1, <1>2, <1>3, <1>4, <1>5 DEF Next, Crash, LockExpires, LoseFile, vars

\* How a step may move the usage, and when a counted one is given back.
UsageStep ==
    /\ ledger \in {"none", "released"} => ledger' \in {ledger, "reserved"}
    /\ ledger \in {"reserved", "started"} => ledger' \notin {"none"}
    /\ ledger = "counted" => ledger' \in {"counted", "released"}
    /\ ledger = "counted" /\ ledger' # "counted" => ~file
    /\ rec.status # "done" /\ rec'.status = "done" => UNCHANGED ledger

LEMMA CommitMoves ==
    ASSUME NEW completed \in BOOLEAN, NEW answer, CommitCall(completed, answer), TypeOK
    PROVE  /\ ledger \in {"none", "released", "counted"} => ledger' = ledger
           /\ ledger \in {"reserved", "started"} => ledger' \notin {"none", "released"}
BY DEF CommitCall, Committed, TypeOK

LEMMA ReleaseMoves ==
    ASSUME NEW rollback \in BOOLEAN, NEW answer, ReleaseCall(rollback, answer), TypeOK
    PROVE  /\ ledger \in {"none", "released"} => ledger' = ledger
           /\ ledger \in {"reserved", "started"} => ledger' \in {ledger, "released"}
           /\ ledger = "counted" => ledger' \in {"counted", "released"}
           /\ ledger = "counted" /\ ledger' # "counted" => rollback
<1>1. /\ ledger \in {"none", "released"} => Refunded(rollback) = ledger
      /\ ledger \in {"reserved", "started"} => Refunded(rollback) = "released"
  BY DEF Refunded
<1>2. /\ ledger = "counted" => Refunded(rollback) \in {"counted", "released"}
      /\ ledger = "counted" /\ Refunded(rollback) # "counted" => rollback
  BY DEF Refunded
<1>3. QED
  BY <1>1, <1>2 DEF ReleaseCall, TypeOK

LEMMA UsageChanges ==
    ASSUME InTimeInv, [Next]_vars
    PROVE  UsageStep
<1> USE DEF UsageStep
<1>1. CASE UNCHANGED ledger
  BY <1>1
<1>2. ASSUME NEW p \in Posts, Authorize(p) \/ AuthorizeRefused(p)
      PROVE  UsageStep
  BY <1>2 DEF Authorize, AuthorizeRefused, Reserved
<1>3. ASSUME NEW p \in Posts, CommitByPost(p)
      PROVE  UsageStep
  <2>1. PICK answer : CommitCall(FALSE, answer)
    BY <1>3 DEF CommitByPost
  <2>2. UNCHANGED rec
    BY <1>3 DEF CommitByPost
  <2>3. QED
    BY <2>1, <2>2, CommitMoves DEF InTimeInv, TypeOK
<1>4. ASSUME NEW p \in Posts, RefundByPost(p)
      PROVE  UsageStep
  <2>1. CASE UNCHANGED ledger
    BY <2>1
  <2>2. CASE \E answer \in ReleaseAnswers : ReleaseCall(FALSE, answer)
    <3>1. UNCHANGED rec
      BY <1>4 DEF RefundByPost
    <3>2. QED
      BY <2>2, <3>1, ReleaseMoves DEF InTimeInv
  <2>3. QED
    BY <1>4, <2>1, <2>2 DEF RefundByPost
<1>5. ASSUME NEW c \in Clients, RefundByClient(c)
      PROVE  UsageStep
  <2>1. UNCHANGED rec /\ pc[c] = "refund"
    BY <1>5 DEF RefundByClient
  <2>2. seen[c].rollback \in BOOLEAN /\ seen[c].rollback = rec.rollback
    BY <2>1 DEF InTimeInv, TypeOK, Record, ClientInv
  <2>3. PICK answer \in ReleaseAnswers : ReleaseCall(seen[c].rollback, answer)
    BY <1>5 DEF RefundByClient
  <2>4. QED
    BY <2>1, <2>2, <2>3, ReleaseMoves DEF InTimeInv, TypeOK, Record, RollbackInv
<1>6. ASSUME NEW a \in Actors, FinalizeCommit(a)
      PROVE  UsageStep
  <2>1. PICK answer : CommitCall(TRUE, answer)
    BY <1>6 DEF FinalizeCommit
  <2>2. rec'.status \in {"finalizing", "failed"}
    BY <1>6 DEF FinalizeCommit, HolderInv, InTimeInv, TypeOK, Record
  <2>3. QED
    BY <2>1, <2>2, CommitMoves DEF InTimeInv, TypeOK
<1>7. ASSUME NEW a \in Actors, PersistRelease(a)
      PROVE  UsageStep
  <2>1. PICK answer \in ReleaseAnswers : ReleaseCall(rec.rollback, answer)
    BY <1>7 DEF PersistRelease
  <2>2. rec'.status = rec.status
    BY <1>7 DEF PersistRelease, InTimeInv, TypeOK, Record
  <2>3. QED
    BY <2>1, <2>2, ReleaseMoves DEF InTimeInv, TypeOK, Record, RollbackInv
<1>8. ASSUME NEW p \in Posts, PostNext(p)
      PROVE  UsageStep
  BY <1>1, <1>2, <1>3, <1>4, <1>8
  DEF PostNext, SubmitNew, SubmitRejected, SubmitBroken, SubmitDuplicate, Confirm,
      ConfirmLockBusy, Rollback, RollbackLockBusy
<1>9. ASSUME NEW k \in Attempts, AttemptNext(k)
      PROVE  UsageStep
  BY <1>1, <1>9
  DEF AttemptNext, Start, DeadlinePasses, GiveUpWaiting, Begin, Convert, Publish,
      HandleError, AttemptLockBusy, MarkJobFailed, StopDelivered, MarkJobStopped,
      RqFinish, SettleFailure, EnqueueRetry, EndJob
<1>10. ASSUME NEW c \in Clients, ClientNext(c)
       PROVE  UsageStep
  BY <1>1, <1>5, <1>10
  DEF ClientNext, Settling, Get, Delete, MarkReleased, ClientLockBusy
<1>11. ASSUME NEW a \in Actors, Shared(a)
       PROVE  UsageStep
  BY <1>1, <1>6, <1>7, <1>11
  DEF Shared, Finalize, FinalizeStale, FinalizeMissing, FinalizeBegin, FinalizeDone, EndJob
<1>12. QED
  BY <1>1, <1>8, <1>9, <1>10, <1>11, ActorsFacts DEF Next, Crash, LockExpires, LoseFile, vars

-----------------------------------------------------------------------------
(* After a late report                                                     *)

\* A record that is written, or written back, after a late report: the job
\* has ended or its result is ready, and a rollback is for a lost output.
LateRecord(r) ==
    /\ r.retries = 1
    /\ r.status \in Terminal \cup {"finalizing"}
    /\ r.status = "finalizing" => r.result /\ pc[1] # "convert"
    /\ r.rollback => ~file /\ pc[1] # "convert"

LateInv ==
    /\ LateRecord(rec)
    /\ pc[0] \in {"returned", "gone", "dead", "stopping", "releasing"}
    /\ \A c \in Clients :
        pc[c] \in {"refund", "markReleased", "markUnreleased"} => LateRecord(seen[c])

\* The inductive invariant.
IInv ==
    /\ TypeOK
    /\ ~late => InTimeInv
    /\ late => LateInv

\* A late report: the failure of the first attempt, killed behind
\* enqueue_retry, ends the job.
Overtaking ==
    /\ rec.retries = 1 /\ pc[0] = "dead" /\ lock = Free
    /\ rec.status \notin Terminal \cup {"finalizing"}
    /\ EndJob(0, Cancelled(rec)) \/ (~CancelAsked /\ EndJob(0, Failed(rec)))

LEMMA OnlyReportsAreLate ==
    ASSUME InTimeInv, ~late, late', [Next]_vars
    PROVE  Overtaking
<1> USE ActorsFacts, ActorsAssumption
<1>0. TypeOK /\ rec.retries \in {0, 1}
  BY DEF InTimeInv, TypeOK, Record
<1>1. ASSUME NEW a \in Actors, NEW r, EndJob(a, r), a \in Attempts => a = rec.retries
      PROVE  FALSE
  <2>1. late' = (late \/ (a \in Attempts /\ a < rec.retries))
    BY <1>1 DEF EndJob
  <2>2. ~(a \in Attempts /\ a < rec.retries)
    BY <1>0, <1>1
  <2>3. QED
    BY <2>1, <2>2
<1>2. ASSUME NEW p \in Posts, PostNext(p)
      PROVE  FALSE
  BY <1>2
  DEF PostNext, Authorize, AuthorizeRefused, SubmitNew, SubmitRejected, SubmitBroken,
      SubmitDuplicate, CommitByPost, Confirm, ConfirmLockBusy, Rollback, RollbackLockBusy,
      RefundByPost
<1>3. ASSUME NEW c \in Clients, ClientNext(c)
      PROVE  FALSE
  BY <1>3
  DEF ClientNext, Settling, Get, Delete, RefundByClient, MarkReleased, ClientLockBusy
<1>4. ASSUME NEW a \in Attempts \cup Clients \cup {Sweep}, Shared(a)
      PROVE  FALSE
  <2>1. CASE FinalizeMissing(a)
    <3>1. a \in Attempts => pc[a] = "finalize"
      BY <2>1 DEF FinalizeMissing, Ready
    <3>2. a \in Attempts => a = rec.retries
      BY <1>0, <3>1 DEF InTimeInv, AttemptInv
    <3>3. QED
      BY <1>1, <2>1, <3>2 DEF FinalizeMissing, Actors
  <2>2. QED
    BY <1>4, <2>1
    DEF Shared, Finalize, FinalizeStale, FinalizeBegin, FinalizeCommit, FinalizeDone, PersistRelease
<1>5. ASSUME NEW k \in Attempts, AttemptNext(k)
      PROVE  MarkJobFailed(k) /\ k # rec.retries /\ ~UNCHANGED late
  <2>1. k \in Actors
    OBVIOUS
  <2>2. CASE pc[k] \in {"deadline", "wait", "publish", "retryable", "broken", "stopping"}
    <3>1. k = rec.retries
      BY <1>0, <2>2 DEF InTimeInv, AttemptInv, StopInv
    <3>2. \A r : ~EndJob(k, r)
      BY <1>1, <2>1, <3>1
    <3>3. QED
      BY <1>5, <2>2, <3>2
      DEF AttemptNext, Start, DeadlinePasses, GiveUpWaiting, Begin, Convert, Publish,
          HandleError, AttemptLockBusy, MarkJobFailed, StopDelivered, MarkJobStopped,
          RqFinish, SettleFailure, EnqueueRetry
  <2>3. CASE pc[k] \notin {"deadline", "wait", "publish", "retryable", "broken", "stopping"}
    <3>1. CASE MarkJobFailed(k)
      <4>1. CASE k = rec.retries
        BY <1>1, <2>1, <3>1, <4>1 DEF MarkJobFailed, SettleFailure, EnqueueRetry
      <4>2. QED
        BY <3>1, <4>1
    <3>2. QED
      BY <1>5, <2>3, <3>1
      DEF AttemptNext, Start, DeadlinePasses, GiveUpWaiting, Begin, Convert, Publish,
          HandleError, AttemptLockBusy, StopDelivered, MarkJobStopped, RqFinish
  <2>4. QED
    BY <2>2, <2>3
<1>6. ASSUME NEW k \in Attempts, MarkJobFailed(k), k # rec.retries
      PROVE  Overtaking
  <2>1. /\ pc[k] \in {"failing", "dead"} /\ lock = Free
        /\ rec.status \notin Terminal \cup {"finalizing"}
        /\ \E transient \in {FALSE, pc[k] = "failing"} : SettleFailure(k, transient)
    BY <1>6 DEF MarkJobFailed
  <2>2. k = 0 /\ rec.retries = 1 /\ pc[k] = "dead"
    BY <1>0, <1>6, <2>1 DEF InTimeInv, AttemptInv
  <2>3. EndJob(k, Cancelled(rec)) \/ (~CancelAsked /\ EndJob(k, Failed(rec)))
    BY <2>1, <2>2 DEF SettleFailure
  <2>4. QED
    BY <2>1, <2>2, <2>3 DEF Overtaking
<1>7. QED
  BY <1>2, <1>3, <1>4, <1>5, <1>6 DEF Next, Crash, LockExpires, LoseFile, vars

LEMMA LateArrives ==
    ASSUME InTimeInv, TypeOK', Overtaking
    PROVE  LateInv'
<1> USE ActorsFacts, ActorsAssumption
<1>1. /\ rec.retries = 1 /\ pc[0] = "dead" /\ lock = Free
      /\ rec.status \notin Terminal \cup {"finalizing"}
      /\ rec \in Record /\ pc \in [Actors -> States]
  BY DEF Overtaking, InTimeInv, TypeOK, States
<1>2. ~rec.rollback /\ \A c \in Clients : pc[c] \notin {"refund", "markReleased", "markUnreleased"}
  BY <1>1 DEF InTimeInv, RollbackInv, ClientInv, Terminal, Unsuccessful
<1>3. \/ EndJob(0, Cancelled(rec)) /\ rec' = Cancelled(rec)
      \/ EndJob(0, Failed(rec)) /\ rec' = Failed(rec)
  BY DEF Overtaking, EndJob
<1>4. /\ rec'.retries = 1 /\ rec'.status \in Unsuccessful /\ ~rec'.rollback
      /\ pc'[0] \in {"releasing", "returned"}
      /\ \A a \in Actors : a # 0 => pc'[a] = pc[a]
  BY <1>1, <1>2, <1>3 DEF EndJob, Go, Resume, Cancelled, Failed, Record, Unsuccessful
<1>5. \A c \in Clients : c # 0
  OBVIOUS
<1>6. QED
  BY <1>2, <1>4, <1>5 DEF LateInv, LateRecord, Terminal, Unsuccessful

\* Ending a job that a late report has ended already.
LEMMA EndAgain ==
    ASSUME TypeOK, LateInv, NEW a \in Actors, a # 0, NEW r, EndJob(a, r),
           r.retries = 1, r.status \in Unsuccessful, r.rollback => ~file /\ pc[1] # "convert"
    PROVE  LateInv'
<1> USE ActorsFacts, ActorsAssumption
<1>1. /\ rec' = r /\ file' = file /\ seen' = seen
      /\ pc'[a] \in {"releasing", "returned", "finalize", "refund", "idle"}
      /\ pc'[a] = "refund" => FALSE \/ (a \in Clients /\ ~Billable)
      /\ \A b \in Actors : b # a => pc'[b] = pc[b]
  BY NextStates DEF EndJob, Go, TypeOK, Resume, AfterLoad
<1>2. pc'[a] # "refund"
  BY <1>1 DEF EndJob, Go, TypeOK, Resume, AfterLoad
<1>3. LateRecord(rec)'
  BY <1>1 DEF LateRecord, Terminal, Unsuccessful
<1>4. \A c \in Clients :
        pc'[c] \in {"refund", "markReleased", "markUnreleased"} =>
            pc[c] = pc'[c] /\ seen'[c] = seen[c] /\ LateRecord(seen[c])
  BY <1>1, <1>2 DEF LateInv
<1>5. pc'[0] = pc[0] /\ (pc'[1] = "convert" => pc[1] = "convert")
  BY <1>1
<1>6. QED
  BY <1>1, <1>3, <1>4, <1>5 DEF LateInv, LateRecord

LEMMA LatePost ==
    ASSUME TypeOK, LateInv, NEW p \in Posts, PostNext(p)
    PROVE  LateInv'
<1> USE ActorsFacts, ActorsAssumption
<1>0. p \in Actors /\ p \notin {0, 1} /\ p \notin Clients
  OBVIOUS
<1>1. rec.status \in Terminal \cup {"finalizing"}
  BY DEF LateInv, LateRecord
<1>2. rec.status \notin {"none", "billing_pending", "queued", "processing", "cancelling"}
  BY <1>1 DEF Terminal, Unsuccessful
<1>3. /\ rec' = rec /\ file' = file /\ seen' = seen
      /\ \A b \in Actors : b # p => pc'[b] = pc[b]
  <2>1. CASE Rollback(p)
    BY <1>0, <1>1, <1>2, <2>1 DEF Rollback, CancelJob, Go, TypeOK, Active, Waiting
  <2>2. CASE Confirm(p)
    BY <1>0, <1>2, <2>2 DEF Confirm, Go, TypeOK
  <2>3. QED
    BY <1>0, <1>2, <2>1, <2>2
    DEF PostNext, Authorize, AuthorizeRefused, SubmitNew, SubmitRejected, SubmitBroken,
        SubmitDuplicate, CommitByPost, ConfirmLockBusy, RollbackLockBusy, RefundByPost, Go, TypeOK
<1>4. QED
  BY <1>0, <1>3 DEF LateInv, LateRecord

LEMMA LateClient ==
    ASSUME TypeOK, LateInv, NEW c \in Clients, ClientNext(c)
    PROVE  LateInv'
<1> USE ActorsFacts, ActorsAssumption
<1>0. /\ c \in Actors /\ c \notin {0, 1}
      /\ \A d \in Clients : d \in Actors /\ d \notin {0, 1}
  OBVIOUS
<1>1. rec.status \in Terminal \cup {"finalizing"}
  BY DEF LateInv, LateRecord
<1>2. rec.status \notin {"none", "billing_pending", "queued", "processing", "cancelling"}
  BY <1>1 DEF Terminal, Unsuccessful
<1>3. CASE MarkReleased(c)
  <2>1. LateRecord(seen[c]) /\ seen[c] \in Record
    BY <1>3 DEF MarkReleased, LateInv, TypeOK
  <2>2. /\ rec'.status = seen[c].status /\ rec'.retries = seen[c].retries
        /\ rec'.rollback = seen[c].rollback /\ rec'.result = seen[c].result
    BY <1>3, <2>1 DEF MarkReleased, Record
  <2>3. /\ pc'[c] = "idle" /\ file' = file
        /\ \A a \in Actors : a # c => pc'[a] = pc[a]
        /\ \A d \in Clients : d # c => seen'[d] = seen[d]
    BY <1>0, <1>3 DEF MarkReleased, Go, TypeOK
  <2>4. QED
    BY <1>0, <2>1, <2>2, <2>3 DEF LateInv, LateRecord
<1>4. CASE ~MarkReleased(c)
  <2>1. /\ rec' = rec /\ file' = file
        /\ \A a \in Actors : a # c => pc'[a] = pc[a]
        /\ \A d \in Clients : d # c => seen'[d] = seen[d]
    <3>1. CASE Delete(c)
      BY <1>0, <1>1, <1>2, <3>1 DEF Delete, CancelJob, Remember, Go, TypeOK, Active, Waiting
    <3>2. CASE Get(c) \/ RefundByClient(c) \/ ClientLockBusy(c)
      BY <1>0, <3>2 DEF Get, RefundByClient, ClientLockBusy, Remember, Go, TypeOK
    <3>3. QED
      BY <1>4, <3>1, <3>2 DEF ClientNext, Settling
  <2>2. pc'[c] \in {"refund", "markReleased", "markUnreleased"} => seen'[c] = rec
    <3>1. CASE Delete(c)
      <4>1. rec' = rec /\ pc'[c] = AfterLoad(rec)
        BY <1>0, <1>1, <1>2, <3>1 DEF Delete, CancelJob, AfterCancel, Go, TypeOK, Active, Waiting
      <4>2. AfterLoad(rec) # "refund" \/ seen'[c] = rec
        BY <3>1, <4>1 DEF Delete, Remember, TypeOK
      <4>3. QED
        BY <4>1, <4>2, NextStates
    <3>2. CASE Get(c)
      BY <1>0, <3>2, NextStates DEF Get, Remember, Go, TypeOK
    <3>3. CASE RefundByClient(c)
      BY <1>0, <3>3 DEF RefundByClient, Go, TypeOK
    <3>4. CASE ClientLockBusy(c)
      BY <1>0, <3>4 DEF ClientLockBusy, Go, TypeOK
    <3>5. QED
      BY <1>4, <3>1, <3>2, <3>3, <3>4 DEF ClientNext, Settling
  <2>3. QED
    BY <1>0, <2>1, <2>2 DEF LateInv, LateRecord
<1>5. QED
  BY <1>3, <1>4

LEMMA LateShared ==
    ASSUME TypeOK, LateInv, NEW a \in Attempts \cup Clients \cup {Sweep}, Shared(a)
    PROVE  LateInv'
<1> USE ActorsFacts, ActorsAssumption
<1>0. a \in Actors /\ rec \in Record /\ \A c \in Clients : c \in Actors /\ c \notin {0, 1}
  BY DEF TypeOK
<1>1. CASE FinalizeStale(a)
  <2>1. /\ rec' = rec /\ file' = file /\ a # 0
        /\ pc' = [pc EXCEPT ![a] = Resume(a, rec)]
        /\ \A c \in Clients : c # a => seen'[c] = seen[c]
    BY <1>0, <1>1 DEF FinalizeStale, Ready, Go, Remember, LateInv, TypeOK
  <2>2. /\ pc'[a] \in {"returned", "finalize", "refund", "idle"}
        /\ a \in Clients /\ pc'[a] = "refund" => seen'[a] = rec
    BY <1>0, <1>1, <2>1, NextStates DEF FinalizeStale, Remember, Resume, TypeOK
  <2>3. QED
    BY <1>0, <2>1, <2>2 DEF LateInv, LateRecord, TypeOK
<1>2. CASE FinalizeMissing(a)
  <2> DEFINE gone == [rec EXCEPT !.status = "failed", !.rollback = TRUE]
  <2>1. /\ a # 0 /\ ~file /\ pc[1] # "convert" /\ EndJob(a, gone)
    BY <1>0, <1>2 DEF FinalizeMissing, Ready, OutputMissing, LateInv, LateRecord
  <2>2. gone.retries = 1 /\ gone.status \in Unsuccessful
    BY <1>0 DEF LateInv, LateRecord, Record, Unsuccessful
  <2>3. QED
    BY <1>0, <2>1, <2>2, EndAgain
<1>3. CASE FinalizeBegin(a) \/ FinalizeDone(a) \/ FinalizeCommit(a)
  <2>1. /\ rec'.retries = 1
        /\ rec'.rollback => rec.rollback
        /\ \/ rec' = rec
           \/ rec'.status \in {"failed", "done"}
    <3>1. rec.retries = 1 /\ rec \in Record
      BY <1>0 DEF LateInv, LateRecord
    <3>2. \/ rec' = rec
          \/ rec' = [rec EXCEPT !.status = "done"]
          \/ rec' = [rec EXCEPT !.status = "failed", !.rollback = FALSE]
      BY <1>3 DEF FinalizeBegin, FinalizeDone, FinalizeCommit
    <3>3. QED
      BY <3>1, <3>2 DEF Record
  <2>2. /\ file' = file /\ seen' = seen /\ a # 0
        /\ pc'[a] \in {"committing", "returned", "idle", "counted", "releasing", "broken"}
        /\ \A b \in Actors : b # a => pc'[b] = pc[b]
    BY <1>0, <1>3
    DEF FinalizeBegin, FinalizeDone, FinalizeCommit, Ready, Go, LateInv, TypeOK
  <2>3. pc'[0] = pc[0] /\ (pc'[1] = "convert" => pc[1] = "convert")
    BY <2>2
  <2>4. LateRecord(rec)'
    BY <2>1, <2>2, <2>3 DEF LateInv, LateRecord, Terminal, Unsuccessful
  <2>5. \A c \in Clients : pc'[c] \in {"refund", "markReleased", "markUnreleased"} =>
          seen'[c] = seen[c] /\ LateRecord(seen[c])
    BY <1>0, <2>2 DEF LateInv
  <2>6. QED
    BY <2>2, <2>3, <2>4, <2>5 DEF LateInv, LateRecord
<1>4. CASE PersistRelease(a)
  <2>1. /\ rec'.retries = rec.retries /\ rec'.rollback = rec.rollback
        /\ rec'.status = rec.status /\ rec'.result = rec.result
        /\ file' = file
        /\ \A c \in Clients : c # a => seen'[c] = seen[c]
        /\ pc' = [pc EXCEPT ![a] = Resume(a, rec')]
    BY <1>0, <1>4 DEF PersistRelease, Record, Remember, Go
  <2>2. /\ pc'[a] \in {"returned", "finalize", "refund", "idle"}
        /\ a \in Attempts => pc'[a] = "returned"
        /\ a \in Clients /\ pc'[a] = "refund" => seen'[a] = rec'
        /\ \A b \in Actors : b # a => pc'[b] = pc[b]
    BY <1>0, <1>4, <2>1, NextStates DEF PersistRelease, Remember, Resume, TypeOK
  <2>3. pc'[0] \in {"returned", "gone", "dead", "stopping", "releasing"}
        /\ (pc'[1] = "convert" => pc[1] = "convert")
    BY <2>2 DEF LateInv
  <2>4. LateRecord(rec)'
    BY <2>1, <2>3 DEF LateInv, LateRecord
  <2>5. \A c \in Clients : c # a /\ pc'[c] \in {"refund", "markReleased", "markUnreleased"} =>
          seen'[c] = seen[c] /\ LateRecord(seen[c])
    BY <1>0, <2>1, <2>2 DEF LateInv
  <2>6. a \in Clients /\ pc'[a] \in {"refund", "markReleased", "markUnreleased"} => seen'[a] = rec'
    BY <2>2
  <2>7. ASSUME NEW c \in Clients, pc'[c] \in {"refund", "markReleased", "markUnreleased"}
        PROVE  LateRecord(seen[c])'
    <3>1. CASE c = a
      BY <2>4, <2>6, <2>7, <3>1 DEF LateRecord
    <3>2. CASE c # a
      BY <2>1, <2>3, <2>5, <2>7, <3>2 DEF LateRecord
    <3>3. QED
      BY <3>1, <3>2
  <2>8. QED
    BY <2>3, <2>4, <2>7 DEF LateInv
<1>5. QED
  BY <1>1, <1>2, <1>3, <1>4 DEF Shared, Finalize

LEMMA LateAttempt ==
    ASSUME TypeOK, LateInv, NEW k \in Attempts, AttemptNext(k)
    PROVE  LateInv'
<1> USE ActorsFacts, ActorsAssumption
<1>0. /\ k \in {0, 1} /\ k \in Actors /\ rec \in Record
      /\ \A c \in Clients : c \in Actors /\ c \notin {0, 1}
  BY DEF TypeOK
<1>1. rec.status \in Terminal \cup {"finalizing"} /\ rec.retries = 1
  BY DEF LateInv, LateRecord
<1>2. rec.status \notin {"none", "billing_pending", "queued", "processing", "cancelling"}
  BY <1>1 DEF Terminal, Unsuccessful
<1>3. CASE Convert(k)
  <2>1. k = 1 /\ pc[1] = "convert"
    BY <1>0, <1>3 DEF Convert, LateInv
  <2>2. /\ rec' = rec /\ seen' = seen /\ pc'[1] \in {"publish", "retryable", "broken"}
        /\ \A b \in Actors : b # 1 => pc'[b] = pc[b]
    BY <1>0, <1>3, <2>1 DEF Convert, Go, TypeOK
  <2>3. QED
    BY <1>0, <2>1, <2>2 DEF LateInv, LateRecord
<1>4. CASE Publish(k)
  <2>1. k = 1 /\ pc[1] = "publish"
    BY <1>0, <1>4 DEF Publish, LateInv
  <2>2. CASE EndJob(k, Cancelled(rec))
    <3>1. /\ Cancelled(rec).retries = 1 /\ Cancelled(rec).status \in Unsuccessful
          /\ Cancelled(rec).rollback = rec.rollback
      BY <1>0, <1>1 DEF Cancelled, Record, Unsuccessful
    <3>2. QED
      BY <1>0, <2>1, <2>2, <3>1, EndAgain DEF LateInv, LateRecord
  <2>3. CASE ~EndJob(k, Cancelled(rec))
    <3>1. /\ rec'.retries = 1 /\ rec'.status \in {"finalizing", "done"}
          /\ rec'.result /\ rec'.rollback = rec.rollback /\ file' = file /\ seen' = seen
      BY <1>0, <1>1, <1>4, <2>3 DEF Publish, Record
    <3>2. /\ pc'[1] \in {"finalize", "returned"}
          /\ \A b \in Actors : b # 1 => pc'[b] = pc[b]
      BY <1>0, <1>4, <2>1, <2>3 DEF Publish, Go, TypeOK
    <3>3. QED
      BY <1>0, <3>1, <3>2 DEF LateInv, LateRecord, Terminal
  <2>4. QED
    BY <2>2, <2>3
<1>5. CASE HandleError(k)
  <2>1. k = 1 /\ pc[1] \in {"retryable", "broken"}
    BY <1>0, <1>5 DEF HandleError, LateInv
  <2>2. CASE EndJob(k, Cancelled(rec)) \/ EndJob(k, Failed(rec))
    <3>1. /\ Cancelled(rec).retries = 1 /\ Cancelled(rec).status \in Unsuccessful
          /\ Cancelled(rec).rollback = rec.rollback
          /\ Failed(rec).retries = 1 /\ Failed(rec).status \in Unsuccessful
          /\ Failed(rec).rollback = rec.rollback
      BY <1>0, <1>1 DEF Cancelled, Failed, Record, Unsuccessful
    <3>2. QED
      BY <1>0, <2>1, <2>2, <3>1, EndAgain DEF LateInv, LateRecord
  <2>3. CASE /\ Go(k, "returned") /\ UNCHANGED <<rec, file, seen>>
    BY <1>0, <2>1, <2>3 DEF LateInv, LateRecord, Go, TypeOK
  <2>4. QED
    BY <1>1, <1>5, <2>2, <2>3 DEF HandleError, SettleFailure
<1>6. CASE /\ ~Convert(k) /\ ~Publish(k) /\ ~HandleError(k)
  <2>1. UNCHANGED <<rec, file, seen>>
    BY <1>1, <1>2, <1>6
    DEF AttemptNext, Start, DeadlinePasses, GiveUpWaiting, Begin, AttemptLockBusy,
        MarkJobFailed, StopDelivered, MarkJobStopped, RqFinish
  <2>2. /\ \A b \in Actors : b # k => pc'[b] = pc[b]
        /\ k = 1 => pc'[1] # "convert" \/ pc'[1] = pc[1]
        /\ k = 0 => pc'[0] \in {"returned", "gone", "dead", "stopping", "releasing"}
    <3>1. CASE StopDelivered(k)
      BY <1>0, <3>1 DEF StopDelivered, LateInv, TypeOK, Running
    <3>2. CASE Begin(k)
      BY <1>0, <1>1, <1>2, <3>2 DEF Begin, Go, LateInv, TypeOK
    <3>3. CASE MarkJobFailed(k) \/ MarkJobStopped(k) \/ GiveUpWaiting(k)
      BY <1>0, <1>1, <1>2, <3>3
      DEF MarkJobFailed, MarkJobStopped, GiveUpWaiting, Go, LateInv, TypeOK
    <3>4. CASE Start(k) \/ DeadlinePasses(k) \/ AttemptLockBusy(k) \/ RqFinish(k)
      BY <1>0, <1>2, <3>4
      DEF Start, DeadlinePasses, AttemptLockBusy, RqFinish, Go, LateInv, TypeOK
    <3>5. QED
      BY <1>6, <3>1, <3>2, <3>3, <3>4 DEF AttemptNext
  <2>3. QED
    BY <1>0, <2>1, <2>2 DEF LateInv, LateRecord
<1>7. QED
  BY <1>3, <1>4, <1>5, <1>6

LEMMA LateStep ==
    ASSUME TypeOK, LateInv, [Next]_vars
    PROVE  LateInv'
<1> USE ActorsFacts, ActorsAssumption
<1>1. ASSUME NEW a \in Actors, Crash(a)
      PROVE  LateInv'
  <2>1. /\ UNCHANGED <<rec, file, seen>> /\ pc'[a] \in {"dead", "idle", "refused"}
        /\ a \in Attempts => pc'[a] = "dead"
        /\ \A b \in Actors : b # a => pc'[b] = pc[b]
    BY <1>1 DEF Crash, Go, TypeOK
  <2>2. QED
    BY <2>1 DEF LateInv, LateRecord
<1>2. CASE LockExpires \/ UNCHANGED vars
  BY <1>2 DEF LockExpires, vars, LateInv, LateRecord
<1>3. CASE LoseFile
  BY <1>3 DEF LoseFile, LateInv, LateRecord
<1>4. QED
  BY <1>1, <1>2, <1>3, LatePost, LateClient, LateShared, LateAttempt DEF Next

LEMMA LateStays ==
    ASSUME late, [Next]_vars
    PROVE  late'
<1> USE DEF EndJob
<1>1. ASSUME NEW p \in Posts, PostNext(p) PROVE late'
  BY <1>1
  DEF PostNext, Authorize, AuthorizeRefused, SubmitNew, SubmitRejected, SubmitBroken,
      SubmitDuplicate, CommitByPost, Confirm, ConfirmLockBusy, Rollback, RollbackLockBusy,
      RefundByPost
<1>2. ASSUME NEW c \in Clients, ClientNext(c) PROVE late'
  BY <1>2
  DEF ClientNext, Settling, Get, Delete, RefundByClient, MarkReleased, ClientLockBusy
<1>3. ASSUME NEW a, Shared(a) PROVE late'
  BY <1>3
  DEF Shared, Finalize, FinalizeStale, FinalizeMissing, FinalizeBegin, FinalizeCommit,
      FinalizeDone, PersistRelease
<1>4. ASSUME NEW k \in Attempts, AttemptNext(k) PROVE late'
  BY <1>4
  DEF AttemptNext, Start, DeadlinePasses, GiveUpWaiting, Begin, Convert, Publish, HandleError,
      AttemptLockBusy, MarkJobFailed, StopDelivered, MarkJobStopped, RqFinish, SettleFailure,
      EnqueueRetry
<1>5. QED
  BY <1>1, <1>2, <1>3, <1>4 DEF Next, Crash, LockExpires, LoseFile, vars

LEMMA InvStep ==
    ASSUME IInv, [Next]_vars
    PROVE  IInv'
<1>1. TypeOK'
  BY TypeStep DEF IInv
<1>2. CASE late
  <2>1. LateInv'
    BY <1>2, LateStep DEF IInv
  <2>2. late'
    BY <1>2, LateStays
  <2>3. QED
    BY <1>1, <2>1, <2>2 DEF IInv
<1>3. CASE ~late /\ late'
  BY <1>1, <1>3, OnlyReportsAreLate, LateArrives DEF IInv
<1>4. CASE ~late /\ ~late'
  BY <1>1, <1>4, InTimeStep DEF IInv
<1>5. QED
  BY <1>1, <1>2, <1>3, <1>4 DEF IInv, TypeOK

LEMMA LateUsage ==
    ASSUME TypeOK, LateInv, [Next]_vars
    PROVE  ledger = "counted" /\ ledger' # "counted" => ~file
<1> USE ActorsFacts
<1>1. CASE UNCHANGED ledger
  BY <1>1
<1>2. ASSUME NEW p \in Posts, PostNext(p), ledger = "counted"
      PROVE  ledger' = "counted"
  <2>1. CASE CommitByPost(p)
    BY <1>2, <2>1, CommitMoves DEF CommitByPost
  <2>2. CASE RefundByPost(p)
    BY <1>2, <2>2, ReleaseMoves DEF RefundByPost
  <2>3. QED
    BY <1>2, <2>1, <2>2
    DEF PostNext, Authorize, AuthorizeRefused, Reserved, SubmitNew, SubmitRejected, SubmitBroken,
        SubmitDuplicate, Confirm, ConfirmLockBusy, Rollback, RollbackLockBusy
<1>3. ASSUME NEW c \in Clients, RefundByClient(c)
      PROVE  ledger = "counted" /\ ledger' # "counted" => ~file
  <2>1. /\ seen[c].rollback \in BOOLEAN /\ LateRecord(seen[c])
        /\ \E answer \in ReleaseAnswers : ReleaseCall(seen[c].rollback, answer)
    BY <1>3 DEF RefundByClient, LateInv, TypeOK, Record
  <2>2. QED
    BY <2>1, ReleaseMoves DEF LateRecord
<1>4. ASSUME NEW a \in Actors, Shared(a), ~UNCHANGED ledger
      PROVE  ledger = "counted" /\ ledger' # "counted" => ~file
  <2>1. CASE FinalizeCommit(a)
    BY <2>1, CommitMoves DEF FinalizeCommit
  <2>2. CASE PersistRelease(a)
    <3>1. /\ rec.rollback \in BOOLEAN /\ LateRecord(rec)
          /\ \E answer \in ReleaseAnswers : ReleaseCall(rec.rollback, answer)
      BY <2>2 DEF PersistRelease, LateInv, TypeOK, Record
    <3>2. QED
      BY <3>1, ReleaseMoves DEF LateRecord
  <2>3. QED
    BY <1>4, <2>1, <2>2
    DEF Shared, Finalize, FinalizeStale, FinalizeMissing, FinalizeBegin, FinalizeDone, EndJob
<1>5. ASSUME NEW k \in Attempts, AttemptNext(k)
      PROVE  UNCHANGED ledger
  BY <1>5
  DEF AttemptNext, Start, DeadlinePasses, GiveUpWaiting, Begin, Convert, Publish, HandleError,
      AttemptLockBusy, MarkJobFailed, StopDelivered, MarkJobStopped, RqFinish, SettleFailure,
      EnqueueRetry, EndJob
<1>6. ASSUME NEW c \in Clients, ClientNext(c), ~RefundByClient(c)
      PROVE  UNCHANGED ledger
  BY <1>6 DEF ClientNext, Settling, Get, Delete, MarkReleased, ClientLockBusy
<1>7. QED
  BY <1>1, <1>2, <1>3, <1>4, <1>5, <1>6 DEF Next, Crash, LockExpires, LoseFile, vars

-----------------------------------------------------------------------------
(* The theorems                                                            *)

\* The inductive invariant holds in every reachable state.
THEOREM Invariance == Spec => []IInv
<1>1. Init => IInv
  <2>1. Init => InTimeInv /\ ~late
    BY InTimeInit DEF Init
  <2>2. QED
    BY <2>1 DEF IInv, InTimeInv
<1>2. IInv /\ [Next]_vars => IInv'
  BY InvStep
<1>3. QED
  BY <1>1, <1>2, PTL DEF Spec

\* Nobody downloads a result the quota service has not counted, whatever
\* polls, sweeps, retries, crashes and lost or unreadable answers there are,
\* until a late report ends the job.
THEOREM DeliveredIsCounted == Spec => []DoneIsCounted
<1>1. IInv => DoneIsCounted
  BY DEF IInv, InTimeInv, PaidInv, DoneIsCounted
<1>2. QED
  BY <1>1, Invariance, PTL

\* A record marked billing_released tells the truth, although pollers write
\* it back without the lock, until a late report ends the job.
THEOREM ReleaseIsRecorded == Spec => []ReleasedIsReleased
<1>1. IInv => ReleasedIsReleased
  BY DEF IInv, InTimeInv, ReleasedInv, ReleasedIsReleased
<1>2. QED
  BY <1>1, Invariance, PTL

\* Two attempts of one job never convert at the same time, late reports or
\* not.
THEOREM AttemptsExclude == Spec => []OneAttemptConverts
<1>1. IInv => OneAttemptConverts
  <2>1. IInv /\ ~late => OneAttemptConverts
    BY ActorsFacts DEF IInv, InTimeInv, TypeOK, Record, AttemptInv, OneAttemptConverts
  <2>2. IInv /\ late => OneAttemptConverts
    BY ActorsFacts DEF IInv, LateInv, OneAttemptConverts
  <2>3. QED
    BY <2>1, <2>2
<1>2. QED
  BY <1>1, Invariance, PTL

\* No retry, callback or unlocked write of a poller revives an ended job,
\* except the retry of a job that a late report has ended.
THEOREM EndedStaysEnded == Spec => EndsAreFinal
<1>1. IInv /\ [Next]_vars => [rec.status \in Terminal => rec'.status = rec.status \/ late]_vars
  <2>1. IInv /\ [Next]_vars /\ ~late /\ ~late' => StatusStep
    BY StatusChanges DEF IInv
  <2>2. IInv /\ [Next]_vars /\ ~late /\ late' => rec.status \notin Terminal
    BY OnlyReportsAreLate DEF IInv, Overtaking
  <2>3. QED
    BY <2>1, <2>2 DEF StatusStep
<1>2. QED
  BY <1>1, Invariance, PTL DEF Spec, EndsAreFinal

\* An accepted cancellation is never undone by a retry, a publication or a
\* late report.
THEOREM CancelledStaysCancelled == Spec => CancelIsHonoured
<1>1. IInv /\ [Next]_vars =>
        [rec.status = "cancelling" => rec'.status \in {"cancelling", "cancelled", "failed"}]_vars
  <2>1. IInv /\ [Next]_vars /\ ~late /\ ~late' => StatusStep
    BY StatusChanges DEF IInv
  <2>2. IInv /\ [Next]_vars /\ ~late /\ late' => rec'.status \in {"cancelled", "failed"}
    BY OnlyReportsAreLate DEF IInv, Overtaking, EndJob, Cancelled, Failed, TypeOK, Record
  <2>3. IInv /\ late => rec.status # "cancelling"
    BY DEF IInv, LateInv, LateRecord, Terminal, Unsuccessful
  <2>4. QED
    BY <2>1, <2>2, <2>3 DEF StatusStep
<1>2. QED
  BY <1>1, Invariance, PTL DEF Spec, CancelIsHonoured

\* A counted usage is only taken back for an output that is gone, by a poll,
\* by the worker or after a late report.
THEOREM CountedStaysCounted == Spec => CountedIsGivenBackOnlyIfLost
<1>1. IInv /\ [Next]_vars => [ledger = "counted" /\ ledger' # "counted" => ~file]_vars
  <2>1. IInv /\ [Next]_vars /\ ~late => UsageStep
    BY UsageChanges DEF IInv
  <2>2. IInv /\ [Next]_vars /\ late => (ledger = "counted" /\ ledger' # "counted" => ~file)
    BY LateUsage DEF IInv
  <2>3. QED
    BY <2>1, <2>2 DEF UsageStep
<1>2. QED
  BY <1>1, Invariance, PTL DEF Spec, CountedIsGivenBackOnlyIfLost

\* A billed job implements BilledDelivery until a late report ends it: the
\* result becomes visible once, only when it is paid for, and what is given
\* back is never delivered.
THEOREM DeliversAsPromised ==
    ASSUME Billable
    PROVE  Spec => Implements
<1>1. Init => BilledDelivery!Init
  BY DEF Init, BilledDelivery!Init, NoRecord
<1>2. IInv /\ IInv' /\ [Next]_vars => [BilledDelivery!Next \/ late']_(BilledDelivery!vars)
  <2> SUFFICES ASSUME IInv, IInv', [Next]_vars, ~late'
               PROVE  [BilledDelivery!Next]_(BilledDelivery!vars)
    OBVIOUS
  <2>0. ~late /\ InTimeInv /\ InTimeInv'
    BY LateStays DEF IInv, TypeOK
  <2>1. UsageStep /\ StatusStep
    BY <2>0, UsageChanges, StatusChanges
  <2>2. /\ ledger \in Ledger /\ ledger' \in Ledger
        /\ rec.status = "done" => ledger = "counted"
        /\ rec'.status = "done" => ledger' = "counted"
    BY <2>0 DEF InTimeInv, TypeOK, PaidInv, Billable, Ledger
  <2>3. CASE rec.status = "done"
    BY <2>1, <2>2, <2>3 DEF StatusStep, Terminal, BilledDelivery!vars
  <2>4. CASE rec.status # "done" /\ rec'.status = "done"
    BY <2>1, <2>2, <2>4 DEF UsageStep, BilledDelivery!Next, BilledDelivery!Deliver
  <2>5. CASE rec.status # "done" /\ rec'.status # "done"
    BY <2>1, <2>2, <2>5
    DEF UsageStep, Ledger, BilledDelivery!vars, BilledDelivery!Next, BilledDelivery!Hold,
        BilledDelivery!Count, BilledDelivery!GiveBack
  <2>6. QED
    BY <2>3, <2>4, <2>5
<1>3. QED
  BY <1>1, <1>2, Invariance, PTL DEF Spec, Implements

=============================================================================
