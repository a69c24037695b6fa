---------------------------- MODULE JobAdmission ----------------------------
(***************************************************************************)
(* How a POST becomes a conversion job: submit_job of app/job_queue.py and *)
(* the request handlers that call it.  Several POSTs of one user, repeated *)
(* ones among them, go through the submit lock one at a time; the workers, *)
(* cancellations and the expiry of records do not wait for that lock.      *)
(*                                                                         *)
(* A step is one exchange with Redis, except that reads whose subject only *)
(* the holder of the lock changes are one step with what they decide.      *)
(* The life of an admitted job is the subject of ConversionJob; here it    *)
(* is working until it ends one way or the other.                          *)
(***************************************************************************)
EXTENDS Naturals, Sequences, FiniteSets, FiniteSetsExt, SequencesExt

CONSTANTS
    Posts,            \* submissions; each creates at most one job, named like it
    NoPost,
    Users,
    Requests,         \* billing request ids
    NoRequest,        \* previews are not billed
    Conversions,      \* file, options and type of a billed submission
    Previews,         \* the same for previews
    UserMaxActive,    \* PLT_USER_MAX_ACTIVE_JOBS
    QueueMaxPending,  \* PLT_QUEUE_MAX_PENDING
    Workers,          \* attempts that run at the same time
    MaxFaults         \* bound: web processes killed, Redis calls that raise

Contents == Conversions \cup Previews

ASSUME AdmissionAssumption ==
    /\ IsFiniteSet(Posts) /\ NoPost \notin Posts
    /\ NoRequest \notin Requests
    /\ Conversions \cap Previews = {}   \* the job type is part of the content
    /\ {UserMaxActive, QueueMaxPending, Workers} \subseteq Nat \ {0}
    /\ MaxFaults \in Nat

VARIABLES
    want,       \* what each POST asks for
    stage,      \* where each POST is
    counted,    \* the queue length a POST has read
    answer,     \* the job a POST was answered with
    holder,     \* the submit lock
    jobs,       \* the records: their state and whether the result is on disk
    byRequest,  \* index: user and request id -> job
    byContent,  \* index: user and content -> job
    userJobs,   \* the jobs counted for a user
    queue,      \* attempts in the RQ queue
    taken,      \* attempts a worker has popped and not yet registered
    started,    \* StartedJobRegistry
    retried,    \* jobs that had their second attempt
    faults

submissionVars == <<want, stage, counted, answer, holder, faults>>
recordVars == <<jobs, byRequest, byContent, userJobs>>
workerVars == <<queue, taken, started, retried>>
admissionVars == <<submissionVars, recordVars, workerVars>>

-----------------------------------------------------------------------------
Wishes ==
    [user : Users, request : Requests, content : Conversions] \cup
    [user : Users, request : {NoRequest}, content : Previews]

NoRecord == [state |-> "none", result |-> FALSE]
Working(j) == jobs[j].state = "working"

\* completed_result_available: the record says done and the files are there.
Available(j) == jobs[j].state = "done" /\ jobs[j].result

\* Attempts the queue holds or a worker has.
Pending == ToSet(queue) \cup taken \cup started

Billed(p) == want[p].request # NoRequest
RequestKey(p) == <<want[p].user, want[p].request>>
ContentKey(p) == <<want[p].user, want[p].content>>

AtStage(p, place) == stage[p] = place
GoOn(p, place) == stage' = [stage EXCEPT ![p] = place]

\* Every way out of the locked region passes the release.
Leave(p, j) ==
    /\ answer' = [answer EXCEPT ![p] = j]
    /\ GoOn(p, "release")

-----------------------------------------------------------------------------
(* A POST                                                                  *)

Acquire(p) ==
    /\ AtStage(p, "arrive")
    /\ holder = NoPost
    /\ holder' = p
    /\ GoOn(p, "request")
    /\ UNCHANGED <<want, counted, answer, faults, recordVars, workerVars>>

\* Five seconds without the lock: refused.
GiveUp(p) ==
    /\ AtStage(p, "arrive")
    /\ holder # NoPost
    /\ GoOn(p, "gone")
    /\ UNCHANGED <<want, counted, answer, holder, faults, recordVars, workerVars>>

\* Seeded bug: a job that has not ended yet does not count as a repetition.
Repeats_Done(j) == Available(j)

Repeats(j) == Working(j) \/ Available(j)

\* Seeded bug: the input of the earlier job is not compared.
SameWork_Any(p, j) == TRUE

\* matches_billing_submission: the fingerprint of the earlier job.
SameWork(p, j) == want[j].content = want[p].content

\* The request id is looked up first: the same job again, a conflict, or an
\* index that points at a job that has ended for good and is dropped.
LookUpRequest(p) ==
    LET j == byRequest[RequestKey(p)]
        repeated == Billed(p) /\ j # NoPost /\ Repeats(j)
    IN  /\ AtStage(p, "request")
        /\ IF repeated
           THEN Leave(p, IF SameWork(p, j) THEN j ELSE NoPost) /\ UNCHANGED byRequest
           ELSE /\ byRequest' = IF Billed(p) THEN [byRequest EXCEPT ![RequestKey(p)] = NoPost]
                                ELSE byRequest
                /\ GoOn(p, "content")
                /\ UNCHANGED answer
        /\ UNCHANGED <<want, counted, holder, faults, jobs, byContent, userJobs, workerVars>>

\* Then the content: only a job of the same request counts.
LookUpContent(p) ==
    LET j == byContent[ContentKey(p)]
        same == ~Billed(p) \/ (j # NoPost /\ want[j].request = want[p].request)
        repeated == j # NoPost /\ same /\ Repeats(j)
    IN  /\ AtStage(p, "content")
        /\ IF repeated
           THEN /\ byRequest' = IF Billed(p) THEN [byRequest EXCEPT ![RequestKey(p)] = j]
                                ELSE byRequest
                /\ Leave(p, j)
           ELSE GoOn(p, "quota") /\ UNCHANGED <<byRequest, answer>>
        /\ UNCHANGED <<want, counted, holder, faults, jobs, byContent, userJobs, workerVars>>

MayAdd(u) == Cardinality({j \in userJobs[u] : Working(j)}) < UserMaxActive

\* enforce_rate_limit may refuse at any time (its one-minute windows are not
\* modelled); enforce_user_capacity drops the jobs that have ended.
CheckUser(p) ==
    LET u == want[p].user
    IN  /\ AtStage(p, "quota")
        /\ \/ Leave(p, NoPost) /\ UNCHANGED userJobs
           \/ /\ userJobs' = [userJobs EXCEPT ![u] = {j \in @ : Working(j)}]
              /\ IF MayAdd(u) THEN GoOn(p, "backlog") /\ UNCHANGED answer ELSE Leave(p, NoPost)
        /\ UNCHANGED <<want, counted, holder, faults, jobs, byRequest, byContent, workerVars>>

\* queue_load reads the two counts one after the other.
CountQueued(p) ==
    /\ AtStage(p, "backlog")
    /\ counted' = [counted EXCEPT ![p] = Len(queue)]
    /\ GoOn(p, "room")
    /\ UNCHANGED <<want, answer, holder, faults, recordVars, workerVars>>

\* Seeded bug: one too many.
HasRoom_OneMore(p) == counted[p] + Cardinality(started) <= QueueMaxPending

HasRoom(p) == counted[p] + Cardinality(started) < QueueMaxPending

CheckRoom(p) ==
    /\ AtStage(p, "room")
    /\ IF HasRoom(p) THEN GoOn(p, "save") /\ UNCHANGED answer ELSE Leave(p, NoPost)
    /\ UNCHANGED <<want, counted, holder, faults, recordVars, workerVars>>

SaveRecord(p) ==
    /\ AtStage(p, "save")
    /\ jobs' = [jobs EXCEPT ![p] = [state |-> "working", result |-> FALSE]]
    /\ GoOn(p, "index")
    /\ UNCHANGED <<want, counted, answer, holder, faults,
                   byRequest, byContent, userJobs, workerVars>>

IndexContent(p) ==
    /\ AtStage(p, "index")
    /\ byContent' = [byContent EXCEPT ![ContentKey(p)] = p]
    /\ GoOn(p, "join")
    /\ UNCHANGED <<want, counted, answer, holder, faults,
                   jobs, byRequest, userJobs, workerVars>>

JoinUser(p) ==
    /\ AtStage(p, "join")
    /\ userJobs' = [userJobs EXCEPT ![want[p].user] = @ \cup {p}]
    /\ GoOn(p, "enqueue")
    /\ UNCHANGED <<want, counted, answer, holder, faults,
                   jobs, byRequest, byContent, workerVars>>

Enqueue(p) ==
    /\ AtStage(p, "enqueue")
    /\ queue' = Append(queue, p)
    /\ GoOn(p, "indexrequest")
    /\ UNCHANGED <<want, counted, answer, holder, faults, recordVars,
                   taken, started, retried>>

\* The index of the request id comes last.
IndexRequest(p) ==
    /\ AtStage(p, "indexrequest")
    /\ byRequest' = IF Billed(p) THEN [byRequest EXCEPT ![RequestKey(p)] = p] ELSE byRequest
    /\ Leave(p, p)
    /\ UNCHANGED <<want, counted, holder, faults, jobs, byContent, userJobs, workerVars>>

\* Seeded bug: the record is left as it is.
Abandon_Record(p) == UNCHANGED <<jobs, userJobs>>

Abandon(p) ==
    /\ jobs' = [jobs EXCEPT ![p] = [state |-> "failed", result |-> FALSE]]
    /\ userJobs' = [userJobs EXCEPT ![want[p].user] = @ \ {p}]

\* enqueue_call or the index write raises: the record fails, although in the
\* second case its attempt is in the queue.
EnqueueRaises(p) ==
    /\ stage[p] \in {"enqueue", "indexrequest"}
    /\ faults < MaxFaults
    /\ faults' = faults + 1
    /\ Abandon(p)
    /\ Leave(p, NoPost)
    /\ UNCHANGED <<want, counted, holder, byRequest, byContent, workerVars>>

Release(p) ==
    /\ AtStage(p, "release")
    /\ holder' = NoPost
    /\ GoOn(p, "gone")
    /\ UNCHANGED <<want, counted, answer, faults, recordVars, workerVars>>

\* The web process dies; the lock runs out fifteen seconds after it was taken,
\* longer than a holder that lives needs it.
Kill(p) ==
    /\ holder = p
    /\ stage[p] # "killed"
    /\ faults < MaxFaults
    /\ faults' = faults + 1
    /\ GoOn(p, "killed")
    /\ UNCHANGED <<want, counted, answer, holder, recordVars, workerVars>>

\* Seeded bug: the lock runs out under a holder that waits for Redis.
LockExpires_Early ==
    /\ holder # NoPost
    /\ holder' = NoPost
    /\ UNCHANGED <<want, stage, counted, answer, faults, recordVars, workerVars>>

LockExpires ==
    /\ \E p \in Posts : holder = p /\ AtStage(p, "killed")
    /\ holder' = NoPost
    /\ UNCHANGED <<want, stage, counted, answer, faults, recordVars, workerVars>>

Submit(p) ==
    \/ Acquire(p) \/ GiveUp(p) \/ LookUpRequest(p) \/ LookUpContent(p) \/ CheckUser(p)
    \/ CountQueued(p) \/ CheckRoom(p) \/ SaveRecord(p) \/ IndexContent(p) \/ JoinUser(p)
    \/ Enqueue(p) \/ IndexRequest(p) \/ EnqueueRaises(p) \/ Release(p) \/ Kill(p)

-----------------------------------------------------------------------------
(* Workers, cancellations, expiry                                          *)

Take ==
    /\ queue # <<>>
    /\ Cardinality(taken \cup started) < Workers
    /\ taken' = taken \cup {Head(queue)}
    /\ queue' = Tail(queue)
    /\ UNCHANGED <<submissionVars, recordVars, started, retried>>

Register(j) ==
    /\ j \in taken
    /\ taken' = taken \ {j}
    /\ started' = started \cup {j}
    /\ UNCHANGED <<submissionVars, recordVars, queue, retried>>

\* The end of an attempt; a record that has ended meanwhile is left alone.
EndAttempt(j, state) ==
    /\ j \in started
    /\ started' = started \ {j}
    /\ IF Working(j)
       THEN /\ jobs' = [jobs EXCEPT ![j] = [state |-> state, result |-> state = "done"]]
            /\ userJobs' = [userJobs EXCEPT ![want[j].user] = @ \ {j}]
       ELSE UNCHANGED <<jobs, userJobs>>
    /\ UNCHANGED <<submissionVars, byRequest, byContent, queue, taken, retried>>

\* A second attempt is queued without asking for room.
Retry(j) ==
    /\ j \in started \ retried
    /\ Working(j)
    /\ started' = started \ {j}
    /\ queue' = Append(queue, j)
    /\ retried' = retried \cup {j}
    /\ UNCHANGED <<submissionVars, recordVars, taken>>

\* A client cancels a job it was told of, before the job has started.
Cancel(j) ==
    /\ Working(j) /\ j \notin started
    /\ \E p \in Posts : AtStage(p, "gone") /\ answer[p] = j
    /\ \/ j \notin ToSet(queue) /\ UNCHANGED queue
       \/ \E i \in DOMAIN queue : queue[i] = j /\ queue' = RemoveAt(queue, i)
    /\ jobs' = [jobs EXCEPT ![j] = [state |-> "failed", result |-> FALSE]]
    /\ userJobs' = [userJobs EXCEPT ![want[j].user] = @ \ {j}]
    /\ UNCHANGED <<submissionVars, byRequest, byContent, taken, started, retried>>

\* The record of an ended job expires before the indexes that name it.
ExpireRecord(j) ==
    /\ jobs[j].state \in {"done", "failed"}
    /\ jobs' = [jobs EXCEPT ![j] = NoRecord]
    /\ UNCHANGED <<submissionVars, byRequest, byContent, userJobs, workerVars>>

LoseResult(j) ==
    /\ Available(j)
    /\ jobs' = [jobs EXCEPT ![j].result = FALSE]
    /\ UNCHANGED <<submissionVars, byRequest, byContent, userJobs, workerVars>>

AdmissionInit ==
    /\ want \in [Posts -> Wishes]
    /\ stage = [p \in Posts |-> "arrive"]
    /\ counted = [p \in Posts |-> 0]
    /\ answer = [p \in Posts |-> NoPost]
    /\ holder = NoPost
    /\ jobs = [p \in Posts |-> NoRecord]
    /\ byRequest = [k \in Users \X (Requests \cup {NoRequest}) |-> NoPost]
    /\ byContent = [k \in Users \X Contents |-> NoPost]
    /\ userJobs = [u \in Users |-> {}]
    /\ queue = <<>> /\ taken = {} /\ started = {} /\ retried = {}
    /\ faults = 0

AdmissionNext ==
    \/ \E p \in Posts : Submit(p)
    \/ LockExpires
    \/ Take
    \/ \E j \in Posts :
          \/ Register(j)
          \/ \E state \in {"done", "failed"} : EndAttempt(j, state)
          \/ Retry(j) \/ Cancel(j) \/ ExpireRecord(j) \/ LoseResult(j)

AdmissionSpec == AdmissionInit /\ [][AdmissionNext]_admissionVars

-----------------------------------------------------------------------------
(* Properties                                                              *)

Places == {"arrive", "request", "content", "quota", "backlog", "room", "save", "index",
           "join", "enqueue", "indexrequest", "release", "gone", "killed"}

\* The shape of the state; only the holder of the lock is in the locked
\* region, and a POST that waits or is gone holds nothing.
AdmissionTypeOK ==
    /\ want \in [Posts -> Wishes]
    /\ stage \in [Posts -> Places]
    /\ counted \in [Posts -> 0..Cardinality(Posts)]
    /\ answer \in [Posts -> Posts \cup {NoPost}]
    /\ holder \in Posts \cup {NoPost}
    /\ jobs \in [Posts -> [state : {"none", "working", "done", "failed"}, result : BOOLEAN]]
    /\ DOMAIN byRequest = Users \X (Requests \cup {NoRequest})
    /\ DOMAIN byContent = Users \X Contents
    /\ userJobs \in [Users -> SUBSET Posts]
    /\ ToSet(queue) \subseteq Posts /\ taken \cup started \cup retried \subseteq Posts
    /\ \A p \in Posts : stage[p] \notin {"arrive", "gone", "killed"} => holder = p

\* One request id is worked on once, unless the process that made one of the
\* two jobs was killed before it wrote the index.  The index of the content
\* does not help then: another request with the same file overwrites it.
OneAttemptPerRequest ==
    \A i, j \in Pending : i # j /\ Working(i) /\ Working(j) /\ Billed(i)
                                /\ RequestKey(i) = RequestKey(j) =>
        AtStage(i, "killed") \/ AtStage(j, "killed")

\* However submissions interleave with cancellations, retries and expiries, a
\* user has no more working jobs than allowed, not counting a record whose
\* maker was killed before it was counted, and what waits and runs exceeds
\* the capacity of the queue by no more than the workers may have popped and
\* not yet registered: neither of the two counts has that.
WithinCapacity ==
    /\ \A u \in Users :
          Cardinality({j \in Posts : /\ Working(j) /\ want[j].user = u
                                     /\ j \in userJobs[u] \/ ~AtStage(j, "killed")}) <= UserMaxActive
    /\ Cardinality(Pending) <= QueueMaxPending + Workers

\* A job somebody was answered with is going to be worked on, unless its
\* maker was killed in between: then it only waits for its record to expire.
AnsweredIsCarriedOut ==
    \A p \in Posts : LET j == answer[p] IN
        AtStage(p, "gone") /\ j # NoPost /\ Working(j) => j \in Pending \/ AtStage(j, "killed")

\* A POST is answered with a job that was asked for in exactly its words.
AnswersAgree == \A p \in Posts : answer[p] # NoPost => want[answer[p]] = want[p]

=============================================================================
