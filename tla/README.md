# A verification project for plt-converter

TLA+ models of the job queues and ledgers of plt-converter, of its PLT parser and of
its search for page layouts, checked with TLC on small instances, and proofs of their main safety properties checked with TLAPS.
Paths are relative to the repository; `PROJECT.json` maps every definition of a
module to the lines it stands for.

## 1. The system

The repository holds three services that share a code base and little else.

| component | state | operations | modules |
|---|---|---|---|
| conversion job lifecycle (`app/tasks.py`, `app/job_queue.py`, `app/routes.py`, `app/billing.py`, `worker.py`) | one Redis record per job, a Redis lock per job, the result file, the usage kept by a remote quota service | POST (authorise, submit, commit, confirm, roll back), RQ attempts with one retry, RQ callbacks, GET and DELETE, the worker's sweep | `ConversionJob`, `BilledDelivery` |
| job admission (`job_queue.submit_job`) | indexes by request, by content and by user, the queue, the submit lock | deduplication, user capacity, queue capacity, record, enqueue | `JobAdmission` |
| preview suggestions (`enqueue_pdf_layout_suggestion`, `tasks.py`) | a suggestion record per preview, its numbered attempts | change of the selection, enqueue, execute, finish, callbacks | `LayoutSuggestion`, `FreshAnswer` |
| projection documents and leases (`projection_store.py`, `projection.py`) | an SQLite ledger of reservations, leases and sessions, files on disk | reserve, parse, complete, delete, expire, release, reconcile | `ProjectionLedger`, `LatestDocument` |
| projection layout analysis (`projection_layout.py`) | the analysis in a session's metadata, an RQ queue, leases, a submission lock | ask, poll, run, answer; layouts applied meanwhile | `ProjectionAnalysis`, `FreshAnswer` |
| projection scenes (`projection_scene_store.py`) | bundles on disk with a byte ledger | begin, publish, fail, open, close, expire, reconcile | `ProjectionScenes` |
| projection runtime (`projection_runtime.py`, `projection_child.py`) | supervised child processes | claim, launch, watch, terminate; the work itself is geometry | `ProjectionLedger` |
| identity checks (`projection.identify_user`) | shared flights of equal bearers, at most two | join, lead, fail | left out |
| pattern layout service (`pattern_layout_app.py`) | one folder per task, a queue in memory, one supervisor thread, one task process | upload, DELETE, acknowledgement, expiry, supervision, restart | `PatternQueue`, `FifoTasks` |
| PLT parser (`services/plt_parser.py`) | the variables of `parse_plt` | one per HPGL command | `PltParser` |
| layout optimiser and layouts (`services/pdf_layout_optimizer.py`, `projection_layout.build_layout`, `projection_numbered_layout.py`) | none: functions from pages to a layout | seam search, printed numbers, placement | `SeamLayout`, `PageLayout` |
| PDF conversion and rendering, pattern recognition (the rest of `app/services/`) | none | pure functions, floating-point geometry | left out |
| application factories, proxy and stream helpers, scripts, compose files | none of their own | | left out |

How the parts interact. A customer's request goes through an HTTP handler, which
calls the quota service and writes a Redis record; RQ runs the attempts in
worker processes, which call the quota service again; polling requests and the
worker's sweep repair what a killed process or a lost answer left behind. The
projection service keeps its own SQLite ledger and runs PDF work in supervised
children. The pattern service keeps everything in folders and rebuilds its queue
from them when it starts.

What is hard in each of them is listed, line by line, under `hazards` in
`PROJECT.json`. In one sentence each:

* conversion: three parties settle one usage (the POST handler, the worker and a
  poller), some under the job lock and some not, every call may take effect and
  lose its answer, and a killed process keeps the lock for thirty seconds;
* admission: two indexes, a set and a queue are written one after the other under
  a lock, and workers change two of the four without it;
* suggestions and analyses: an old attempt may answer after a newer one was
  queued, and what is published before it is queued may never be;
* projection: an upload replaces a document whose leases are in use, children
  are killed while they hold leases, and updates are compare-and-swap;
* scenes: a bundle outlives its document while somebody downloads it, and a
  reservation of bytes becomes a charge or goes;
* parser and layouts: many small steps whose order matters, and three ways to
  number the same pages;
* pattern layout: `job.json` is written by the handlers, by the supervisor and by
  the task process in turns, a few looks are taken outside the lock, and the
  disk budget is charged differently before and after a task.

## 2. Modules and their correspondence to the code

### ConversionJob

One job of one request id. `rec` is the Redis record
(`plt-converter:job:<id>`) reduced to the fields the control depends on;
`lock` the per-job lock; `ledger` the usage in the quota service (external: it is
modelled from how `billing.py` uses it); `file` the result file; `pc` where every
HTTP request (`Posts`, `Clients`), RQ attempt (`0..MaxRetries`) and the sweep are;
`seen` the record a poller read without the lock; `stop` the stop commands on
their way.

Steps are cut where the code can be interrupted: at every call to the quota
service and at every section under the job lock. A section that does not call the
quota service is one step. `_settle_terminal_conversion_billing` reads the record,
calls the service and writes the whole record without the lock; it is three steps
(`Get`/`Delete`, `RefundByClient`, `MarkReleased`). A call is answered; refused or lost,
before or after it took effect; or answered with a body that cannot be read, for which
`json.loads` raises `ValueError`. `finalize_ready_conversion_job` takes that
for a refusal and fails the job without a rollback, so a usage that was counted stays
counted; a POST and a poller end with status 500.

`MaxRetries == 1` is the code's default and its README's. RQ is external: it runs
an attempt once, calls `on_failure` when it raised or was found abandoned, and
`on_stopped` after a stop command. It may also report an attempt abandoned that was
killed behind `enqueue_retry`. `mark_job_failed` does not compare the attempt with
`rq_job_id`: it fails the job under its retry, and when the retry publishes, the failed
job becomes `finalizing`. The history variable `late` says that this has happened. It
guards nothing; the properties it breaks (`DoneIsCounted`, `ReleasedIsReleased`,
`EndsAreFinal`, `Implements`) say so, the others (`OneAttemptConverts`,
`CancelIsHonoured`, `CountedIsGivenBackOnlyIfLost`) hold all the same.

`BilledDelivery` is what a customer is promised: a usage is held, counted before
the result is visible, or given back. `ConversionJob!Implements` is the refinement.

### PatternQueue

`meta`, `size`, `cancel`, `discard` are `job.json`, the bytes and the two marker
files of every folder; `expired` the folders older than the retention; `future`
and `pending` the two structures the process keeps in memory; `sup` the thread
of `_work_loop`; `child` the task process; `del` the DELETE requests in progress.

What is under `DiskQueue.lock` is one step. What is outside it is a step of its
own: the check and the discard marker of DELETE (`Delete`), the look at the marker
in the `finally` block (`Finally`), and every write of the task process. The task
process is killed with the supervisor (`PR_SET_PDEATHSIG`, checked on Linux, the
only platform the compose file runs on), so `worker-cpu.lock` is never waited for
and is left out. `shutil.rmtree` is one step. Time is not counted: the wall time
of a task may pass whenever it runs, and a folder may be older than the retention
once it has ended, except that 24 hours do not pass while the supervisor is in
the last few steps of that very task.

What a task writes is counted byte by byte (`Grow`). A pattern that a browser has
recognised (`Browser`) is verified and written twice: `write_resources` leaves a full
result, then the audit and the archive are written anew under a budget that counts
neither of the old ones (`pattern_layout_app.py:116`). The old archive is on disk until
`write_archive` opens the new one; `child.old` is what it takes (`Rewrite`,
`Replace`). So the folder may hold one archive more than `submit` reserved, and keeps it
if the task is killed in between. An export is written at the end, to `result.tmp`,
which stays when the write fails.

`FifoTasks` is the abstract queue: tasks begin in the order of acceptance, one at
a time, none is lost or begun twice. `PatternQueue!KeepsOrder` is the refinement;
a restart maps to one step that ends the running task and forgets expired ones.

### ProjectionLedger

`docs`, `lease` and `created` are the tables of `state.sqlite3`: the session an
upload created, the lease of every request, and the order of reservations of an
account. `source` is the folder `documents/`, `child` the supervised processes,
`pc` where the requests are, and `drop` the idle leases that a request which
retired a document has still to release. A transaction is one step (SQLite admits
one writer); between two transactions of a request anything may happen.

`Settle` is `_expire`: a deleted session goes with its file when no lease names
it. `lease[u].stale` is `generation = -1`. `lease[t].pid` is `"claimed"` for -1, the
mark of a launch whose pid is not recorded yet; then only the supervisor or, after
its death, `reconcile` may clear it, and `reconcile` asks `child.json`, which the
child writes before it works. All requests are threads of one gunicorn worker
(`compose.projector.yaml`), so `Crash` ends all that are in progress, leaves the
children, and may leave a file that was moved but not committed.

Left open rather than computed: the byte budgets, the disk floor and the rates are
a refusal at any time (`ReserveRejected`, `BodyRejected`, the second disjunct of
`Complete`); the hour of a session may end at any time (`Expire`); a child may end
or be stopped at any time (`Watch`). Reservations are ordered as they happen: a
wall clock that is set back is not modelled. `reconcile` decides and releases in
one step: what it decides on, a dead supervisor and a dead child, does not change.

`LatestDocument` is the promise: an account has one document at most, and only the
upload that was initiated last may become it.

### JobAdmission

`submit_job` for several POSTs of several users: `want` is what each asks for,
`stage` where it is, `holder` the submit lock, `byRequest`, `byContent` and
`userJobs` the indexes, `queue`, `taken` and `started` where attempts are: in the RQ
list, popped by a worker and not yet registered, in StartedJobRegistry. Every
Redis command that others can get in between is a step: the two counts of
`queue_load`, the record, the index of the content, the user's set, the enqueue,
the index of the request. `EnqueueRaises` is the handler that fails the record,
`Kill` the death of the web process, after which the lock runs out.

Assumed: a holder that lives finishes within the fifteen seconds of the lock
(`LockExpires` waits for the kill; `LockExpires_Early` is the bug this excludes).
The rate limit is a refusal at any time. The type of a job is part of the
content, so a billed and an unbilled submission never have the same
(`AdmissionAssumption`). The index of the content holds one job: another request
with the same file overwrites it. Hence the exception in `OneAttemptPerRequest`:
a process killed between the enqueue and the index of the request leaves a job
that a repetition may not find, by either index. Source uploads of previews
(`acquire_user_job_slot`) are left out.

### LayoutSuggestion and ProjectionAnalysis

Two background analyses with the same promise, `FreshAnswer`: the answer on
record belongs to the question on record. They keep it in different ways.

`LayoutSuggestion` numbers its attempts. `selection`, `attempt`, `status` and
`suggestion` are the fields of the preview's record, `entering` the attempt a GET
has published and not yet queued, `waiting`, `working` and `reports` the RQ queue,
the attempts at work, and the failure callbacks to come. A section under the job
lock is one step, except around the enqueue, before or after which the web process
can be killed (`WebProcessDies`). A killed process may leave the lock to its timeout
(`orphan`). Until then requests are refused, an attempt fails (`StartFails`,
`FinishBusy`) and a failure callback gives up (`ReportBusy`): nobody will report on
that attempt any more (`lost`), and the preview stays as it is.

`ProjectionAnalysis` compares and swaps. `analysis` and `generation` are the
metadata and the row of the session; `request[r].seen` the version a request has
read, which `replace_analysis` compares; `lease`, `job` and `run` the lease, the RQ
job and its worker; `holder` the submission lock, which may run out under a slow
holder (`SubmitLockExpires`). A poller that finds no RQ job fails the analysis
(`Settle`), also one that is just being submitted. Leases of other accounts show
only as refusals; an account has one document (`LatestDocument`), so only that one
is modelled.

### ProjectionScenes

`store` is the ledger's view of one document: its state and generation, the
`bundle` of every key (generation and view), the files, the leases and the bytes
charged. `at` and `wants` say where a POST scene or a download is. `Swept` is
`expire_scenes` followed by `_expire`, with which most transactions begin or
end. The supervision of the child is abstracted to its start and its end. The
work of the child (`projection_scene.py`) is rendering: its result is any number
of bytes up to `MaxBundle`.

### PltParser

One action per HPGL command read, plus the cap on commands and the end of the
file. `parser` holds the variables of `parse_plt`; `plotter` is the reference, a
machine that draws every segment at once with the pen, width and line type of
the moment. A command has its parsed arguments; the chords of an arc are given
by their end points. The files are parsed in three ways (`reading`), which differ
in what they reject and in what a pen 0 draws.

### PageLayout and SeamLayout

`PageLayout` is `build_layout`: slots, cells by rows or by columns, visible sizes
and the place of every page. `SeamLayout` is the analysis that proposes the
arrangement. Its input is made backwards: a sheet is cut into tiles, and the
crossings at every edge, at every margin tried, are what the program is given.
`ReadEdges` computes the crossings and scores, `Analyse` searches,
`ApplySuggestion` and `ApplyManual` build the layout.

Scores are integers in units of 1/`Unit`, and ten-thousandths where the code
rounds to four decimals. A beam at its limit keeps all arrangements that are as
good as the last one kept, where the code keeps those it has met first; with one
blank (`MaxBlank = 1` in the runs) the limit is not reached and the choice among
equals (`First`) is exactly the code's. Tracing the crossings from vectors or
pixels, and reading the printed numbers, are left out: numbers are given.

### MC modules

They add values, symmetry sets and, for `ProjectionLedger`, the accounts of the
uploads. `MCBackgroundJobs` and `MCSubmissions` put several components that share
no state beside each other: the variable `lane` says which of them a behaviour is
about, the others rest in their initial state. The checks are those of each
component by itself. Symmetry is used in the runs without liveness; where it
cannot be, `FirstQuestion` fixes what the first asker asks.

## 3. Runs

| run | instance | what it shows |
|---|---|---|
| `conversion_safety` | two POSTs, two clients, one kill, one faulty call, late failure reports, a job that is billed | the type invariant; `DoneIsCounted`, `ReleasedIsReleased`, `OneAttemptConverts`; `EndsAreFinal`, `CancelIsHonoured`, `CountedIsGivenBackOnlyIfLost`; `Implements` |
| `background_jobs` | a conversion (one POST, one client, one kill, one faulty call); a preview (two selections, five attempts, two kills); a projected document (two askers, a poller, a layout, one mishap) | a job that is finalizing is settled, a confirmed one not left pending, a refund arrives if somebody polls; the status of a preview tells the truth and one analysis of a document works; both analyses implement `FreshAnswer` and come to an end |
| `submissions` | three POSTs of one user, two requests, one kill or error; two makers and a reader of scene bundles; files of four commands; sheets of two rows of three, one cell empty or none | one attempt per request, the capacities, no lost job, no foreign answer; bundles, files and charges agree; the shapes are what a plotter draws; a reliable layout is the sheet, and what is placed does not overlap |
| `confirmation_race` | one POST, nothing fails | **violation**: a job is queued without an attempt |
| `rollback_of_ready` | two POSTs, two faulty calls | **violation**: the rollback of a POST releases the usage of a result that is being finalized |
| `pattern_safety` | three uploads of a browser's pattern or an export, space for two, one kill | the disk budget, each folder counted up to what was reserved for it, and whose folder may hold more; a result stands; tasks run in order |
| `pattern_live` | two uploads, DELETE requests, one kill | no waiting task is forgotten, tasks end while the supervisor lives, what is discarded goes |
| `projection_uploads` | four uploads of one account, one of another, one parser, DELETE and expiry at any moment | the last initiated upload wins (refinement of `LatestDocument`); the parser pool and the limit on unwinding uploads hold |
| `projection_readers` | two uploads, two tiles, one renderer, DELETE and expiry, one kill | the type invariant; no child works without its lease or on an erased file; slots come back; a deleted document is erased |
| `supervisor_dies` | as above without a kill | **violation**: the supervisor thread ends on a folder that a DELETE removed |
| `unacked_removed` | as above | **violation**: an unacknowledged archive is removed without discard |
| `blank_shift` | seven tiles of a sheet of two rows of four | **violation**: a layout is called reliable although a blank in another cell of the same grid matches as well |

Bounds. `MaxCrashes` and `MaxFaults` bound the kills and the faulty calls of a
behaviour, so that the hazards of one kill or one fault (and their combinations
with every interleaving of the others) are reached; a second one adds nothing
that the proofs do not cover. Two POSTs and two clients are enough for a
duplicate and for two pollers to meet in the unlocked section. In the pattern
runs three tasks are needed twice: the order of two waiting ones has to survive
a restart while a third one runs or has ended, and the third upload is the one
whose admission depends on what the others are charged. One byte of source, of
result and of slack tell the charges apart, and let the archive of a browser's task
lie beside a full result. `pattern_live` sets the result to no
bytes because no property of it is about space.

In `projection_uploads` the limit of two documents is the one of
`.env.projector.policy.example`; two uploads that unwind, the newest one and one
more to be refused make four. `projection_readers` has the smallest instance in
which a document is replaced while one tile reads it and another one has not
claimed its lease yet.

In `background_jobs`, two questions and two askers are the smallest instance in
which an answer can be late, and a poller and a layout are the two others that
change the metadata in between; five attempt numbers allow a selection to be
changed, changed back and retried. In `submissions`, three POSTs are two that
repeat each other and one that overwrites the index they meet in; a queue of one
and one worker make every count a limit. Two makers and a reader are a leader, a
waiter and a download; three units for bundles of at most two make room for one
and a half. Four commands suffice to set a pen, draw, change something and draw
again. It has 1.6 million distinct states and takes most of the time of all runs.

`CHECK_DEADLOCK FALSE`: a job ends and its requests are answered; folder names
are used up. Both are ends of the model, not of the service.

## 4. Fairness

Weak fairness only. `ConversionJob`: each POST in progress, each attempt, each
settling client, the sweep, and the expiry of a lock go on (handlers are threads,
attempts are run by RQ workers, `cleanup_loop` runs every interval, Redis expires
keys). Nobody has to post, poll or cancel; where a refund needs a poller, the
property says so (`Polling`). `PatternQueue`: the supervisor and DELETE requests
go on, and the container is started again (`restart: unless-stopped`). A task
is not fair, because it may hang: `SupervisedTasksEnd` holds through the wall time.
`ProjectionLedger`: requests go on once their body has arrived (a client that never
sends it keeps no slot of a pool), a child dies with its supervisor
(`PR_SET_PDEATHSIG`), and `reconcile` runs: it is the first thing a restarted
worker does, and every upload calls it. A child of a living request need not end.
`LayoutSuggestion`: a web process that has published an attempt goes on (`WebStep`,
unless it is killed) and workers run what is queued and report failures
(`AttemptStep`), and Redis lets the lock of a killed process expire (`OrphanExpires`). `ProjectionAnalysis`: a client polls, a POST that has its lease goes
on, and the worker goes on. `AnalysisSettles` excepts the attempt that is `lost`, because
its publisher was killed before it queued it, or because its callback found the lock of
a killed process: the code does not repair it for the same selection.
`RefundArrives` excepts a usage that was counted and that nothing asks for back
(`KeepsUsage`): the last commit took effect and its answer was refused or
unreadable, or the retry of a job that a late report had failed was counted. `PolledAnalysisEnds` needs no exception, because a poll repairs.
The other components are checked for safety only.

## 5. Findings

`PROJECT.json` quotes the documents; the traces are short.

1. `QueuedHasAttempt`: at its deadline an attempt returns although the
   confirmation has got the lock first and set the job to queued.
2. `RollbackSparesReady`: a rollback that cannot get the job lock releases the
   usage all the same.
3. `TasksEnd`: the look at the discard marker and the removal are not one section;
   an exception inside `finally` ends the only supervisor thread.
4. `UnackedIsKept`: DELETE checks the acknowledgement outside the lock.
5. `CompetitorsAreSeen`: `_has_competing_layout` is said to tell when the seams
   cannot distinguish another layout of grid or blanks, but it is given one
   placing of the blanks per grid and order. For seven tiles whose true slots are
   0 1 2 3 4 5 - 6, the code returns 0 1 2 3 - 4 5 6 with confidence `medium` and
   `layout_ambiguous` false; both match equally well.

Each has a passing counterpart that says what does hold: `ConfirmationSettles`,
`CountedIsGivenBackOnlyIfLost`, `SupervisedTasksEnd`, `DiscardIsHonoured`, and
`ReliableIsRight` for sheets with a line across every seam.

## 6. Proofs

Every theorem holds for all values of the constants that satisfy the named
assumptions of the modules; TLC evaluates those assumptions in the runs. The
properties of the runs are not inductive as they stand, so each proof module
defines an inductive invariant of named parts (`IInv` in three of them;
`SuggestionInv` and `AnalysisInv` of the two analyses, `AdmissionInv`, `ScenesInv`,
`PltInv`, and `SeamInv` of a sheet), proves that it holds
initially and under every action (one lemma per action or kind of action), and
derives the properties from it.

| module | theorems |
|---|---|
| `ConversionJobProofs` | all invariants, action properties and the refinement of `conversion_safety` |
| `JobAdmissionProofs` | the type invariant, `AnswersAgree`, `AnsweredIsCarriedOut`, `OneAttemptPerRequest`, `WithinCapacity`: all properties of the admission; `AttemptsAreSingle` |
| `PatternQueueProofs` | the type invariant, `QueuedIsDispatched`, `DiskWithinBudget`, `SettledIsFinal`, the refinement of `FifoTasks` |
| `BackgroundJobsProofs` | of both analyses the type invariant and the refinement of `FreshAnswer`, each for itself and side by side; `StatusIsTrue`, `OneAnalysisWorks` |
| `ProjectionLedgerProofs` | the type invariant, `UnwindingBounded`, `ChildrenWithinPools`, `ChildrenAreLeased`, the refinement of `LatestDocument`: all safety properties of the ledger |
| `ProjectionScenesProofs` | the type invariant, `BundlesAreAccounted` |
| `SubmissionsProofs` | of the parser `ShapesAreTheInk`; what `build_layout` accepts is sound, `SheetsAreSound`, the type invariant of the layouts, `ReliableIsRight` where the places are given; that the lanes of `MCSubmissions` implement each of their components, `LanesTypeOK` |
| `FiniteFacts` | what the others need of finite sets: least and greatest members, sums |

**ConversionJob.** `IInv` is the type invariant and two halves: `InTimeInv` until a late
report ends the job under its retry, `LateInv` from then on. `InTimeInv` says

* that whoever is in a section with calls to the quota service holds the lock
  (`LockInv`) and what it relies on there (`HolderInv`);
* that only the attempt the record names works on the job, and in which statuses
  (`AttemptInv`, `ConvertInv`, `StopInv`);
* that a poller which settles a failed job without the lock has read a record that
  differs from the current one at most in `released` (`ClientInv`): this is why
  writing the whole record back does no harm;
* that a usage is released before the record says so (`ReleasedInv`), and that a
  counted usage is only given back for a lost file (`RollbackInv`).

`LateInv` says what is left: the first attempt is out of the conversion, the record is the
retry's, ended or about to be published, and so is what a poller has read; a rollback is
still for a lost file only. `Overtaking` is the step from one half to the other. This
is enough for `OneAttemptConverts`, `CancelIsHonoured` and `CountedIsGivenBackOnlyIfLost`
in every behaviour; the other four hold up to that step, and say so.
Sections that several actors run (finalizing, ending a job, cancelling) have one
lemma that the others cite. Assumption: the actors are distinct.

**JobAdmission.** One POST at a time is in the locked region (`MutexInv`); an index
names a job of its key (`IndexInv`), from which `AnswersAgree` follows; whoever is
about to write the index of a request has found nothing there (`ClearInv`), and the
index names the working job of every maker that got to its end (`KnownInv`):
together, a request has one. `AttemptInv` follows the attempts: a job whose maker
got past the queue is pending until it ends, and only jobs that were admitted are
answered with. For the capacities, what a POST has compared stays a bound until it
is through (`UserInv`, `BacklogInv`), because only the holder of the lock adds to
either count, and everybody else removes or moves. `taken` is what the queue's two
counts miss, and is where the number of workers enters `WithinCapacity`. A job has
at most one attempt in flight (`OnceInv`, the theorem `AttemptsAreSingle`), because it
is enqueued by its maker once and retried only by the worker that has it; so the queue
is never longer than there are POSTs, which the type of `counted` says.

**PatternQueue.** `IInv` is the type invariant, `ControlInv` and `BudgetInv`.
`ControlInv` has a part for each actor and says what its place in the program means
for the folders:

* `FolderInv`: a record has its place in the order and its source, and what has not
  begun has no result; `QueueInv`: exactly the tasks that wait are in the queue,
  unless the container is down (`DownInv`);
* `SupervisorInv`: in which statuses the supervisor's task can be at each of its
  steps, DELETE requests in between included; `ProcessingInv`: only that task is
  under way; `ChildInv`: a process works for the supervisor, and its folder (`Working`)
  holds the source, at most a full result, and the archive it is about to replace;
* `DeleteInv`: a DELETE that has looked at the record and not removed the folder
  yet looks at a task that ends or has ended, and nobody else brings it back.

`QueuedIsDispatched` and `SettledIsFinal` follow, and with them the refinement:
every step is classified by what it does to one folder (`FolderSteps`: keeps it,
ends it, removes it, begins it), and each class is a step of `FifoTasks` or none. A task
is ended by several actors and a folder removed by several; each class is proved
once. For `BudgetInv`, a folder's charge, up to its reserve, covers what is stored in it
up to the reserve, and after the admission it only shrinks, so the sum of the charges
that was compared with the budget stays a bound. What a browser's folder holds beyond
its reserve is in nobody's sum; `Bounded`, a part of `FolderInv`, says that there is no
other such folder. `ChargedIsTotal` and `StoredIsTotal` identify the sums
of the module with the ones `FiniteFacts` reasons about.

**ProjectionLedger.** `Fits` says what the place of a request in its handler means for
its row: an upload that waits for its body has no pid, one that supervises a child has
a row of kind `upload-parse` (`UploadFits`); the row of a tile may be dropped until it
is claimed and again once its child has ended, and at no other time (`TileFits`); who
has a running child has its row (`ChildFits`). With `DocInv` (a document that is listed
has its file and is kept while a tile reads it) this gives `ChildrenAreLeased`. The
pools are bounded because a row counts against them from its claim until it is cleared
after the child was reaped, and the claim compares the count. A reservation compares
the number of uploads that unwind and adds at most one to it, because by `OrderInv` an
account has at most one unfinished upload that nobody superseded: `UnwindingBounded`.
For these counts every step is classified (`Steps`) as one that only frees slots, one
that begins a parse or a rendering, one that reserves, or one that publishes. For the
refinement, `OrderInv`: of the unfinished uploads of an account, one that nobody
superseded was reserved last. So what `complete_upload` publishes is the last, and the
account's earlier document goes in the same step.

**ProjectionScenes.** The state is one record, the rows of the database, and the parts
of `ScenesInv` are about that record: `Books` (what is ready is on disk, nothing else has
bytes, the charge is their sum, and with the reservations it is affordable) and `Fits`
(a request that reads has a claimed lease and its bundle; one that makes a bundle has
reserved the largest one, unless its lease was dropped). Every transaction is a sweep
and a change of one row, so the lemmas go by what is changed: `UnlistedBooks` and
`SweptBooks` (bundles go with their files and charges, but none that somebody reads),
`RowSet` (a lease, that reserves no more than before or what is affordable),
`BundleSet`, and `PublishedBooks` (what was reserved pays for what was made).
`OwnStep` and `DocumentStep` say what a step of a request, or of the document, has to
spare of the others'. The sums are those of `FiniteFacts` (`Sums`).

**FiniteFacts.** The library's induction over finite sets takes a predicate as a
parameter and cannot be used here. These lemmas argue by a minimal counterexample
instead: strict inclusion of the subsets of a finite set is well-founded, so among the
sets for which a statement fails there is a smallest one, and taking a member
from it contradicts that. So a table of partial sums exists, two of them agree,
and sums add, are monotone and vanish as expected.

**LayoutSuggestion.** An attempt is in one place (`PlaceInv`), the current one has read
the current selection (`ReadInv`), what is shown was found for it and nothing is
left that could take it back (`ShownInv`), and what is reported as under way is
somewhere or lost (`UnderWayInv`). A lock is left behind, and the current attempt lost,
only by a kill (`LostInv`): a process that lives and holds the lock is publishing an
attempt, so whatever it keeps waiting is older (`NumberInv`).

**ProjectionAnalysis.** An analysis is published once (`EarlyInv`), and one that was
replaced does not come back (`ReplacedInv`); so a request that finds the id it has
read finds the same question, and an ended analysis unchanged (`SeenInv`). This is
what makes a comparison of the analysis alone enough, although the metadata is read
long before it is written. For the refinement, `UnansweredInv`: what is about to be
published was neither under way nor answered when its request took the lease.
A step of `MCBackgroundJobs` is a step of one analysis and leaves the other alone
(`JobsSteps`), so both theorems hold of the jobs side by side.

**PageLayout and SeamLayout.** `LayoutsAreSound` is about `BuildLayout` alone, for any
input it does not refuse. Different slots are different cells of the grid, by rows
and by columns (`CellsDiffer`, from the facts of division), and the slots show every
page (`Selected_All`), so every page has a cell of its own (`PagesHaveCells`). A
column is as wide as the widest page in it (`LineSizes`), and the columns before the
next one leave room for it (`Advance`, `Room`), so of two pages in different columns
the one ends before the other begins; of two in the same column the same holds of
their rows. Neither the sizes of the pages nor the search that proposed the slots
matter, because `build_layout` checks the slots it is given. `SheetsAreSound` needs
of a suggestion only that its margins are whole units (`SuggestionsFit`); the same
lemma gives the type invariant.

`GivenPlacesAreKept` is `ReliableIsRight` for the sheets whose places are printed on the
tiles or come with the file (`GivenPlaces`; the tiles are then the pages that take part,
the grid is one the layout takes, and the margins leave something of a tile). Tiles are
numbered by rank, and in a finite set each rank is somebody's and only one's
(`Ranked`, `TilesInOrder`); a cell has a slot and a slot a cell (`SlotOfCell`,
`CellsDiffer`). So both suggestions ask for the same thing, each tile in the slot of its
cell (`AsksForTheSheet`: `EmbeddedAsks`, and `NumberedAsks`, where the numbers span the
grid because no row or column is empty), `build_layout` accepts it (`SheetIsAccepted`), and
finds each page in the slot it was put in (`SlotsOfTiles`). Pages are of one size, so
what comes before a line is as many times that size (`EqualLines`). It needs
nothing of the seams: they decide whether the suggestion is reliable, not what it asks for.

**PltParser.** `ShapesAreTheInk` speaks of the end of a file only. `PltInv` says it of
every prefix: parser and plotter have the same settings (`Same`, `SameMargin`); a
stroke is empty, or it ends where the pen is and the pen draws (`Stroke`); and the
plotter's lines are those of the shapes followed by those of the stroke (`Ink`). That
is why a flush needs a stroke of two points only, and why each command that changes the
pen, its width or the line type has to flush first: `SelectGoes`, `WidenGoes` and
`TypedGoes` use exactly that. There is one lemma per command, `...Goes`; drawing over the
chords of an arc is done once (`PenGoes`). The size of the document is the extent of the
ink because a segment's ends are its shape's points (`ShapeExtent`, `DocumentExtent`).
Both sides are folds and flattenings, so the first part of the module states what is
needed of them: a flattening is the concatenation in order (`JoinedExists`,
`FlattenFacts`, by a smallest counterexample on the length, for want of induction), one
more element is appended at its end, and its elements are those of its members
(`AppendToConcat`, `ConcatElements`). Assumptions: none but those on the constants. Files have
any number of commands; a movement has at most one pair of coordinates and an arc two
chords, as `Commands` enumerates them.

**MCSubmissions.** `LanesStep`: a step of one lane is a step of its component and leaves
the others alone. So a behaviour of the four together is a behaviour of each
(`LanesImplement`), every theorem about a component holds there, and `LanesTypeOK`
is the conjunction of three of them (`LanesTypeCorrect`).

Model-checked only: liveness under fairness, which is out of the prover's reach, and
`ReliableIsRight` where the search of `SeamLayout` finds the places (and where printed
numbers are misread as rows for columns, which only the seams can tell). The search ranks
candidates by sums over cuts and prunes them to a beam, and the property compares its
result with how the sheet was cut, so a proof is an induction over the beam's steps.
`GivenPlacesAreKept` is what holds of every sheet.

## 7. Not modelled

* `cancel_job`'s generic exception handler after a stop command
  (`job_queue.py:649-658`) and failures of Redis itself, except the enqueue that
  follows a written record (`SubmitBroken`, `EnqueueRaises`, `EnqueueFailed`) and a
  failing enqueue of a retry.
* The expiry of Redis records and result files by age, except where an index outlives
  its record (`ExpireRecord`, `LoseResult`); in `ConversionJob` the loss of a file is
  `LoseFile`.
* Rate limits: fixed windows of wall time, a refusal at any time in every module.
* The lock of source uploads (`acquire_user_job_slot`), one key with an expiry.
* Identity checks: the bound of two flights is the length of one dictionary, looked
  at and extended under one lock; a property would repeat that guard.
* A kill inside a section of the pattern queue that writes several files, apart
  from an interrupted upload; platforms where the task process outlives its
  supervisor; `shutdown`, which only tests call.
* In the projection service: byte budgets of documents and rates as numbers, staging
  folders, failures of SQLite and of `unlink`, a wall clock that is set back.
* Drawing and tracing: PDF rendering and conversion (`pdf_renderer.py`,
  `pdf_to_plt.py`, `pdf_to_pdf.py`), the display lists of scenes
  (`projection_scene.py`), the tracing of what crosses an edge, the reading of
  printed numbers, pattern recognition. They are single-threaded, keep no state
  between calls, and compute with floating-point coordinates, which TLC does not have.
* In the queues: the sweep lists job folders on disk (`tasks.py:122-131`), the model
  looks at the record; errors of Redis between the index of the content and the enqueue
  (`job_queue.py:447-453`); a holder of the submit lock that lives longer than fifteen
  seconds (`job_queue.py:370`).
* In the pattern queue: `queued_at` is taken to grow with the order of acceptance,
  although it is wall time; `pattern_safety` has no DELETE, so that `SettledIsFinal`
  and `DiskWithinBudget` meet DELETE requests in the proofs only; the result the
  child writes just before the supervisor fails the task is not protected
  (`SettledIsFinal` speaks of tasks the supervisor is done with).
* In the projection ledger: `projection_uploads` has no tiles and no kill (the proof of
  `ChildrenWithinPools` has both), and a source file without a session is removed by
  `ReconcileFiles` but no property says so.
* In the parser: the unit of the line width of a path (`plt_parser.py:94`), and the
  polygon that `max_chord_error_mm` makes of a circle (`plt_parser.py:382-397`),
  whose points count against the cap. The arguments of labels and arcs are there
  for the caps and the extent only.
* In the layouts: crops that differ by side (`pdf_layout_optimizer.py:700-748`), frames
  that differ by page (`projection_layout.py:134-155`). The constants of the confidence
  matter to `ReliableIsRight` and `CompetitorsAreSeen` only as far as the runs' sheets
  tell its levels apart.
* HTTP plumbing, wording of messages, authentication, deployment scripts.

## 8. Plan

1. Proofs: that the search keeps the true placing in its beam when every seam is
   crossed by lines no other seam matches.
2. `ProjectionLedger`: the byte accounting of reservations against the account's
   quota, as `ProjectionScenes` has it for bundles.
3. Conversions: the page and margin bookkeeping of `pdf_renderer.py` in whole units, in
   the way of `PageLayout`.
