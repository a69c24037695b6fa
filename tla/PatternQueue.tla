---------------------------- MODULE PatternQueue ----------------------------
(***************************************************************************)
(* The pattern layout service, app/pattern_layout_app.py: HTTP handlers    *)
(* that write task folders, one supervisor thread that runs them in order, *)
(* one child process per task, and restarts from what is on disk.          *)
(*                                                                         *)
(* A section under DiskQueue.lock is one step.  What the code does outside *)
(* the lock is a step of its own: the checks of DELETE, the test for the   *)
(* discard marker, the writes of the child.                                *)
(***************************************************************************)
EXTENDS Naturals, Sequences, FiniteSets, FiniteSetsExt, Functions

CONSTANTS
    Jobs,         \* folder names, one for every upload
    NoJob,
    Contents,     \* what is uploaded; one of them is a kind, a source, a project
    Exported,     \* the contents that are exported, the others are recognised
    Browser,      \* of those, the ones a browser has recognised: they are verified
    Keys,         \* X-Idempotency-Key
    Deleters,     \* DELETE requests
    SourceBytes, ResultBytes, SlackBytes, Budget,
    MaxCrashes    \* bound: the service is killed

ASSUME JobsAssumption ==
    /\ IsFiniteSet(Jobs)
    /\ NoJob \notin Jobs
    /\ Exported \subseteq Contents
    /\ Browser \subseteq Contents \ Exported
    /\ Keys \cap Contents = {}

ASSUME BytesAssumption ==
    /\ SourceBytes \in Nat /\ ResultBytes \in Nat
    /\ SlackBytes \in Nat /\ Budget \in Nat
    /\ MaxCrashes \in Nat

VARIABLES
    meta,     \* job.json of every folder
    size,     \* bytes in the folder, job.json and the markers aside
    cancel,   \* folders with the file "cancel"
    discard,  \* folders with the file "discard"
    expired,  \* folders older than the retention
    future,   \* the futures the process keeps
    pending,  \* the queue in memory
    sup,      \* the supervisor thread, "down" without a process
    child,    \* the task process, and the bytes of an archive it is about to replace
    del,      \* where each DELETE is
    crashes

disk == <<meta, size, cancel, discard, expired>>
memory == <<future, pending, sup, child, del>>
vars == <<disk, memory, crashes>>

-----------------------------------------------------------------------------
(* Folders *)

InFlight == {"queued", "processing"}
Terminal == {"done", "failed", "cancelled"}

\* "none": no folder; "bare": a folder without a job.json.
Meta == [status : {"none", "bare"} \cup InFlight \cup Terminal,
         content : Contents \cup {NoJob}, key : Contents \cup Keys \cup {NoJob},
         order : Nat, charge : Nat, acked : BOOLEAN, archive : BOOLEAN]

NoMeta == [status |-> "none", content |-> NoJob, key |-> NoJob, order |-> 0,
           charge |-> 0, acked |-> FALSE, archive |-> FALSE]

Known == {j \in Jobs : meta[j].status \in InFlight \cup Terminal}
Recognized(j) == meta[j].content \notin Exported

\* retained_bytes
Retained(bytes) == SlackBytes + bytes

\* What a folder counts for in submit.
Charged(j) == IF j \in Known THEN meta[j].charge ELSE size[j]

Up == sup.at # "down"

\* The folders are gone, and with them the markers and the futures.  The
\* name and the place in the order are never given again.
Without(folders) ==
    [j \in Jobs |-> IF j \in folders THEN [NoMeta EXCEPT !.order = meta[j].order] ELSE meta[j]]

Emptied(folders) == [j \in Jobs |-> IF j \in folders THEN 0 ELSE size[j]]

RemoveFolders(folders) ==
    /\ meta' = Without(folders)
    /\ size' = Emptied(folders)
    /\ cancel' = cancel \ folders
    /\ discard' = discard \ folders
    /\ expired' = expired \ folders
    /\ future' = [j \in Jobs |-> IF j \in folders THEN "none" ELSE future[j]]

Ended(j, status) == [meta[j] EXCEPT !.status = status, !.charge = Retained(size[j])]

-----------------------------------------------------------------------------
(* submit *)

Fresh == {j \in Jobs : meta[j] = NoMeta}
NextOrder == 1 + Max({meta[j].order : j \in Jobs} \cup {0})

\* The jobs a repeated upload is answered with.
Reusable(content, key) ==
    {j \in Known \ expired :
        /\ meta[j].key = key
        /\ \/ key \in Keys
           \/ /\ meta[j].status \in InFlight \cup {"done"}
              /\ ~(Recognized(j) /\ meta[j].status = "done" /\ ~meta[j].archive)}

\* Seeded bug: the result is not reserved.
Reserve_Source == SourceBytes + SlackBytes

Reserve == SourceBytes + ResultBytes + SlackBytes

Fits == MapThenSumSet(Charged, Jobs \ expired) + Reserve <= Budget

Submit(content, key) ==
    /\ Up
    /\ key = content \/ key \in Keys
    /\ Reusable(content, key) = {}
    /\ Fits
    /\ \E j \in Fresh :
        /\ meta' = [Without(expired) EXCEPT ![j] =
                       [NoMeta EXCEPT !.status = "queued", !.content = content, !.key = key,
                                      !.order = NextOrder, !.charge = Reserve]]
        /\ size' = [Emptied(expired) EXCEPT ![j] = SourceBytes]
        /\ future' = [[i \in Jobs |-> IF i \in expired THEN "none" ELSE future[i]] EXCEPT ![j] = "pending"]
        /\ pending' = Append(pending, j)
    /\ cancel' = cancel \ expired
    /\ discard' = discard \ expired
    /\ expired' = {}
    /\ UNCHANGED <<sup, child, del, crashes>>

\* reap alone: the reaper thread, a status request, and an upload that is
\* refused, or answered with another job.
Reap ==
    /\ Up
    /\ expired # {}
    /\ RemoveFolders(expired)
    /\ UNCHANGED <<pending, sup, child, del, crashes>>

\* The retention passes.  It is far longer than the supervisor's last steps.
Expire(j) ==
    /\ meta[j].status \in Terminal \cup {"bare"}
    /\ sup.job # j
    /\ expired' = expired \cup {j}
    /\ UNCHANGED <<meta, size, cancel, discard, memory, crashes>>

-----------------------------------------------------------------------------
(* ack, DELETE                                                             *)

\* Sources, resources and the archive go, a light index stays.
Ack(j) ==
    /\ Up
    /\ meta[j].status = "done" /\ Recognized(j) /\ ~meta[j].acked
    /\ \E light \in 0..(size[j] - SourceBytes) :
        /\ size' = [size EXCEPT ![j] = light]
        /\ meta' = [meta EXCEPT ![j].acked = TRUE, ![j].archive = FALSE,
                                ![j].charge = Retained(light)]
    /\ UNCHANGED <<cancel, discard, expired, memory, crashes>>

AtRest == [at |-> "idle", job |-> NoJob, discards |-> FALSE]

\* release looks at the job, and leaves the discard marker, without the lock.
Delete(d, j, discards) ==
    /\ Up
    /\ del[d] = AtRest
    /\ j \in Known
    /\ Recognized(j) /\ meta[j].status = "done" /\ ~meta[j].acked => discards
    /\ discard' = IF discards THEN discard \cup {j} ELSE discard
    /\ del' = [del EXCEPT ![d] = [at |-> "cancel", job |-> j, discards |-> discards]]
    /\ UNCHANGED <<meta, size, cancel, expired, future, pending, sup, child, crashes>>

\* DiskQueue.cancel, under the lock.
CancelJob(d) ==
    LET j == del[d].job IN
    /\ Up
    /\ del[d].at = "cancel"
    /\ \/ \* 404: the folder has gone.
          /\ j \notin Known
          /\ del' = [del EXCEPT ![d] = AtRest]
          /\ UNCHANGED <<disk, future>>
       \/ \* The future has not been taken: it never will be.
          /\ meta[j].status \in InFlight /\ future[j] = "pending"
          /\ meta' = [meta EXCEPT ![j] = Ended(j, "cancelled")]
          /\ cancel' = cancel \cup {j}
          /\ future' = [future EXCEPT ![j] = "cancelled"]
          /\ del' = [del EXCEPT ![d] = IF @.discards THEN [@ EXCEPT !.at = "remove"] ELSE AtRest]
          /\ UNCHANGED <<size, discard, expired>>
       \/ \* The supervisor finds the marker.
          /\ meta[j].status \in InFlight /\ future[j] # "pending"
          /\ cancel' = cancel \cup {j}
          /\ del' = [del EXCEPT ![d] = AtRest]
          /\ UNCHANGED <<meta, size, discard, expired, future>>
       \/ /\ meta[j].status \in Terminal
          /\ RemoveFolders({j})
          /\ del' = [del EXCEPT ![d] = AtRest]
    /\ UNCHANGED <<pending, sup, child, crashes>>

\* A discarded job that never ran.  A folder that has gone is an error 500.
RemoveCancelled(d) ==
    /\ Up
    /\ del[d].at = "remove"
    /\ IF del[d].job \in Known THEN RemoveFolders({del[d].job}) ELSE UNCHANGED <<disk, future>>
    /\ del' = [del EXCEPT ![d] = AtRest]
    /\ UNCHANGED <<pending, sup, child, crashes>>

-----------------------------------------------------------------------------
(* The supervisor thread: _work_loop                                       *)

NoChild == [job |-> NoJob, at |-> "none", old |-> 0]
Idle == [at |-> "idle", job |-> NoJob, failure |-> "none"]
Alive == {"boot", "compute", "rewrite", "archive", "commit", "leaving"}

Supervise(state) == sup' = [sup EXCEPT !.at = state]

\* A job whose future was cancelled, or whose folder has gone, is skipped.
Take ==
    /\ sup.at = "idle"
    /\ pending # <<>>
    /\ LET j == Head(pending) IN
        IF future[j] = "pending"
        THEN /\ future' = [future EXCEPT ![j] = "running"]
             /\ sup' = [at |-> "launch", job |-> j, failure |-> "none"]
        ELSE UNCHANGED <<future, sup>>
    /\ pending' = Tail(pending)
    /\ UNCHANGED <<disk, child, del, crashes>>

Launch ==
    /\ sup.at = "launch"
    /\ \/ /\ sup.job \in cancel
          /\ sup' = [sup EXCEPT !.at = "settle", !.failure = "cancelled"]
          /\ UNCHANGED <<meta, child>>
       \/ /\ sup.job \notin cancel
          /\ Supervise("watch")
          /\ child' = [job |-> sup.job, at |-> "boot", old |-> 0]
          /\ UNCHANGED meta
       \/ \* Process.start raises: supervisor_error.
          /\ sup.job \notin cancel
          /\ Supervise("finally")
          /\ meta' = [meta EXCEPT ![sup.job] = Ended(sup.job, "failed")]
          /\ UNCHANGED child
    /\ UNCHANGED <<size, cancel, discard, expired, future, pending, del, crashes>>

\* Seeded bug: a task may run for ever.
Watch_NoWall ==
    /\ sup.at = "watch"
    /\ \/ /\ child.at \in {"exited", "crashed"}
          /\ sup' = [sup EXCEPT !.at = "settle",
                                !.failure = IF child.at = "crashed" THEN "failed" ELSE "none"]
       \/ /\ child.at \in Alive /\ sup.job \in cancel
          /\ sup' = [sup EXCEPT !.at = "settle", !.failure = "cancelled"]
    /\ child' = NoChild
    /\ UNCHANGED <<disk, future, pending, del, crashes>>

\* The child ended, or is killed for the marker or for its wall time.
Watch ==
    /\ sup.at = "watch"
    /\ \/ /\ child.at \in {"exited", "crashed"}
          /\ sup' = [sup EXCEPT !.at = "settle",
                                !.failure = IF child.at = "crashed" THEN "failed" ELSE "none"]
       \/ /\ child.at \in Alive /\ sup.job \in cancel
          /\ sup' = [sup EXCEPT !.at = "settle", !.failure = "cancelled"]
       \/ /\ child.at \in Alive /\ sup.job \notin cancel
          /\ sup' = [sup EXCEPT !.at = "settle", !.failure = "failed"]
    /\ child' = NoChild
    /\ UNCHANGED <<disk, future, pending, del, crashes>>

\* Under the lock: a failure counts even when the child has written "done".
Settle ==
    LET j == sup.job
        status == IF sup.failure # "none" THEN sup.failure
                  ELSE IF meta[j].status \in Terminal THEN meta[j].status ELSE "failed"
    IN
    /\ sup.at = "settle"
    /\ IF j \in Known
       THEN /\ meta' = [meta EXCEPT ![j] = Ended(j, status)]
            /\ future' = [future EXCEPT ![j] = "finished"]
       ELSE UNCHANGED <<meta, future>>
    /\ Supervise("finally")
    /\ UNCHANGED <<size, cancel, discard, expired, pending, child, del, crashes>>

\* Seeded bug: the discard marker is left to a second request.
Finally_KeepsDiscard ==
    /\ sup.at = "finally"
    /\ sup' = Idle
    /\ UNCHANGED <<disk, future, pending, child, del, crashes>>

\* The marker is looked for without the lock ...
Finally ==
    /\ sup.at = "finally"
    /\ sup' = IF sup.job \in discard THEN [sup EXCEPT !.at = "remove"] ELSE Idle
    /\ UNCHANGED <<disk, future, pending, child, del, crashes>>

\* ... and the folder removed under it.  If a DELETE has removed it in the
\* meantime, the exception ends the thread.
RemoveDiscarded ==
    /\ sup.at = "remove"
    /\ IF sup.job \in Known
       THEN RemoveFolders({sup.job}) /\ sup' = Idle
       ELSE Supervise("dead") /\ UNCHANGED <<disk, future>>
    /\ UNCHANGED <<pending, child, del, crashes>>

Supervisor == Take \/ Launch \/ Watch \/ Settle \/ Finally \/ RemoveDiscarded

-----------------------------------------------------------------------------
(* The child: _task_process and _execute.  It owns job.json while it runs. *)

ChildAt(state) == child.at = state /\ UNCHANGED <<cancel, discard, expired, future, pending, sup, del, crashes>>
ChildGoes(state) == child' = [child EXCEPT !.at = state]
Write(j, status) == meta' = [meta EXCEPT ![j].status = status]

Begin ==
    LET j == child.job IN
    /\ ChildAt("boot")
    /\ \/ /\ j \in cancel
          /\ Write(j, "cancelled")
          /\ ChildGoes("leaving")
       \/ /\ j \notin cancel
          /\ Write(j, "processing")
          /\ ChildGoes("compute")
    /\ UNCHANGED size

\* What is recognised is written as it goes, an export at the end.
Executing == {"compute", "rewrite", "archive", "commit"}
Writes == child.at \in Executing /\ (child.at = "commit") = ~Recognized(child.job)

\* Seeded bug: one byte more than the budget is let through.
Grow_OffByOne ==
    /\ Writes /\ ChildAt(child.at)
    /\ size[child.job] <= SourceBytes + ResultBytes + child.old
    /\ size' = [size EXCEPT ![child.job] = @ + 1]
    /\ UNCHANGED <<meta, child>>

\* Results are written under a budget, which leaves out an archive that is
\* about to be replaced.
Grow ==
    /\ Writes /\ ChildAt(child.at)
    /\ size[child.job] < SourceBytes + ResultBytes + child.old
    /\ size' = [size EXCEPT ![child.job] = @ + 1]
    /\ UNCHANGED <<meta, child>>

\* The verified result of a browser: the audit is written anew, while the
\* archive of write_resources is still on disk ...
Rewrite ==
    LET j == child.job IN
    /\ ChildAt("compute")
    /\ meta[j].content \in Browser
    /\ \E old \in 0..(size[j] - SourceBytes) :
        /\ child' = [child EXCEPT !.at = "rewrite", !.old = old]
        /\ \E bytes \in (SourceBytes + old)..size[j] : size' = [size EXCEPT ![j] = bytes]
    /\ UNCHANGED meta

\* ... until the new one is opened.
Replace ==
    /\ ChildAt("rewrite")
    /\ size' = [size EXCEPT ![child.job] = @ - child.old]
    /\ child' = [child EXCEPT !.at = "archive", !.old = 0]
    /\ UNCHANGED meta

\* The last look at the marker, and the end of the task: two steps.
Decide ==
    /\ child.at \in {"compute", "archive"} /\ ChildAt(child.at)
    /\ (child.at = "archive") = (meta[child.job].content \in Browser)
    /\ \/ /\ child.job \in cancel
          /\ Write(child.job, "cancelled")
          /\ ChildGoes("leaving")
       \/ /\ child.job \notin cancel
          /\ ChildGoes("commit")
          /\ UNCHANGED meta
    /\ UNCHANGED size

Commit ==
    LET j == child.job IN
    /\ ChildAt("commit")
    /\ meta' = [meta EXCEPT ![j].status = "done", ![j].archive = Recognized(j),
                            ![j].charge = Retained(size[j])]
    /\ ChildGoes("leaving")
    /\ UNCHANGED size

\* An exception, an exceeded budget included: the results are removed, but
\* for what there is of an export.
Fail ==
    LET j == child.job
        left == IF Recognized(j) THEN SourceBytes ELSE size[j]
    IN
    /\ child.at \in Executing /\ ChildAt(child.at)
    /\ size' = [size EXCEPT ![j] = left]
    /\ meta' = [meta EXCEPT ![j].status = IF j \in cancel THEN "cancelled" ELSE "failed",
                            ![j].charge = Retained(left)]
    /\ child' = [child EXCEPT !.at = "leaving", !.old = 0]

Exit ==
    /\ child.at \in Alive
    /\ ChildAt(child.at)
    /\ \/ child.at = "leaving" /\ ChildGoes("exited")
       \/ ChildGoes("crashed")
    /\ UNCHANGED <<meta, size>>

Task == Begin \/ Grow \/ Rewrite \/ Replace \/ Decide \/ Commit \/ Fail \/ Exit

-----------------------------------------------------------------------------
(* The service is killed and started again                                 *)

\* On Linux the child dies with the supervisor.  An upload that was being
\* written leaves a folder without a job.json.
Crash ==
    /\ Up
    /\ crashes < MaxCrashes
    /\ crashes' = crashes + 1
    /\ sup' = [Idle EXCEPT !.at = "down"]
    /\ child' = NoChild
    /\ future' = [j \in Jobs |-> "none"]
    /\ pending' = <<>>
    /\ del' = [d \in Deleters |-> AtRest]
    /\ \/ UNCHANGED disk
       \/ /\ Fits
          /\ \E j \in Fresh, bytes \in 0..SourceBytes :
                /\ meta' = [Without(expired) EXCEPT ![j].status = "bare"]
                /\ size' = [Emptied(expired) EXCEPT ![j] = bytes]
          /\ cancel' = cancel \ expired
          /\ discard' = discard \ expired
          /\ expired' = {}

Waiting(metas) == {j \in Jobs : metas[j].status = "queued"}

\* Seeded bug: the jobs are dispatched as the directory lists them.
InOrder_Unsorted(q, metas) == IsInjective(q)

\* The waiting jobs in the order they were queued in.
InOrder(q, metas) ==
    \A i, k \in DOMAIN q : i < k => metas[q[i]].order < metas[q[k]].order

\* DiskQueue.__init__ for one folder.
Restarted_FailsAll(j) ==
    IF meta[j].status \in Terminal \cup {"processing"} THEN Ended(j, "failed") ELSE meta[j]

Restarted(j) ==
    IF meta[j].status \in Terminal THEN Ended(j, meta[j].status)
    ELSE IF meta[j].status = "processing" THEN Ended(j, "failed")
    ELSE meta[j]

\* Seeded bug: a job that was to be cancelled is not dispatched again.
Dispatched_Unmarked(metas) == Waiting(metas) \ cancel

Dispatched(metas) == Waiting(metas)

Restart ==
    LET metas == [j \in Jobs |-> IF j \in expired THEN Without(expired)[j] ELSE Restarted(j)]
        waiting == Dispatched(metas)
    IN
    /\ ~Up
    /\ sup' = Idle
    /\ meta' = metas
    /\ size' = Emptied(expired)
    /\ cancel' = cancel \ expired
    /\ discard' = discard \ expired
    /\ expired' = {}
    /\ future' = [j \in Jobs |-> IF j \in waiting THEN "pending" ELSE "none"]
    /\ \E q \in [1..Cardinality(waiting) -> waiting] : InOrder(q, metas) /\ pending' = q
    /\ UNCHANGED <<child, del, crashes>>

-----------------------------------------------------------------------------
Init ==
    /\ meta = [j \in Jobs |-> NoMeta]
    /\ size = [j \in Jobs |-> 0]
    /\ cancel = {} /\ discard = {} /\ expired = {}
    /\ future = [j \in Jobs |-> "none"]
    /\ pending = <<>>
    /\ sup = Idle
    /\ child = NoChild
    /\ del = [d \in Deleters |-> AtRest]
    /\ crashes = 0

Deletion(d) == CancelJob(d) \/ RemoveCancelled(d)

Next ==
    \/ \E content \in Contents, key \in Contents \cup Keys : Submit(content, key)
    \/ Reap
    \/ \E j \in Jobs : Expire(j) \/ Ack(j)
    \/ \E d \in Deleters : Deletion(d)
    \/ \E d \in Deleters, j \in Jobs, discards \in BOOLEAN : Delete(d, j, discards)
    \/ Supervisor
    \/ Task
    \/ Crash
    \/ Restart

Spec == Init /\ [][Next]_vars

\* The supervisor and the requests go on, the container is restarted; a
\* task may hang, and nobody has to upload anything.
FairSpec ==
    /\ Spec
    /\ WF_vars(Supervisor)
    /\ WF_vars(Restart)
    /\ \A d \in Deleters : WF_vars(Deletion(d))

-----------------------------------------------------------------------------
(* Properties                                                              *)

\* A source, a full result, and an archive that is not replaced yet.
FolderBytes == SourceBytes + 2 * ResultBytes

\* The type invariant.
TypeOK ==
    /\ meta \in [Jobs -> Meta]
    /\ size \in [Jobs -> 0..FolderBytes]
    /\ cancel \subseteq Known /\ discard \subseteq Known
    /\ expired \subseteq {j \in Jobs : meta[j].status \in Terminal \cup {"bare"}}
    /\ future \in [Jobs -> {"none", "pending", "running", "cancelled", "finished"}]
    /\ pending \in Seq(Jobs)
    /\ sup \in [at : {"idle", "launch", "watch", "settle", "finally", "remove", "dead", "down"},
                 job : Jobs \cup {NoJob}, failure : {"none", "cancelled", "failed"}]
    /\ child \in [job : Jobs \cup {NoJob}, at : Alive \cup {"none", "exited", "crashed"},
                  old : 0..ResultBytes]
    /\ del \in [Deleters -> [at : {"idle", "cancel", "remove"}, job : Jobs \cup {NoJob},
                             discards : BOOLEAN]]
    /\ crashes \in Nat

\* What is on disk never exceeds the operator's budget, although a task that
\* ends is charged less and new ones are admitted at once ...
Within(j) == Min({size[j], SourceBytes + ResultBytes})

\* ... but for the archive a browser's task is about to replace: nothing
\* reserves it, and it stays when the task is killed in between.
Unreserved(j) ==
    meta[j].content \in Browser /\ meta[j].status \in {"processing", "failed", "cancelled"}

DiskWithinBudget ==
    LET OnDisk(j) == IF j \in Known THEN Retained(Within(j)) ELSE Within(j)
    IN  /\ MapThenSumSet(OnDisk, Jobs) <= Budget
        /\ \A j \in Jobs : size[j] # Within(j) => Unreserved(j)

\* A job that waits on disk also waits in memory, restarts included.
QueuedIsDispatched ==
    Up => \A j \in Jobs : meta[j].status = "queued" =>
              sup.job = j \/ (future[j] = "pending" /\ j \in Range(pending))

\* Once the supervisor is done with a job, its result stands until the
\* folder goes, restarts included.
SettledIsFinal ==
    [][\A j \in Jobs : meta[j].status \in Terminal /\ sup.job # j =>
           meta'[j].status \in {meta[j].status, "none"}]_vars

FifoTasks == INSTANCE FifoTasks WITH
    Tasks <- Jobs,
    stage <- [j \in Jobs |->
        CASE meta[j].status = "queued" -> "waiting"
          [] meta[j].status = "processing" -> "running"
          [] meta[j].status \in Terminal -> "ended"
          [] meta[j].status = "bare" -> "new"
          [] OTHER -> IF meta[j].order = 0 THEN "new" ELSE "gone"],
    rank <- [j \in Jobs |-> meta[j].order]

\* Tasks run one at a time, in order, and none is lost.
KeepsOrder == FifoTasks!Spec

\* Every accepted task ends ...
TasksEnd == \A j \in Jobs : meta[j].status \in InFlight ~> meta[j].status \notin InFlight

\* ... if the supervisor thread survives, also when tasks hang and the
\* service is restarted.
SupervisedTasksEnd == [](sup.at # "dead") => TasksEnd

\* A task discarded by its owner leaves nothing behind, whatever it was
\* doing, unless the service goes down.
DiscardIsHonoured ==
    []Up => \A j \in Jobs : j \in discard ~> j \notin Known

\* A recognised pattern that nobody has acknowledged is only given up when
\* its owner discards it or its retention passes.
UnackedIsKept ==
    [][\A j \in Jobs :
        Recognized(j) /\ meta[j].status = "done" /\ ~meta[j].acked /\ meta'[j].status = "none"
            => j \in discard \cup expired]_vars

=============================================================================
