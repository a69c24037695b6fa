-------------------------- MODULE PatternQueueProofs --------------------------
(***************************************************************************)
(* Proofs about PatternQueue, for any number of folders, keys and DELETE   *)
(* requests, any budget and any number of restarts: its type invariant,    *)
(* QueuedIsDispatched, SettledIsFinal, DiskWithinBudget, and that it       *)
(* implements FifoTasks.                                                   *)
(***************************************************************************)
EXTENDS PatternQueue, FiniteFacts, SequenceTheorems

Status(j) == meta[j].status
Removed == Terminal \cup {"none"}

\* Only a browser's task has more on disk than what submit reserved.
Bounded(j) == size[j] > SourceBytes + ResultBytes => Unreserved(j)

\* What is charged for a folder covers what is in it, once its job has ended.
FolderInv ==
    \A j \in Jobs :
        /\ Status(j) = "none" => size[j] = 0
        /\ Status(j) = "bare" => meta[j].order = 0
        /\ Status(j) \in InFlight \cup Terminal => meta[j].order > 0
        /\ Status(j) \in InFlight => meta[j].charge = Reserve
        /\ Status(j) \in Terminal => Retained(size[j]) <= meta[j].charge
        /\ Status(j) = "queued" => size[j] = SourceBytes
        /\ Bounded(j)

\* Where the job of the supervisor is, and who may change it.
SupervisorInv ==
    /\ sup.at \in {"idle", "down"} <=> sup.job = NoJob
    /\ sup.job \in Jobs => meta[sup.job].order > 0
    /\ sup.job \in Jobs => sup.job \notin expired
    /\ sup.job \in Jobs => future[sup.job] \notin {"pending", "cancelled"}
    /\ sup.at = "launch" => Status(sup.job) = "queued"
    /\ sup.at \in {"watch", "settle"} => Status(sup.job) # "bare"
    /\ sup.at \in {"finally", "remove", "dead"} => Status(sup.job) \in Removed

\* A folder holds its source, the results so far, and the archive that is to
\* be replaced.
Working(j) ==
    /\ SourceBytes + child.old <= size[j] /\ size[j] <= SourceBytes + ResultBytes + child.old
    /\ child.at # "rewrite" => child.old = 0
    /\ child.at = "rewrite" => meta[j].content \in Browser

ChildInv ==
    /\ IF sup.at = "watch" THEN child.job = sup.job /\ child.at # "none" ELSE child = NoChild
    /\ child.at = "boot" => Status(child.job) = "queued" /\ child.old = 0
    /\ child.at \in Executing => Status(child.job) = "processing" /\ Working(child.job)
    /\ child.at \in {"leaving", "exited"} => Status(child.job) \in Removed

\* One job is processed, by the supervisor if there is one.
ProcessingInv ==
    /\ \A i, j \in Jobs : Status(i) = "processing" /\ Status(j) = "processing" => i = j
    /\ Up => \A j \in Jobs : Status(j) = "processing" =>
                 sup.job = j /\ sup.at \in {"watch", "settle"}

\* What waits in memory was accepted after what the supervisor has, and in
\* the order in which it waits.
QueueInv ==
    /\ InOrder(pending, meta)
    /\ \A i \in DOMAIN pending :
           /\ meta[pending[i]].order > 0
           /\ sup.job \in Jobs => meta[sup.job].order < meta[pending[i]].order
    /\ \A j \in Jobs : future[j] = "pending" => Status(j) = "queued"
    /\ \A j \in Jobs : Up /\ Status(j) = "queued" =>
           sup.job = j \/ (future[j] = "pending" /\ \E i \in DOMAIN pending : pending[i] = j)

\* A DELETE that is to remove a folder has cancelled it before it ran.
DeleteInv ==
    \A d \in Deleters :
        /\ del[d].at # "idle" => del[d].job \in Jobs
        /\ del[d].at = "remove" =>
              /\ Status(del[d].job) \in {"cancelled", "none"} /\ meta[del[d].job].order > 0
              /\ del[d].job # sup.job

\* Nothing is in memory without a process.
DownInv ==
    ~Up => /\ pending = <<>>
           /\ future = [j \in Jobs |-> "none"]
           /\ del = [d \in Deleters |-> AtRest]

ControlInv ==
    /\ FolderInv /\ SupervisorInv /\ ChildInv /\ ProcessingInv
    /\ QueueInv /\ DeleteInv /\ DownInv

\* What is charged for a folder, up to what was reserved for it.
Capped(bytes) == IF bytes > Reserve THEN Reserve ELSE bytes
Cover == [j \in Jobs |-> IF j \in Known THEN Capped(meta[j].charge) ELSE size[j]]

\* What submit counted when it last admitted a job has not grown since.
BudgetInv == Total(Cover, Jobs) <= Budget

IInv == TypeOK /\ ControlInv /\ BudgetInv

-----------------------------------------------------------------------------
(* The type invariant                                                      *)

\* What is known of a folder, field by field.
LEMMA MetaFields ==
    ASSUME NEW m
    PROVE  m \in Meta <=>
        /\ m = [status |-> m.status, content |-> m.content, key |-> m.key, order |-> m.order,
                charge |-> m.charge, acked |-> m.acked, archive |-> m.archive]
        /\ m.status \in {"none", "bare", "queued", "processing", "done", "failed", "cancelled"}
        /\ m.content \in Contents \cup {NoJob}
        /\ m.key \in Contents \cup Keys \cup {NoJob}
        /\ m.order \in Nat /\ m.charge \in Nat
        /\ m.acked \in BOOLEAN /\ m.archive \in BOOLEAN
BY DEF Meta, InFlight, Terminal

LEMMA NoMetaTyped == NoMeta \in Meta
BY DEF NoMeta, Meta, InFlight, Terminal

\* Only the place in the order outlives a folder.
LEMMA WithoutEffect ==
    ASSUME TypeOK, NEW F
    PROVE  /\ Without(F) \in [Jobs -> Meta]
           /\ \A j \in Jobs : j \notin F => Without(F)[j] = meta[j]
           /\ \A j \in Jobs : j \in F =>
                  /\ Without(F)[j].status = "none"
                  /\ Without(F)[j].order = meta[j].order
                  /\ Without(F)[j].charge = 0
           /\ Emptied(F) \in [Jobs -> 0..FolderBytes]
           /\ \A j \in Jobs : Emptied(F)[j] = IF j \in F THEN 0 ELSE size[j]
<1>1. \A j \in Jobs : meta[j].order \in Nat
  BY DEF TypeOK, Meta
<1>2. \A j \in Jobs : [NoMeta EXCEPT !.order = meta[j].order] \in Meta
  BY <1>1 DEF NoMeta, Meta
<1>3. Without(F) \in [Jobs -> Meta]
  BY <1>2 DEF Without, TypeOK
<1>4. Emptied(F) \in [Jobs -> 0..FolderBytes]
  BY BytesAssumption DEF Emptied, TypeOK, FolderBytes
<1> QED BY <1>3, <1>4 DEF Without, Emptied, NoMeta

\* The finish of a job writes its state and what is charged for it.
LEMMA EndedEffect ==
    ASSUME TypeOK, NEW j \in Jobs, NEW status \in Terminal
    PROVE  /\ Ended(j, status) \in Meta
           /\ Ended(j, status).status = status
           /\ Ended(j, status).order = meta[j].order
           /\ Ended(j, status).charge = Retained(size[j])
<1>1. meta[j] \in Meta /\ size[j] \in Nat
  BY BytesAssumption DEF TypeOK, FolderBytes
<1>2. Retained(size[j]) \in Nat
  BY <1>1, BytesAssumption DEF Retained
<1> QED BY <1>1, <1>2 DEF Ended, Meta

LEMMA EndedContent ==
    \A j \in Jobs, status \in Terminal : meta[j] \in Meta => Ended(j, status).content = meta[j].content
BY DEF Ended, Meta

LEMMA InitTypeOK == Init => TypeOK
<1> SUFFICES ASSUME Init PROVE TypeOK
  OBVIOUS
<1>1. meta \in [Jobs -> Meta] /\ size \in [Jobs -> 0..FolderBytes]
  BY NoMetaTyped, BytesAssumption DEF Init, FolderBytes
<1>2. pending \in Seq(Jobs)
  BY DEF Init
<1>3. child \in [job : Jobs \cup {NoJob}, at : Alive \cup {"none", "exited", "crashed"},
                 old : 0..ResultBytes]
  BY BytesAssumption DEF Init, NoChild
<1> QED BY <1>1, <1>2, <1>3 DEF Init, TypeOK, Idle, AtRest

Requests == [at : {"idle", "cancel", "remove"}, job : Jobs \cup {NoJob}, discards : BOOLEAN]

\* TypeOK in two parts: most actions of the process leave the folders alone.
FoldersTyped ==
    /\ meta \in [Jobs -> Meta]
    /\ size \in [Jobs -> 0..FolderBytes]
    /\ cancel \subseteq Known /\ discard \subseteq Known
    /\ expired \subseteq {j \in Jobs : meta[j].status \in Terminal \cup {"bare"}}
    /\ future \in [Jobs -> {"none", "pending", "running", "cancelled", "finished"}]

ProcessTyped ==
    /\ pending \in Seq(Jobs)
    /\ sup \in [at : {"idle", "launch", "watch", "settle", "finally", "remove", "dead", "down"},
                 job : Jobs \cup {NoJob}, failure : {"none", "cancelled", "failed"}]
    /\ child \in [job : Jobs \cup {NoJob}, at : Alive \cup {"none", "exited", "crashed"},
                  old : 0..ResultBytes]
    /\ del \in [Deleters -> [at : {"idle", "cancel", "remove"}, job : Jobs \cup {NoJob},
                             discards : BOOLEAN]]
    /\ crashes \in Nat

LEMMA RemoveTyped ==
    ASSUME TypeOK, NEW F, RemoveFolders(F)
    PROVE  FoldersTyped'
BY WithoutEffect DEF RemoveFolders, FoldersTyped, TypeOK, Known

\* A thread that is busy has a job, and the child has the same.
LEMMA BusyJobs ==
    ASSUME TypeOK, SupervisorInv, ChildInv
    PROVE  /\ sup.at \notin {"idle", "down"} => sup.job \in Jobs
           /\ child.at # "none" => child.job = sup.job /\ child.job \in Jobs /\ sup.at = "watch"
<1>1. sup.job \in Jobs \cup {NoJob}
  BY DEF TypeOK
<1>2. child.at # "none" => sup.at = "watch" /\ child.job = sup.job
  BY DEF ChildInv, NoChild, Executing
<1> QED BY <1>1, <1>2 DEF SupervisorInv

\* A new job comes behind all that were ever accepted.
LEMMA NextOrderIsLast ==
    ASSUME TypeOK
    PROVE  /\ NextOrder \in Nat /\ NextOrder > 0
           /\ \A j \in Jobs : meta[j].order \in Nat /\ meta[j].order < NextOrder
<1> DEFINE place == [j \in Jobs |-> meta[j].order]
           places == {meta[j].order : j \in Jobs}
<1>1. \A j \in Jobs : meta[j].order \in Nat
  BY MetaFields DEF TypeOK
<1>2. IsFiniteSet({place[j] : j \in Jobs})
  <2> HIDE DEF place
  <2> QED BY FiniteImage, JobsAssumption
<1>3. IsFiniteSet(places \cup {0})
  <2>1. {place[j] : j \in Jobs} = places
    OBVIOUS
  <2> HIDE DEF place, places
  <2> QED BY <1>2, <2>1, FS_AddElement
<1>4. /\ Max(places \cup {0}) \in places \cup {0}
      /\ \A n \in places \cup {0} : n <= Max(places \cup {0})
  <2>1. \A n \in places \cup {0} : n \in Nat
    BY <1>1
  <2> HIDE DEF places
  <2> QED BY <1>3, <2>1, GreatestNatural
<1>5. Max(places \cup {0}) \in Nat /\ \A j \in Jobs : meta[j].order <= Max(places \cup {0})
  BY <1>1, <1>4
<1> QED BY <1>1, <1>5 DEF NextOrder

LEMMA ReserveTyped ==
    /\ Reserve \in Nat /\ SourceBytes + ResultBytes \in Nat /\ FolderBytes \in Nat
    /\ 0..SourceBytes \subseteq 0..FolderBytes /\ SourceBytes \in 0..FolderBytes
BY BytesAssumption DEF Reserve, FolderBytes

LEMMA SubmitTyped ==
    ASSUME TypeOK, NEW content \in Contents, NEW key \in Contents \cup Keys, Submit(content, key)
    PROVE  TypeOK'
<1> DEFINE record == [NoMeta EXCEPT !.status = "queued", !.content = content, !.key = key,
                                    !.order = NextOrder, !.charge = Reserve]
<1>1. PICK j \in Fresh :
        /\ meta' = [Without(expired) EXCEPT ![j] = record]
        /\ size' = [Emptied(expired) EXCEPT ![j] = SourceBytes]
        /\ future' = [[i \in Jobs |-> IF i \in expired THEN "none" ELSE future[i]] EXCEPT ![j] = "pending"]
        /\ pending' = Append(pending, j)
  BY DEF Submit
<1>2. j \in Jobs
  BY <1>1 DEF Fresh
<1>3. record \in Meta /\ record.status = "queued"
  BY NextOrderIsLast, ReserveTyped DEF NoMeta, Meta, InFlight
<1> HIDE DEF record
<1>4. meta' \in [Jobs -> Meta] /\ \A i \in Jobs : i \notin expired /\ i # j => meta'[i] = meta[i]
  BY <1>1, <1>2, <1>3, WithoutEffect
<1>5. meta'[j] = record
  BY <1>1, <1>2, <1>3, WithoutEffect
<1>6. size' \in [Jobs -> 0..FolderBytes]
  BY <1>1, <1>2, WithoutEffect, ReserveTyped
<1>7. cancel' \subseteq Known' /\ discard' \subseteq Known' /\ expired' = {}
  BY <1>3, <1>4, <1>5 DEF Known, TypeOK, Submit, InFlight
<1>8. future' \in [Jobs -> {"none", "pending", "running", "cancelled", "finished"}]
  BY <1>1, <1>2 DEF TypeOK
<1>9. FoldersTyped'
  BY <1>4, <1>6, <1>7, <1>8 DEF FoldersTyped
<1>10. ProcessTyped'
  <2>1. pending' \in Seq(Jobs)
    BY <1>1, <1>2, AppendProperties DEF TypeOK
  <2> QED BY <2>1 DEF Submit, TypeOK, ProcessTyped
<1> QED BY <1>9, <1>10 DEF TypeOK, FoldersTyped, ProcessTyped

LEMMA RequestsTyped ==
    ASSUME TypeOK
    PROVE  /\ Reap => TypeOK'
           /\ \A j \in Jobs : Expire(j) \/ Ack(j) => TypeOK'
           /\ \A d \in Deleters, j \in Jobs, discards \in BOOLEAN : Delete(d, j, discards) => TypeOK'
<1>1. ASSUME Reap PROVE TypeOK'
  <2>1. FoldersTyped'
    BY <1>1, RemoveTyped DEF Reap
  <2>2. ProcessTyped'
    BY <1>1 DEF Reap, TypeOK, ProcessTyped
  <2> QED BY <2>1, <2>2 DEF TypeOK, FoldersTyped, ProcessTyped
<1>2. ASSUME NEW j \in Jobs, Expire(j) PROVE TypeOK'
  <2>1. FoldersTyped'
    BY <1>2 DEF Expire, TypeOK, FoldersTyped, Known, memory
  <2>2. ProcessTyped'
    BY <1>2 DEF Expire, TypeOK, ProcessTyped, memory
  <2> QED BY <2>1, <2>2 DEF TypeOK, FoldersTyped, ProcessTyped
<1>3. ASSUME NEW j \in Jobs, Ack(j) PROVE TypeOK'
  <2>1. PICK light \in 0..(size[j] - SourceBytes) :
           /\ size' = [size EXCEPT ![j] = light]
           /\ meta' = [meta EXCEPT ![j].acked = TRUE, ![j].archive = FALSE,
                                   ![j].charge = Retained(light)]
    BY <1>3 DEF Ack
  <2>2. light \in Nat /\ light <= size[j] /\ size[j] \in 0..FolderBytes
    BY <2>1, BytesAssumption DEF TypeOK, FolderBytes
  <2>3. Retained(light) \in Nat
    BY <2>2, BytesAssumption DEF Retained
  <2> DEFINE m == [meta[j] EXCEPT !.acked = TRUE, !.archive = FALSE, !.charge = Retained(light)]
  <2>4. meta' \in [Jobs -> Meta] /\ \A i \in Jobs : meta'[i].status = meta[i].status
    <3>1. meta[j] \in Meta /\ meta \in [Jobs -> Meta]
      BY DEF TypeOK
    <3>2. m \in Meta /\ m.status = meta[j].status
      BY <2>3, <3>1 DEF Meta
    <3>3. meta' = [meta EXCEPT ![j] = m]
      BY <2>1, <3>1
    <3> HIDE DEF m
    <3> QED BY <3>1, <3>2, <3>3
  <2>5. size' \in [Jobs -> 0..FolderBytes]
    BY <2>1, <2>2, ReserveTyped DEF TypeOK
  <2>6. FoldersTyped'
    BY <1>3, <2>4, <2>5 DEF Ack, TypeOK, FoldersTyped, Known, memory
  <2>7. ProcessTyped'
    BY <1>3 DEF Ack, TypeOK, ProcessTyped, memory
  <2> QED BY <2>6, <2>7 DEF TypeOK, FoldersTyped, ProcessTyped
<1>4. ASSUME NEW d \in Deleters, NEW j \in Jobs, NEW discards \in BOOLEAN, Delete(d, j, discards)
      PROVE  TypeOK'
  <2>1. FoldersTyped'
    BY <1>4 DEF Delete, TypeOK, FoldersTyped, Known
  <2>2. ProcessTyped'
    BY <1>4 DEF Delete, TypeOK, ProcessTyped
  <2> QED BY <2>1, <2>2 DEF TypeOK, FoldersTyped, ProcessTyped
<1> QED BY <1>1, <1>2, <1>3, <1>4

\* The folder of a job is in the state its finish writes, the others are not touched.
LEMMA EndTyped ==
    ASSUME TypeOK, NEW j \in Jobs, NEW status \in Terminal,
           meta' = [meta EXCEPT ![j] = Ended(j, status)],
           UNCHANGED <<size, discard, expired>>,
           cancel' \subseteq cancel \cup {j},
           future' \in [Jobs -> {"none", "pending", "running", "cancelled", "finished"}]
    PROVE  FoldersTyped'
<1>1. meta' \in [Jobs -> Meta]
  BY EndedEffect DEF TypeOK
<1>2. \A i \in Jobs : meta'[i].status = IF i = j THEN status ELSE meta[i].status
  BY EndedEffect DEF TypeOK
<1> QED BY <1>1, <1>2 DEF TypeOK, FoldersTyped, Known

LEMMA DeletionTyped ==
    ASSUME TypeOK, DeleteInv, NEW d \in Deleters, Deletion(d)
    PROVE  TypeOK'
<1> DEFINE j == del[d].job
<1>1. ASSUME CancelJob(d) PROVE TypeOK'
  <2>1. j \in Jobs
    BY <1>1 DEF CancelJob, DeleteInv
  <2>2. ProcessTyped'
    <3>1. AtRest \in Requests /\ del[d] \in Requests
      BY DEF AtRest, Requests, TypeOK
    <3>2. [del[d] EXCEPT !.at = "remove"] \in Requests
      BY <3>1 DEF Requests
    <3>3. \E r \in Requests : del' = [del EXCEPT ![d] = r]
      BY <1>1, <3>1, <3>2 DEF CancelJob
    <3>4. del' \in [Deleters -> Requests]
      BY <3>3 DEF TypeOK, Requests
    <3>5. UNCHANGED <<pending, sup, child, crashes>>
      BY <1>1 DEF CancelJob
    <3> QED BY <3>4, <3>5 DEF TypeOK, ProcessTyped, Requests
  <2>3. CASE j \notin Known /\ UNCHANGED <<disk, future>>
    <3>1. FoldersTyped'
      BY <2>3 DEF disk, TypeOK, FoldersTyped, Known
    <3> QED BY <2>2, <3>1 DEF TypeOK, FoldersTyped, ProcessTyped
  <2>4. CASE /\ meta' = [meta EXCEPT ![j] = Ended(j, "cancelled")]
             /\ cancel' = cancel \cup {j}
             /\ future' = [future EXCEPT ![j] = "cancelled"]
             /\ UNCHANGED <<size, discard, expired>>
    <3>1. future' \in [Jobs -> {"none", "pending", "running", "cancelled", "finished"}]
      BY <2>4 DEF TypeOK
    <3> HIDE DEF j
    <3>2. FoldersTyped'
      BY <2>1, <2>4, <3>1, EndTyped DEF Terminal
    <3> QED BY <2>2, <3>2 DEF TypeOK, FoldersTyped, ProcessTyped
  <2>5. CASE /\ meta[j].status \in InFlight
             /\ cancel' = cancel \cup {j}
             /\ UNCHANGED <<meta, size, discard, expired, future>>
    <3>1. FoldersTyped'
      BY <2>1, <2>5 DEF TypeOK, FoldersTyped, Known
    <3> QED BY <2>2, <3>1 DEF TypeOK, FoldersTyped, ProcessTyped
  <2>6. CASE RemoveFolders({j})
    BY <2>2, <2>6, RemoveTyped DEF TypeOK, FoldersTyped, ProcessTyped
  <2> QED BY <1>1, <2>2, <2>3, <2>4, <2>5, <2>6 DEF TypeOK, FoldersTyped, ProcessTyped, CancelJob
<1>2. ASSUME RemoveCancelled(d) PROVE TypeOK'
  <2>1. ProcessTyped'
    BY <1>2 DEF RemoveCancelled, TypeOK, ProcessTyped, AtRest
  <2>2. CASE RemoveFolders({j})
    BY <2>1, <2>2, RemoveTyped DEF TypeOK, FoldersTyped, ProcessTyped
  <2>3. CASE UNCHANGED <<disk, future>>
    <3>1. FoldersTyped'
      BY <2>3 DEF disk, TypeOK, FoldersTyped, Known
    <3> QED BY <2>1, <3>1 DEF TypeOK, FoldersTyped, ProcessTyped
  <2> QED BY <1>2, <2>2, <2>3 DEF RemoveCancelled
<1> QED BY <1>1, <1>2 DEF Deletion

\* Where the supervisor goes, field by field.
LEMMA SupervisorMoves ==
    ASSUME TypeOK
    PROVE  /\ \A at : [sup EXCEPT !.at = at] = [at |-> at, job |-> sup.job, failure |-> sup.failure]
           /\ \A at, failure : [sup EXCEPT !.at = at, !.failure = failure]
                                    = [at |-> at, job |-> sup.job, failure |-> failure]
           /\ sup.failure \in {"none", "cancelled", "failed"}
           /\ sup.job \in Jobs \cup {NoJob}
<1>1. sup = [at |-> sup.at, job |-> sup.job, failure |-> sup.failure]
  BY DEF TypeOK
<1>2. \A at : [sup EXCEPT !.at = at] = [at |-> at, job |-> sup.job, failure |-> sup.failure]
  BY <1>1
<1>3. \A at, failure : [sup EXCEPT !.at = at, !.failure = failure]
                           = [at |-> at, job |-> sup.job, failure |-> failure]
  <2> TAKE at, failure
  <2>1. [sup EXCEPT !.at = at, !.failure = failure] = [[sup EXCEPT !.at = at] EXCEPT !.failure = failure]
    BY <1>1, Zenon
  <2>2. [[at |-> at, job |-> sup.job, failure |-> sup.failure] EXCEPT !.failure = failure]
            = [at |-> at, job |-> sup.job, failure |-> failure]
    OBVIOUS
  <2> QED BY <1>2, <2>1, <2>2, Zenon
<1> QED BY <1>2, <1>3 DEF TypeOK

LEMMA TakeTyped == ASSUME TypeOK, Take PROVE TypeOK'
<1>1. Head(pending) \in Jobs /\ Tail(pending) \in Seq(Jobs)
  BY HeadTailProperties DEF Take, TypeOK
<1>2. FoldersTyped'
  BY <1>1 DEF Take, TypeOK, FoldersTyped, disk, Known
<1>3. ProcessTyped'
  BY <1>1 DEF Take, TypeOK, ProcessTyped
<1> QED BY <1>2, <1>3 DEF TypeOK, FoldersTyped, ProcessTyped

LEMMA LaunchTyped == ASSUME TypeOK, SupervisorInv, ChildInv, Launch PROVE TypeOK'
<1>1. sup.job \in Jobs
  BY BusyJobs DEF Launch
<1>2. FoldersTyped'
  <2>1. CASE UNCHANGED meta
    BY <2>1 DEF Launch, TypeOK, FoldersTyped, Known
  <2>2. CASE meta' = [meta EXCEPT ![sup.job] = Ended(sup.job, "failed")]
    <3>1. /\ UNCHANGED <<size, discard, expired>> /\ cancel' \subseteq cancel \cup {sup.job}
          /\ future' \in [Jobs -> {"none", "pending", "running", "cancelled", "finished"}]
      BY DEF Launch, TypeOK
    <3> QED BY <1>1, <2>2, <3>1, EndTyped DEF Terminal
  <2> QED BY <2>1, <2>2 DEF Launch
<1>3. ProcessTyped'
  <2>1. \E at \in {"settle", "watch", "finally"}, failure \in {"none", "cancelled", "failed"} :
            sup' = [at |-> at, job |-> sup.job, failure |-> failure]
    BY SupervisorMoves DEF Launch, Supervise
  <2>2. UNCHANGED <<pending, del, crashes>>
    BY DEF Launch
  <2>3. child' = child \/ child' = [job |-> sup.job, at |-> "boot", old |-> 0]
    BY DEF Launch
  <2>4. child' \in [job : Jobs \cup {NoJob}, at : Alive \cup {"none", "exited", "crashed"},
                    old : 0..ResultBytes]
    BY <1>1, <2>3, BytesAssumption DEF TypeOK, Alive
  <2> QED BY <1>1, <2>1, <2>2, <2>4 DEF TypeOK, ProcessTyped
<1> QED BY <1>2, <1>3 DEF TypeOK, FoldersTyped, ProcessTyped

LEMMA WatchTyped == ASSUME TypeOK, Watch PROVE TypeOK'
<1>1. FoldersTyped'
  BY DEF Watch, TypeOK, FoldersTyped, disk, Known
<1>2. ProcessTyped'
  <2>1. NoChild \in [job : Jobs \cup {NoJob}, at : Alive \cup {"none", "exited", "crashed"},
                     old : 0..ResultBytes]
    BY BytesAssumption DEF NoChild
  <2> QED BY <2>1 DEF Watch, TypeOK, ProcessTyped
<1> QED BY <1>1, <1>2 DEF TypeOK, FoldersTyped, ProcessTyped

\* What Settle writes is an end.
LEMMA SettleEffect ==
    ASSUME TypeOK, SupervisorInv, ChildInv, Settle
    PROVE  /\ sup.job \in Jobs
           /\ \/ /\ sup.job \in Known
                 /\ \E status \in Terminal :
                       /\ meta' = [meta EXCEPT ![sup.job] = Ended(sup.job, status)]
                       /\ status = "done" => Status(sup.job) = "done"
                 /\ future' = [future EXCEPT ![sup.job] = "finished"]
              \/ sup.job \notin Known /\ UNCHANGED <<meta, future>>
           /\ sup' = [sup EXCEPT !.at = "finally"]
           /\ UNCHANGED <<size, cancel, discard, expired, pending, child, del, crashes>>
<1>1. sup.job \in Jobs
  BY BusyJobs DEF Settle
<1> DEFINE status == IF sup.failure # "none" THEN sup.failure
                     ELSE IF meta[sup.job].status \in Terminal THEN meta[sup.job].status ELSE "failed"
<1>2. status \in Terminal /\ (status = "done" => Status(sup.job) = "done")
  <2>1. sup.failure \in {"none", "cancelled", "failed"}
    BY DEF TypeOK
  <2> QED BY <2>1 DEF Terminal, Status
<1> QED BY <1>1, <1>2 DEF Settle, Supervise

LEMMA SettleTyped == ASSUME TypeOK, SupervisorInv, ChildInv, Settle PROVE TypeOK'
<1>1. FoldersTyped'
  <2>1. CASE UNCHANGED <<meta, future>>
    BY <2>1 DEF Settle, TypeOK, FoldersTyped, Known
  <2>2. CASE /\ \E status \in Terminal : meta' = [meta EXCEPT ![sup.job] = Ended(sup.job, status)]
             /\ future' = [future EXCEPT ![sup.job] = "finished"]
    <3>1. future' \in [Jobs -> {"none", "pending", "running", "cancelled", "finished"}]
      BY <2>2, SettleEffect DEF TypeOK
    <3> QED BY <2>2, <3>1, SettleEffect, EndTyped
  <2> QED BY <2>1, <2>2, SettleEffect
<1>2. ProcessTyped'
  BY SettleEffect DEF TypeOK, ProcessTyped
<1> QED BY <1>1, <1>2 DEF TypeOK, FoldersTyped, ProcessTyped

LEMMA FinallyTyped ==
    ASSUME TypeOK, SupervisorInv, ChildInv, Finally \/ RemoveDiscarded
    PROVE  TypeOK'
<1>1. ASSUME Finally PROVE FoldersTyped'
  BY <1>1 DEF Finally, TypeOK, FoldersTyped, disk, Known
<1>2. ASSUME RemoveDiscarded PROVE FoldersTyped'
  <2>1. CASE RemoveFolders({sup.job})
    BY <2>1, RemoveTyped
  <2>2. CASE UNCHANGED <<disk, future>>
    BY <2>2 DEF disk, TypeOK, FoldersTyped, Known
  <2> QED BY <1>2, <2>1, <2>2 DEF RemoveDiscarded
<1>3. ProcessTyped'
  <2>1. \E at \in {"remove", "dead", "idle"}, job \in Jobs \cup {NoJob},
           failure \in {"none", "cancelled", "failed"} :
               sup' = [at |-> at, job |-> job, failure |-> failure]
    BY SupervisorMoves DEF Finally, RemoveDiscarded, Supervise, Idle
  <2>2. UNCHANGED <<pending, child, del, crashes>>
    BY DEF Finally, RemoveDiscarded
  <2> QED BY <2>1, <2>2 DEF TypeOK, ProcessTyped
<1> QED BY <1>1, <1>2, <1>3 DEF TypeOK, FoldersTyped, ProcessTyped

\* The child writes the state of its job, what is charged for it, and its results.
LEMMA WriteTyped ==
    ASSUME TypeOK, NEW j \in Jobs, NEW m \in Meta, m.status \in InFlight \cup Terminal,
           meta[j].status \in InFlight \cup Terminal, j \notin expired,
           meta' = [meta EXCEPT ![j] = m],
           NEW bytes \in 0..FolderBytes, size' = [size EXCEPT ![j] = bytes],
           UNCHANGED <<cancel, discard, expired, future>>
    PROVE  FoldersTyped'
<1>1. meta' \in [Jobs -> Meta] /\ size' \in [Jobs -> 0..FolderBytes]
  BY DEF TypeOK
<1>2. \A i \in Jobs : meta'[i].status = IF i = j THEN m.status ELSE meta[i].status
  BY DEF TypeOK
<1> QED BY <1>1, <1>2 DEF TypeOK, FoldersTyped, Known

\* Between two steps of a task: its folder, as in Working.
Fills(j, m, bytes, at, old) ==
    /\ SourceBytes + old <= bytes /\ bytes <= SourceBytes + ResultBytes + old
    /\ at # "rewrite" => old = 0
    /\ at = "rewrite" => m.content \in Browser

ChildMoves(j, m, bytes, at, old) ==
    /\ meta' = [meta EXCEPT ![j] = m]
    /\ size' = [size EXCEPT ![j] = bytes]
    /\ child' = [job |-> j, at |-> at, old |-> old]
    /\ m.order = meta[j].order /\ m.content = meta[j].content
    /\ \/ /\ child.at = "boot" /\ at = "compute"
          /\ meta[j].status = "queued" /\ m.status = "processing"
          /\ m.charge = meta[j].charge /\ Fills(j, m, bytes, at, old)
       \/ /\ at = "leaving"
          /\ meta[j].status \in InFlight /\ m.status \in Terminal
          /\ bytes <= SourceBytes + ResultBytes
          /\ m.charge = Retained(bytes) \/ m.charge = meta[j].charge
       \/ /\ child.at \in Executing /\ at \in Executing
          /\ meta[j].status = "processing" /\ m = meta[j]
          /\ Fills(j, m, bytes, at, old)
       \/ /\ (child.at = "leaving" /\ at = "exited") \/ at = "crashed"
          /\ m = meta[j] /\ bytes = size[j]

Places == Alive \cup {"exited", "crashed"}

\* What a step of the child does to its job: it begins it, ends it, writes
\* results or changes nothing.
LEMMA TaskEffect ==
    ASSUME TypeOK, FolderInv, SupervisorInv, ChildInv, Task
    PROVE  /\ child.job \in Jobs /\ child.job = sup.job /\ sup.at = "watch"
           /\ \E m \in Meta, bytes \in 0..FolderBytes, at \in Places, old \in 0..ResultBytes :
                  ChildMoves(child.job, m, bytes, at, old)
           /\ UNCHANGED <<cancel, discard, expired, future, pending, sup, del, crashes>>
<1> DEFINE j == child.job
           Moves == \E m \in Meta, bytes \in 0..FolderBytes, at \in Places, old \in 0..ResultBytes :
                        ChildMoves(j, m, bytes, at, old)
<1>1. child.at # "none"
  BY DEF Task, Begin, Grow, Writes, Executing, Rewrite, Replace, Decide, Commit, Fail, Exit, ChildAt, Alive
<1>2. j \in Jobs /\ j = sup.job /\ sup.at = "watch"
  BY <1>1, BusyJobs
<1>3. /\ meta \in [Jobs -> Meta] /\ meta[j] \in Meta
      /\ size \in [Jobs -> 0..FolderBytes] /\ size[j] \in 0..FolderBytes
      /\ child.old \in 0..ResultBytes /\ 0 \in 0..ResultBytes
      /\ child = [job |-> j, at |-> child.at, old |-> child.old]
  BY <1>2, BytesAssumption DEF TypeOK
<1>4. UNCHANGED <<cancel, discard, expired, future, pending, sup, del, crashes>>
  BY DEF Task, Begin, Grow, Rewrite, Replace, Decide, Commit, Fail, Exit, ChildAt
<1>5. \A at : ChildGoes(at) => child' = [job |-> j, at |-> at, old |-> child.old]
  BY <1>3 DEF ChildGoes
<1>6. meta = [meta EXCEPT ![j] = meta[j]] /\ size = [size EXCEPT ![j] = size[j]]
  BY <1>2, <1>3
<1>7. \A at : at \in {"compute", "archive", "rewrite", "commit"} => at \in Executing /\ at \in Places
  BY DEF Executing, Places, Alive
<1>8. /\ size[j] \in Int /\ child.old \in Int /\ SourceBytes \in Nat /\ ResultBytes \in Nat
      /\ FolderBytes = SourceBytes + ResultBytes + ResultBytes
      /\ child.old <= ResultBytes /\ 0 <= child.old
  BY <1>3, BytesAssumption DEF FolderBytes
<1>9. child.at \in Executing =>
         /\ meta[j].status = "processing"
         /\ SourceBytes + child.old <= size[j] /\ size[j] <= SourceBytes + ResultBytes + child.old
         /\ child.at # "rewrite" => child.old = 0
         /\ child.at = "rewrite" => meta[j].content \in Browser
  BY DEF ChildInv, Working, Status
<1>10. child.at = "boot" => meta[j].status = "queued" /\ size[j] = SourceBytes /\ child.old = 0
  BY <1>2 DEF ChildInv, FolderInv, Status
<1>11. \A at, old : [child EXCEPT !.at = at, !.old = old] = [job |-> j, at |-> at, old |-> old]
  <2> TAKE at, old
  <2>1. [child EXCEPT !.at = at] = [job |-> j, at |-> at, old |-> child.old]
    BY <1>3
  <2>2. [child EXCEPT !.at = at, !.old = old] = [[child EXCEPT !.at = at] EXCEPT !.old = old]
    BY <1>3, Zenon
  <2>3. [[job |-> j, at |-> at, old |-> child.old] EXCEPT !.old = old]
            = [job |-> j, at |-> at, old |-> old]
    OBVIOUS
  <2> QED BY <2>1, <2>2, <2>3, Zenon
\* The results of a task in progress.
<1>12. ASSUME NEW bytes, SourceBytes + child'.old <= bytes, bytes \in Int,
              bytes <= SourceBytes + ResultBytes + child'.old,
              size' = [size EXCEPT ![j] = bytes], UNCHANGED meta,
              NEW at \in Executing, NEW old \in 0..ResultBytes, child.at \in Executing,
              child' = [job |-> j, at |-> at, old |-> old],
              at # "rewrite" => old = 0, at = "rewrite" => meta[j].content \in Browser
       PROVE  Moves
  <2>1. child'.old = old
    BY <1>12
  <2>2. Fills(j, meta[j], bytes, at, old)
    BY <1>12, <2>1 DEF Fills
  <2>3. ChildMoves(j, meta[j], bytes, at, old)
    BY <1>6, <1>9, <1>12, <2>2 DEF ChildMoves
  <2>4. old \in Int /\ 0 <= old /\ old <= ResultBytes
    BY <1>12, BytesAssumption
  <2>5. bytes \in 0..FolderBytes
    <3>1. 0 <= bytes /\ bytes <= FolderBytes
      BY <1>8, <1>12, <2>1, <2>4
    <3> QED BY <1>8, <1>12, <3>1
  <2>6. at \in Places
    BY <1>12 DEF Executing, Places, Alive
  <2> QED BY <1>3, <1>12, <2>3, <2>5, <2>6
\* The end of a task.
<1>13. ASSUME NEW bytes \in 0..FolderBytes, bytes <= SourceBytes + ResultBytes, NEW m \in Meta,
              meta' = [meta EXCEPT ![j] = m], size' = [size EXCEPT ![j] = bytes],
              child' = [job |-> j, at |-> "leaving", old |-> 0], child.at \in Executing \cup {"boot"},
              m.order = meta[j].order, m.content = meta[j].content, m.status \in Terminal,
              m.charge = Retained(bytes) \/ m.charge = meta[j].charge
       PROVE  Moves
  <2>1. meta[j].status \in InFlight
    BY <1>9, <1>10, <1>13 DEF InFlight
  <2>2. ChildMoves(j, m, bytes, "leaving", 0)
    BY <1>13, <2>1 DEF ChildMoves
  <2> QED BY <1>3, <1>13, <2>2 DEF Alive, Places
\* The marker is found.
<1>14. ASSUME Write(j, "cancelled"), ChildGoes("leaving"), UNCHANGED size,
              child.at \in {"boot", "compute", "archive"}
       PROVE  Moves
  <2> DEFINE m == [meta[j] EXCEPT !.status = "cancelled"]
  <2>1. /\ m \in Meta /\ m.status = "cancelled" /\ m.order = meta[j].order /\ m.charge = meta[j].charge
        /\ m.content = meta[j].content
    BY <1>3 DEF Meta, InFlight, Terminal
  <2>2. meta' = [meta EXCEPT ![j] = m]
    BY <1>2, <1>3, <1>14 DEF Write
  <2>3. child.old = 0 /\ size[j] <= SourceBytes + ResultBytes
    BY <1>7, <1>8, <1>9, <1>10, <1>14
  <2> HIDE DEF m
  <2> QED BY <1>3, <1>5, <1>6, <1>7, <1>13, <1>14, <2>1, <2>2, <2>3 DEF Terminal
<1>15. ASSUME Begin PROVE Moves
  <2>1. child.at = "boot" /\ UNCHANGED size
    BY <1>15 DEF Begin, ChildAt
  <2>2. CASE Write(j, "cancelled") /\ ChildGoes("leaving")
    BY <1>14, <2>1, <2>2
  <2>3. CASE Write(j, "processing") /\ ChildGoes("compute")
    <3> DEFINE m == [meta[j] EXCEPT !.status = "processing"]
    <3>1. /\ m \in Meta /\ m.status = "processing" /\ m.order = meta[j].order /\ m.charge = meta[j].charge
          /\ m.content = meta[j].content
      BY <1>3 DEF Meta, InFlight, Terminal
    <3>2. meta' = [meta EXCEPT ![j] = m]
      BY <1>2, <1>3, <2>3 DEF Write
    <3> HIDE DEF m
    <3>3. Fills(j, m, size[j], "compute", 0)
      BY <1>8, <1>10, <2>1 DEF Fills
    <3>4. ChildMoves(j, m, size[j], "compute", 0)
      BY <1>5, <1>6, <1>10, <2>1, <2>3, <3>1, <3>2, <3>3 DEF ChildMoves
    <3> QED BY <1>3, <1>7, <3>1, <3>4
  <2> QED BY <1>15, <2>2, <2>3 DEF Begin
<1>16. ASSUME Grow PROVE Moves
  <2>1. child.at \in Executing /\ size[j] < SourceBytes + ResultBytes + child.old
    BY <1>16 DEF Grow, Writes
  <2>2. size' = [size EXCEPT ![j] = size[j] + 1] /\ UNCHANGED <<meta, child>>
    BY <1>16 DEF Grow
  <2>3. /\ SourceBytes + child'.old <= size[j] + 1 /\ size[j] + 1 \in Int
        /\ size[j] + 1 <= SourceBytes + ResultBytes + child'.old
    BY <1>8, <1>9, <2>1, <2>2
  <2>4. child' = [job |-> j, at |-> child.at, old |-> child.old]
    BY <1>3, <2>2
  <2> QED BY <1>3, <1>9, <1>12, <2>1, <2>2, <2>3, <2>4
<1>17. ASSUME Rewrite PROVE Moves
  <2>0. PICK old \in 0..(size[j] - SourceBytes) :
           /\ child' = [child EXCEPT !.at = "rewrite", !.old = old]
           /\ \E bytes \in (SourceBytes + old)..size[j] : size' = [size EXCEPT ![j] = bytes]
    BY <1>17 DEF Rewrite
  <2>1. PICK bytes \in (SourceBytes + old)..size[j] : size' = [size EXCEPT ![j] = bytes]
    BY <2>0
  <2>2. child.at = "compute" /\ meta[j].content \in Browser /\ UNCHANGED meta
    BY <1>17 DEF Rewrite, ChildAt
  <2>3. child.at \in Executing /\ child.old = 0 /\ size[j] <= SourceBytes + ResultBytes
    BY <1>7, <1>8, <1>9, <2>2
  <2>4. /\ old \in Int /\ bytes \in Int /\ old \in 0..ResultBytes
        /\ SourceBytes + old <= bytes /\ bytes <= SourceBytes + ResultBytes + old
    BY <1>8, <2>0, <2>1, <2>3
  <2>5. child' = [job |-> j, at |-> "rewrite", old |-> old]
    BY <1>11, <2>0, Zenon
  <2>6. child'.old = old /\ "rewrite" \in Executing
    BY <1>7, <2>5
  <2> QED BY <1>12, <2>1, <2>2, <2>3, <2>4, <2>5, <2>6
<1>18. ASSUME Replace PROVE Moves
  <2>1. child.at = "rewrite" /\ UNCHANGED meta /\ size' = [size EXCEPT ![j] = size[j] - child.old]
    BY <1>18 DEF Replace, ChildAt
  <2>2. child' = [job |-> j, at |-> "archive", old |-> 0]
    BY <1>18, <1>11, Zenon DEF Replace
  <2>3. child.at \in Executing /\ "archive" \in Executing
    BY <1>7, <2>1
  <2>4. /\ size[j] - child.old \in Int /\ child'.old = 0
        /\ SourceBytes + 0 <= size[j] - child.old
        /\ size[j] - child.old <= SourceBytes + ResultBytes + 0
    BY <1>8, <1>9, <2>2, <2>3
  <2> QED BY <1>3, <1>12, <2>1, <2>2, <2>3, <2>4
<1>19. ASSUME Decide PROVE Moves
  <2>1. child.at \in {"compute", "archive"} /\ UNCHANGED size
    BY <1>19 DEF Decide
  <2>2. CASE Write(j, "cancelled") /\ ChildGoes("leaving")
    BY <1>14, <2>1, <2>2
  <2>3. CASE ChildGoes("commit") /\ UNCHANGED meta
    <3>1. child.at \in Executing /\ "commit" \in Executing /\ child.old = 0
      BY <1>7, <1>9, <2>1
    <3>2. child' = [job |-> j, at |-> "commit", old |-> 0] /\ child'.old = 0
      BY <1>5, <2>3, <3>1
    <3>3. SourceBytes + child'.old <= size[j] /\ size[j] <= SourceBytes + ResultBytes + child'.old
      BY <1>9, <3>1, <3>2
    <3> QED BY <1>3, <1>6, <1>8, <1>12, <2>1, <2>3, <3>1, <3>2, <3>3
  <2> QED BY <1>19, <2>2, <2>3 DEF Decide
<1>20. ASSUME Commit PROVE Moves
  <2> DEFINE m == [meta[j] EXCEPT !.status = "done", !.archive = Recognized(j), !.charge = Retained(size[j])]
  <2>1. child.at = "commit" /\ UNCHANGED size /\ ChildGoes("leaving")
    BY <1>20 DEF Commit, ChildAt
  <2>2. Retained(size[j]) \in Nat /\ Recognized(j) \in BOOLEAN
    BY <1>3, <1>8, BytesAssumption DEF Retained, Recognized
  <2>3. /\ m \in Meta /\ m.status = "done" /\ m.order = meta[j].order /\ m.charge = Retained(size[j])
        /\ m.content = meta[j].content
    BY <1>3, <2>2 DEF Meta, InFlight, Terminal
  <2>4. meta' = [meta EXCEPT ![j] = m]
    BY <1>2, <1>3, <1>20 DEF Commit
  <2> HIDE DEF m
  <2>5. child.at \in Executing /\ child.old = 0 /\ size[j] <= SourceBytes + ResultBytes
    BY <1>7, <1>8, <1>9, <2>1
  <2> QED BY <1>3, <1>5, <1>6, <1>13, <2>1, <2>3, <2>4, <2>5 DEF Terminal
<1>21. ASSUME Fail PROVE Moves
  <2> DEFINE left == IF Recognized(j) THEN SourceBytes ELSE size[j]
             status == IF j \in cancel THEN "cancelled" ELSE "failed"
             m == [meta[j] EXCEPT !.status = status, !.charge = Retained(left)]
  <2>1. child.at \in Executing
    BY <1>21 DEF Fail
  <2>2. left \in 0..FolderBytes /\ left <= SourceBytes + ResultBytes
    <3>1. ~Recognized(j) => child.old = 0
      BY <1>9, <2>1, JobsAssumption DEF Recognized
    <3>2. ~Recognized(j) => size[j] <= SourceBytes + ResultBytes
      BY <1>8, <1>9, <2>1, <3>1
    <3>3. SourceBytes \in 0..FolderBytes /\ SourceBytes <= SourceBytes + ResultBytes
      BY ReserveTyped, BytesAssumption
    <3> QED BY <1>3, <3>2, <3>3
  <2>3. status \in Terminal
    BY DEF Terminal
  <2> HIDE DEF left, status
  <2>4. Retained(left) \in Nat
    BY <1>8, <2>2, BytesAssumption DEF Retained
  <2>5. /\ m \in Meta /\ m.status = status /\ m.order = meta[j].order /\ m.charge = Retained(left)
        /\ m.content = meta[j].content
    BY <1>3, <2>3, <2>4 DEF Meta
  <2>6. meta' = [meta EXCEPT ![j] = m] /\ size' = [size EXCEPT ![j] = left]
    BY <1>2, <1>3, <1>21 DEF Fail, left, status
  <2>7. child' = [job |-> j, at |-> "leaving", old |-> 0]
    BY <1>21, <1>11, Zenon DEF Fail
  <2> HIDE DEF m
  <2> QED BY <1>13, <2>1, <2>2, <2>3, <2>5, <2>6, <2>7
<1>22. ASSUME Exit PROVE Moves
  <2>1. PICK at \in {"exited", "crashed"} :
           ChildGoes(at) /\ ((at = "exited" /\ child.at = "leaving") \/ at = "crashed")
    BY <1>22 DEF Exit
  <2>2. ChildMoves(j, meta[j], size[j], at, child.old)
    BY <1>5, <1>6, <1>22, <2>1 DEF ChildMoves, Exit
  <2> QED BY <1>3, <2>1, <2>2 DEF Places
<1> QED BY <1>2, <1>4, <1>15, <1>16, <1>17, <1>18, <1>19, <1>20, <1>21, <1>22 DEF Task

LEMMA TaskTyped == ASSUME TypeOK, FolderInv, SupervisorInv, ChildInv, Task PROVE TypeOK'
<1> DEFINE j == child.job
<1>1. j \in Jobs /\ j = sup.job /\ j \notin expired
  BY TaskEffect DEF SupervisorInv
<1>2. PICK m \in Meta, bytes \in 0..FolderBytes,
           at \in Places, old \in 0..ResultBytes : ChildMoves(j, m, bytes, at, old)
  BY TaskEffect
<1>3. meta' \in [Jobs -> Meta] /\ size' \in [Jobs -> 0..FolderBytes]
  BY <1>1, <1>2 DEF ChildMoves, TypeOK
<1>4. \A i \in Jobs : i # j => meta'[i] = meta[i]
  BY <1>1, <1>2 DEF ChildMoves, TypeOK
<1>5. meta'[j] = m /\ (m = meta[j] \/ m.status \in InFlight \cup Terminal)
  BY <1>1, <1>2 DEF ChildMoves, TypeOK, InFlight
<1>6. UNCHANGED <<cancel, discard, expired, future, pending, sup, del, crashes>>
  BY TaskEffect
<1>7. cancel \subseteq Known' /\ discard \subseteq Known'
  BY <1>4, <1>5 DEF Known, TypeOK
<1>8. \A i \in expired : meta'[i].status \in Terminal \cup {"bare"}
  BY <1>1, <1>4 DEF TypeOK
<1>9. FoldersTyped'
  BY <1>3, <1>6, <1>7, <1>8 DEF FoldersTyped, TypeOK
<1>10. child' = [job |-> j, at |-> at, old |-> old]
  BY <1>2 DEF ChildMoves
<1>11. ProcessTyped'
  BY <1>1, <1>2, <1>6, <1>10 DEF ProcessTyped, TypeOK, Places
<1> QED BY <1>9, <1>11 DEF TypeOK, FoldersTyped, ProcessTyped

\* A kill loses what is in memory; an upload may leave a folder.
LEMMA CrashEffect ==
    ASSUME TypeOK, Crash
    PROVE  /\ sup' = [at |-> "down", job |-> NoJob, failure |-> "none"] /\ child' = NoChild
           /\ future' = [j \in Jobs |-> "none"] /\ pending' = <<>>
           /\ del' = [d \in Deleters |-> AtRest]
           /\ crashes' \in Nat
           /\ meta' \in [Jobs -> Meta] /\ size' \in [Jobs -> 0..FolderBytes]
           /\ expired' \subseteq expired /\ cancel' \subseteq cancel /\ discard' \subseteq discard
           /\ \/ UNCHANGED disk
              \/ /\ Fits /\ expired' = {}
                 /\ cancel' = cancel \ expired /\ discard' = discard \ expired
                 /\ \E j \in Jobs :
                       /\ meta[j] = NoMeta
                       /\ meta'[j].status = "bare" /\ meta'[j].order = 0
                       /\ size'[j] \in 0..SourceBytes
                       /\ \A i \in Jobs \ {j} :
                             /\ meta'[i] = Without(expired)[i]
                             /\ size'[i] = Emptied(expired)[i]
<1>1. /\ sup' = [at |-> "down", job |-> NoJob, failure |-> "none"] /\ child' = NoChild
      /\ future' = [j \in Jobs |-> "none"] /\ pending' = <<>>
      /\ del' = [d \in Deleters |-> AtRest]
      /\ crashes' \in Nat
  BY DEF Crash, Idle, TypeOK
<1>2. CASE UNCHANGED disk
  BY <1>1, <1>2 DEF disk, TypeOK
<1>3. CASE ~ UNCHANGED disk
  <2>1. PICK j \in Fresh, bytes \in 0..SourceBytes :
          /\ meta' = [Without(expired) EXCEPT ![j].status = "bare"]
          /\ size' = [Emptied(expired) EXCEPT ![j] = bytes]
    BY <1>3 DEF Crash
  <2>2. /\ cancel' = cancel \ expired /\ discard' = discard \ expired
        /\ expired' = {} /\ Fits
    BY <1>3 DEF Crash
  <2>3. j \in Jobs /\ meta[j] = NoMeta
    BY DEF Fresh
  <2> DEFINE m == [Without(expired)[j] EXCEPT !.status = "bare"]
  <2>4. m \in Meta /\ m.status = "bare" /\ m.order = Without(expired)[j].order
    BY <2>3, WithoutEffect DEF Meta
  <2>5. m.order = 0
    BY <2>3, <2>4 DEF Without, NoMeta
  <2>6. meta' = [Without(expired) EXCEPT ![j] = m]
    BY <2>1, <2>3
  <2> HIDE DEF m
  <2>7. /\ meta' \in [Jobs -> Meta] /\ meta'[j] = m
        /\ \A i \in Jobs \ {j} : meta'[i] = Without(expired)[i]
    BY <2>3, <2>4, <2>6, WithoutEffect
  <2>8. /\ size' \in [Jobs -> 0..FolderBytes] /\ size'[j] = bytes
        /\ \A i \in Jobs \ {j} : size'[i] = Emptied(expired)[i]
    BY <2>1, <2>3, WithoutEffect, ReserveTyped
  <2> QED BY <1>1, <2>2, <2>3, <2>4, <2>5, <2>7, <2>8
<1> QED BY <1>2, <1>3

LEMMA CrashTyped == ASSUME TypeOK, Crash PROVE TypeOK'
<1>1. \A j \in expired : meta[j].status \in Terminal \cup {"bare"}
  BY DEF TypeOK
<1>2. cancel' \subseteq Known' /\ discard' \subseteq Known'
  <2>1. CASE UNCHANGED disk
    BY <2>1 DEF disk, TypeOK, Known
  <2>2. CASE ~ UNCHANGED disk
    <3>1. PICK j \in Jobs :
             /\ cancel' = cancel \ expired /\ discard' = discard \ expired
             /\ meta[j] = NoMeta
             /\ \A i \in Jobs \ {j} : meta'[i] = Without(expired)[i]
      BY <2>2, CrashEffect
    <3>2. j \notin Known
      BY <3>1 DEF Known, NoMeta, InFlight, Terminal
    <3>3. \A i \in Known \ expired : i \in Jobs \ {j} /\ meta'[i] = meta[i]
      BY <3>1, <3>2, WithoutEffect DEF Known
    <3>4. Known \ expired \subseteq Known'
      BY <3>3 DEF Known
    <3> QED BY <3>1, <3>4 DEF TypeOK
  <2> QED BY <2>1, <2>2
<1>3. expired' \subseteq {j \in Jobs : meta'[j].status \in Terminal \cup {"bare"}}
  <2>1. CASE UNCHANGED disk
    BY <2>1 DEF disk, TypeOK
  <2>2. CASE ~ UNCHANGED disk
    BY <2>2, CrashEffect
  <2> QED BY <2>1, <2>2
<1>4. FoldersTyped'
  BY <1>2, <1>3, CrashEffect DEF FoldersTyped
<1>5. ProcessTyped'
  <2>1. pending' \in Seq(Jobs)
    BY CrashEffect, EmptySeq
  <2>2. del' \in [Deleters -> [at : {"idle", "cancel", "remove"}, job : Jobs \cup {NoJob},
                               discards : BOOLEAN]]
    <3>1. AtRest \in Requests
      BY DEF AtRest, Requests
    <3> QED BY <3>1, CrashEffect DEF Requests
  <2>3. /\ sup' = [at |-> "down", job |-> NoJob, failure |-> "none"]
        /\ child' = [job |-> NoJob, at |-> "none", old |-> 0] /\ crashes' \in Nat
    BY CrashEffect DEF NoChild
  <2>4. 0 \in 0..ResultBytes
    BY BytesAssumption
  <2> QED BY <2>4, <2>1, <2>2, <2>3 DEF ProcessTyped
<1> QED BY <1>4, <1>5 DEF TypeOK, FoldersTyped, ProcessTyped

\* A strict order enumerates a set without gaps: every waiting job is queued.
LEMMA InOrderCoversAll ==
    ASSUME NEW W, IsFiniteSet(W), NEW q \in [1..Cardinality(W) -> W], NEW place,
           \A j \in W : place[j] \in Nat,
           \A i, k \in 1..Cardinality(W) : i < k => place[q[i]] < place[q[k]]
    PROVE  /\ q \in Seq(W)
           /\ \A j \in W : \E i \in DOMAIN q : q[i] = j
<1> DEFINE n == Cardinality(W)
<1>1. n \in Nat
  BY FS_CardinalityType
<1>2. q \in Seq(W)
  BY <1>1, SeqDef
<1>3. \A i, k \in 1..n : q[i] = q[k] => i = k
  <2> SUFFICES ASSUME NEW i \in 1..n, NEW k \in 1..n, q[i] = q[k], i # k PROVE FALSE
    OBVIOUS
  <2>1. i \in Int /\ k \in Int /\ place[q[i]] \in Nat
    BY <1>1
  <2>2. i < k \/ k < i
    BY <2>1
  <2> QED BY <2>1, <2>2
<1>4. q \in Injection(1..n, W)
  BY <1>3 DEF Injection, IsInjective
<1>5. Cardinality(1..n) = n
  BY <1>1, FS_Interval
<1>6. q \in Surjection(1..n, W)
  BY <1>4, <1>5, FS_Injection
<1> QED BY <1>2, <1>6 DEF Surjection

\* What a restart makes of every folder.
LEMMA RestartEffect ==
    ASSUME TypeOK, Restart
    PROVE  /\ sup' = [at |-> "idle", job |-> NoJob, failure |-> "none"]
           /\ ~Up /\ UNCHANGED <<child, del, crashes>>
           /\ meta' \in [Jobs -> Meta]
           /\ size' = Emptied(expired) /\ cancel' = cancel \ expired
           /\ discard' = discard \ expired /\ expired' = {}
           /\ \A j \in Jobs :
                 /\ meta'[j].order = meta[j].order
                 /\ j \notin expired => meta'[j].content = meta[j].content
                 /\ j \in expired => meta'[j].status = "none"
                 /\ j \notin expired /\ meta[j].status \in Terminal =>
                       meta'[j].status = meta[j].status /\ meta'[j].charge = Retained(size[j])
                 /\ j \notin expired /\ meta[j].status = "processing" =>
                       meta'[j].status = "failed" /\ meta'[j].charge = Retained(size[j])
                 /\ j \notin expired /\ meta[j].status \notin Terminal \cup {"processing"} =>
                       meta'[j] = meta[j]
                 /\ future'[j] = IF meta'[j].status = "queued" THEN "pending" ELSE "none"
           /\ pending' \in Seq(Jobs)
           /\ InOrder(pending, meta)'
           /\ \A i \in DOMAIN pending' : meta'[pending'[i]].status = "queued"
           /\ \A j \in Jobs : meta'[j].status = "queued" =>
                 \E i \in DOMAIN pending' : pending'[i] = j
           /\ future' = [j \in Jobs |-> future'[j]]
<1>1. /\ meta' = [j \in Jobs |-> IF j \in expired THEN Without(expired)[j] ELSE Restarted(j)]
      /\ future' = [j \in Jobs |-> IF j \in Dispatched(meta') THEN "pending" ELSE "none"]
      /\ \E q \in [1..Cardinality(Dispatched(meta')) -> Dispatched(meta')] :
             InOrder(q, meta') /\ pending' = q
      /\ size' = Emptied(expired) /\ cancel' = cancel \ expired
      /\ discard' = discard \ expired /\ expired' = {}
      /\ sup' = Idle /\ ~Up /\ UNCHANGED <<child, del, crashes>>
  BY Zenon DEF Restart
<1>2. Dispatched(meta') = {j \in Jobs : meta'[j].status = "queued"}
  BY DEF Dispatched, Waiting
<1>3. \A j \in Jobs : meta[j] \in Meta
  BY DEF TypeOK
<1>4. ASSUME NEW j \in Jobs
      PROVE  /\ Restarted(j) \in Meta
             /\ Restarted(j).order = meta[j].order /\ Restarted(j).content = meta[j].content
             /\ meta[j].status \in Terminal =>
                   Restarted(j).status = meta[j].status /\ Restarted(j).charge = Retained(size[j])
             /\ meta[j].status = "processing" =>
                   Restarted(j).status = "failed" /\ Restarted(j).charge = Retained(size[j])
             /\ meta[j].status \notin Terminal \cup {"processing"} => Restarted(j) = meta[j]
  <2>1. CASE meta[j].status \in Terminal
    <3>1. Restarted(j) = Ended(j, meta[j].status)
      BY <2>1 DEF Restarted
    <3> QED BY <1>3, <2>1, <3>1, EndedEffect, EndedContent DEF Terminal
  <2>2. CASE meta[j].status = "processing"
    <3>1. Restarted(j) = Ended(j, "failed")
      BY <2>2 DEF Restarted, Terminal
    <3> QED BY <1>3, <2>2, <3>1, EndedEffect, EndedContent DEF Terminal
  <2>3. CASE meta[j].status \notin Terminal \cup {"processing"}
    <3>1. Restarted(j) = meta[j]
      BY <2>3 DEF Restarted
    <3> QED BY <1>3, <2>3, <3>1
  <2> QED BY <2>1, <2>2, <2>3
<1>5. meta' \in [Jobs -> Meta]
  BY <1>1, <1>4, WithoutEffect
<1>6. \A j \in Jobs : meta'[j] = IF j \in expired THEN Without(expired)[j] ELSE Restarted(j)
  BY <1>1
<1>7. PICK q \in [1..Cardinality(Dispatched(meta')) -> Dispatched(meta')] :
         InOrder(q, meta') /\ pending' = q
  BY <1>1
<1>8. /\ q \in Seq(Dispatched(meta'))
      /\ \A j \in Dispatched(meta') : \E i \in DOMAIN q : q[i] = j
  <2> DEFINE W == Dispatched(meta')
             place == [j \in Jobs |-> meta'[j].order]
  <2>1. IsFiniteSet(W)
    BY <1>2, FS_Subset, JobsAssumption
  <2>2. \A j \in W : place[j] \in Nat
    BY <1>2, <1>5 DEF Meta
  <2>3. \A i \in 1..Cardinality(W) : q[i] \in Jobs
    BY <1>2
  <2>4. \A i, k \in 1..Cardinality(W) : i < k => place[q[i]] < place[q[k]]
    BY <1>7, <2>3 DEF InOrder
  <2>5. q \in [1..Cardinality(W) -> W]
    OBVIOUS
  <2> HIDE DEF W, place
  <2>6. q \in Seq(W) /\ \A j \in W : \E i \in DOMAIN q : q[i] = j
    BY <2>1, <2>2, <2>4, <2>5, InOrderCoversAll
  <2> QED BY <2>6 DEF W
<1>9. /\ pending' \in Seq(Jobs)
      /\ \A i \in DOMAIN pending' : meta'[pending'[i]].status = "queued"
  BY <1>2, <1>7, <1>8, ElementOfSeq, SeqMonotonic
<1>10. InOrder(pending, meta)'
  BY <1>7 DEF InOrder
<1>11. \A j \in Jobs : meta'[j].status = "queued" => \E i \in DOMAIN pending' : pending'[i] = j
  BY <1>2, <1>7, <1>8
<1>12. \A j \in Jobs : future'[j] = IF meta'[j].status = "queued" THEN "pending" ELSE "none"
  BY <1>1, <1>2
<1>13. \A j \in Jobs : j \in expired => meta'[j].status = "none" /\ meta'[j].order = meta[j].order
  BY <1>6, WithoutEffect
<1>14. future' = [j \in Jobs |-> future'[j]]
  BY <1>1
<1> QED BY <1>1, <1>4, <1>5, <1>6, <1>9, <1>10, <1>11, <1>12, <1>13, <1>14 DEF Idle

LEMMA RestartTyped == ASSUME TypeOK, Restart PROVE TypeOK'
<1>1. size' \in [Jobs -> 0..FolderBytes]
  BY RestartEffect, WithoutEffect
<1>2. cancel' \subseteq Known' /\ discard' \subseteq Known'
  <2>1. \A j \in Jobs : j \in Known /\ j \notin expired => j \in Known'
    <3> SUFFICES ASSUME NEW j \in Jobs, j \in Known, j \notin expired PROVE j \in Known'
      OBVIOUS
    <3>1. meta[j].status \in Terminal \/ meta[j].status = "processing" \/ meta[j].status = "queued"
      BY DEF Known, InFlight
    <3> QED BY <3>1, RestartEffect DEF Known, InFlight, Terminal
  <2> QED BY <2>1, RestartEffect DEF TypeOK, Known
<1>3. future' \in [Jobs -> {"none", "pending", "running", "cancelled", "finished"}]
  BY RestartEffect
<1>4. FoldersTyped'
  BY <1>1, <1>2, <1>3, RestartEffect DEF FoldersTyped
<1>5. ProcessTyped'
  BY RestartEffect DEF ProcessTyped, TypeOK
<1> QED BY <1>4, <1>5 DEF TypeOK, FoldersTyped, ProcessTyped

LEMMA NextTypeOK ==
    ASSUME TypeOK, FolderInv, SupervisorInv, ChildInv, DeleteInv, [Next]_vars
    PROVE  TypeOK'
<1>1. CASE UNCHANGED vars
  <2>1. FoldersTyped'
    BY <1>1 DEF vars, disk, memory, TypeOK, FoldersTyped, Known
  <2>2. ProcessTyped'
    BY <1>1 DEF vars, disk, memory, TypeOK, ProcessTyped
  <2> QED BY <2>1, <2>2 DEF TypeOK, FoldersTyped, ProcessTyped
<1>2. ASSUME NEW content \in Contents, NEW key \in Contents \cup Keys, Submit(content, key)
      PROVE  TypeOK'
  BY <1>2, SubmitTyped
<1>3. ASSUME NEW d \in Deleters, Deletion(d) PROVE TypeOK'
  BY <1>3, DeletionTyped
<1>4. ASSUME Supervisor PROVE TypeOK'
  BY <1>4, TakeTyped, LaunchTyped, WatchTyped, SettleTyped, FinallyTyped DEF Supervisor
<1> QED BY <1>1, <1>2, <1>3, <1>4, RequestsTyped, TaskTyped, CrashTyped, RestartTyped DEF Next

-----------------------------------------------------------------------------
(* What a step does to a folder                                            *)

LEMMA Numbers ==
    ASSUME TypeOK
    PROVE  \A j \in Jobs :
               /\ meta[j].order \in Nat /\ meta[j].charge \in Nat
               /\ size[j] \in Nat /\ Retained(size[j]) \in Nat
               /\ Status(j) \in {"none", "bare", "queued", "processing", "done", "failed", "cancelled"}
<1> SUFFICES ASSUME NEW j \in Jobs
             PROVE  /\ meta[j].order \in Nat /\ meta[j].charge \in Nat
                    /\ size[j] \in Nat /\ Retained(size[j]) \in Nat
                    /\ Status(j) \in {"none", "bare", "queued", "processing", "done", "failed", "cancelled"}
  OBVIOUS
<1>1. meta[j] \in Meta /\ size[j] \in 0..FolderBytes
  BY DEF TypeOK
<1>2. size[j] \in Nat
  BY <1>1, ReserveTyped
<1>3. Retained(size[j]) \in Nat
  BY <1>2, BytesAssumption DEF Retained
<1> QED BY <1>1, <1>2, <1>3, MetaFields DEF Status

Kept(j) == meta'[j] = meta[j] /\ size'[j] = size[j]

\* A job ends, or an end is written once more; only the supervisor changes one.
Ends(j) ==
    /\ Status(j) \in InFlight \cup Terminal /\ Status(j)' \in Terminal
    /\ Status(j) \in Terminal => Status(j)' = Status(j) \/ sup.job = j
    /\ Retained(size[j])' <= meta'[j].charge /\ Capped(meta'[j].charge) <= Capped(meta[j].charge)
    /\ Bounded(j)'

Goes(j) == Status(j) \in Terminal \cup {"bare"} /\ Status(j)' = "none" /\ size'[j] = 0

\* The child begins the job, or writes results; no other folder changes.
Runs(j) ==
    /\ sup.job = j /\ sup.at = "watch"
    /\ Status(j) \in InFlight /\ Status(j)' = "processing"
    /\ meta'[j].charge = meta[j].charge /\ Bounded(j)'
    /\ \A i \in Jobs : i # j => meta'[i] = meta[i]

FolderSteps ==
    \A j \in Jobs : /\ meta'[j].order = meta[j].order
                    /\ Kept(j) \/ Ends(j) \/ Goes(j) \/ Runs(j)

\* Bytes are charged up to the reserve; a job in flight is charged all of it.
LEMMA CappedBytes ==
    /\ \A n \in Nat : Capped(n) \in Nat /\ Capped(n) <= Reserve /\ Capped(n) <= n
    /\ Capped(Reserve) = Reserve
    /\ \A m, n \in Nat : m <= n => Capped(m) <= Capped(n)
BY ReserveTyped DEF Capped

LEMMA Unchanged == ASSUME UNCHANGED <<meta, size>> PROVE FolderSteps
BY DEF FolderSteps, Kept

\* The charge is settled when a job ends, and covers what is there.
LEMMA EndingStep ==
    ASSUME TypeOK, FolderInv, NEW j \in Jobs, NEW status \in Terminal,
           Status(j) \in InFlight \cup Terminal,
           Status(j) \in Terminal => status = Status(j) \/ sup.job = j,
           status = "done" => Status(j) = "done",
           meta' = [meta EXCEPT ![j] = Ended(j, status)], UNCHANGED size
    PROVE  /\ FolderSteps /\ Status(j)' = status
           /\ \A i \in Jobs : i # j => meta'[i] = meta[i]
<1>1. /\ meta'[j].status = status /\ meta'[j].order = meta[j].order
      /\ meta'[j].charge = Retained(size[j])
  BY EndedEffect DEF TypeOK
<1>2. \A i \in Jobs : i # j => meta'[i] = meta[i]
  BY DEF TypeOK
<1>3. Retained(size[j]) \in Nat /\ meta[j].charge \in Nat
  BY Numbers
<1>4. Capped(Retained(size[j])) <= Capped(meta[j].charge)
  <2>1. meta[j].charge = Reserve \/ Retained(size[j]) <= meta[j].charge
    BY DEF FolderInv
  <2> QED BY <1>3, <2>1, CappedBytes
<1>5. Retained(size[j])' = Retained(size[j])
  BY DEF Retained
<1>6. Bounded(j)'
  <2>1. meta'[j].content = meta[j].content
    BY EndedContent DEF TypeOK
  <2>2. Bounded(j)
    BY DEF FolderInv
  <2> QED BY <1>1, <2>1, <2>2 DEF Bounded, Unreserved, Terminal, Status
<1>7. Ends(j)
  BY <1>1, <1>3, <1>4, <1>5, <1>6 DEF Ends, Status
<1> QED BY <1>1, <1>2, <1>7 DEF FolderSteps, Kept, Status

LEMMA RemovalStep ==
    ASSUME TypeOK, NEW F, RemoveFolders(F),
           \A j \in Jobs \cap F : Status(j) \in Terminal \cup {"bare"}
    PROVE  /\ FolderSteps /\ expired' = expired \ F
           /\ \A j \in Jobs \ F : Kept(j) /\ meta'[j] = meta[j] /\ future'[j] = future[j]
           /\ \A j \in Jobs \cap F : Status(j)' = "none" /\ future'[j] = "none"
<1>1. /\ meta' = Without(F) /\ size' = Emptied(F) /\ expired' = expired \ F
      /\ future' = [j \in Jobs |-> IF j \in F THEN "none" ELSE future[j]]
  BY DEF RemoveFolders
<1>2. \A j \in Jobs \ F : meta'[j] = meta[j] /\ size'[j] = size[j] /\ future'[j] = future[j]
  BY <1>1, WithoutEffect
<1>3. \A j \in Jobs \cap F : /\ Status(j)' = "none" /\ size'[j] = 0 /\ future'[j] = "none"
                             /\ meta'[j].order = meta[j].order
  BY <1>1, WithoutEffect DEF Status
<1> QED BY <1>1, <1>2, <1>3 DEF FolderSteps, Kept, Goes

LEMMA ReapStep == ASSUME TypeOK, Reap PROVE FolderSteps
<1>1. \A j \in Jobs \cap expired : Status(j) \in Terminal \cup {"bare"}
  BY DEF TypeOK, Status
<1> QED BY <1>1, RemovalStep DEF Reap

\* What Ack leaves is smaller, and the job is charged for it.
LEMMA AckStep ==
    ASSUME TypeOK, FolderInv, NEW j \in Jobs, Ack(j)
    PROVE  /\ FolderSteps
           /\ \A i \in Jobs : Status(i)' = Status(i) /\ (Status(i) = "processing" => Kept(i))
<1>1. PICK light \in 0..(size[j] - SourceBytes) :
         /\ size' = [size EXCEPT ![j] = light]
         /\ meta' = [meta EXCEPT ![j].acked = TRUE, ![j].archive = FALSE,
                                 ![j].charge = Retained(light)]
  BY DEF Ack
<1>2. meta[j] \in Meta /\ Status(j) = "done"
  BY DEF TypeOK, Ack, Status
<1>3. meta'[j] = [meta[j] EXCEPT !.acked = TRUE, !.archive = FALSE, !.charge = Retained(light)]
  BY <1>1 DEF TypeOK
<1>4. /\ meta'[j].status = "done" /\ meta'[j].order = meta[j].order
      /\ meta'[j].charge = Retained(light)
  BY <1>2, <1>3 DEF Meta, Status
<1>5. size'[j] = light
  BY <1>1 DEF TypeOK
<1>6. \A i \in Jobs : i # j => Kept(i)
  BY <1>1 DEF Kept, TypeOK
<1>7. Retained(size[j])' = Retained(light)
  BY <1>5 DEF Retained
<1>8. Retained(light) <= Retained(light) /\ Capped(Retained(light)) <= Capped(meta[j].charge)
  <2>1. light \in Nat /\ light <= size[j] /\ size[j] \in Nat
    BY <1>1, Numbers, BytesAssumption
  <2>2. Retained(size[j]) <= meta[j].charge /\ meta[j].charge \in Nat
    BY <1>2, Numbers DEF FolderInv, Terminal
  <2>3. Retained(light) \in Nat /\ Retained(light) <= meta[j].charge
    BY <2>1, <2>2, BytesAssumption DEF Retained
  <2> QED BY <2>2, <2>3, CappedBytes
<1>9. Bounded(j)'
  <2>1. light \in Nat /\ light <= size[j] /\ size[j] \in Nat /\ SourceBytes + ResultBytes \in Nat
    BY <1>1, Numbers, BytesAssumption
  <2>2. ~ (size[j] > SourceBytes + ResultBytes)
    BY <1>2 DEF FolderInv, Bounded, Unreserved, Status
  <2> QED BY <1>5, <2>1, <2>2 DEF Bounded
<1>10. Ends(j)
  BY <1>2, <1>4, <1>7, <1>8, <1>9 DEF Ends, Status, Terminal
<1> QED BY <1>2, <1>4, <1>6, <1>10 DEF FolderSteps, Kept, Status

\* A DELETE ends a job that waits, or removes one that has ended.
LEMMA DeletionStep ==
    ASSUME TypeOK, ControlInv, NEW d \in Deleters, Deletion(d)
    PROVE  /\ FolderSteps /\ expired' \subseteq expired
           /\ \A j \in Jobs :
                 \/ /\ Status(j)' = Status(j) /\ future'[j] = future[j]
                    /\ Status(j) = "processing" => Kept(j)
                 \/ /\ Status(j) \in InFlight /\ Status(j)' = "cancelled"
                    /\ future[j] = "pending" /\ future'[j] = "cancelled"
                 \/ Status(j) \in Terminal /\ Status(j)' = "none" /\ future'[j] = "none"
           /\ del' = [del EXCEPT ![d] = AtRest]
                \/ /\ del[d].at = "cancel" /\ meta'[del[d].job].status = "cancelled"
                   /\ future[del[d].job] = "pending"
                   /\ del' = [del EXCEPT ![d] = [del[d] EXCEPT !.at = "remove"]]
           /\ UNCHANGED <<pending, sup, child>>
<1>2. del[d].job \in Jobs
  BY DEF Deletion, CancelJob, RemoveCancelled, ControlInv, DeleteInv
<1>0. PICK j \in Jobs : j = del[d].job
  BY <1>2
<1> DEFINE Outcome(i) ==
              \/ /\ Status(i)' = Status(i) /\ future'[i] = future[i]
                 /\ Status(i) = "processing" => Kept(i)
              \/ /\ Status(i) \in InFlight /\ Status(i)' = "cancelled"
                 /\ future[i] = "pending" /\ future'[i] = "cancelled"
              \/ Status(i) \in Terminal /\ Status(i)' = "none" /\ future'[i] = "none"
           Returns == \/ del' = [del EXCEPT ![d] = AtRest]
                      \/ /\ del[d].at = "cancel" /\ meta'[j].status = "cancelled" /\ future[j] = "pending"
                         /\ del' = [del EXCEPT ![d] = [del[d] EXCEPT !.at = "remove"]]
<1>1. UNCHANGED <<pending, sup, child>>
  BY DEF Deletion, CancelJob, RemoveCancelled
<1>3. ASSUME UNCHANGED <<meta, size, expired, future>>
      PROVE  FolderSteps /\ expired' \subseteq expired /\ \A i \in Jobs : Outcome(i)
  BY <1>3, Unchanged DEF Status, Kept
<1>4. ASSUME RemoveFolders({j}), Status(j) \in Terminal
      PROVE  FolderSteps /\ expired' \subseteq expired /\ \A i \in Jobs : Outcome(i)
  <2>1. \A i \in Jobs \cap {j} : Status(i) \in Terminal \cup {"bare"}
    BY <1>4
  <2>2. /\ FolderSteps /\ expired' = expired \ {j}
        /\ \A i \in Jobs \ {j} : Kept(i) /\ meta'[i] = meta[i] /\ future'[i] = future[i]
        /\ \A i \in Jobs \cap {j} : Status(i)' = "none" /\ future'[i] = "none"
    BY <1>4, <2>1, RemovalStep
  <2> QED BY <1>4, <2>2 DEF Status
<1>5. ASSUME meta' = [meta EXCEPT ![j] = Ended(j, "cancelled")], UNCHANGED <<size, expired>>,
             Status(j) \in InFlight, future[j] = "pending", future' = [future EXCEPT ![j] = "cancelled"]
      PROVE  FolderSteps /\ expired' \subseteq expired /\ \A i \in Jobs : Outcome(i)
  <2>1. Status(j) \notin Terminal
    BY <1>5 DEF InFlight, Terminal
  <2>2. FolderInv
    BY DEF ControlInv
  <2>3. /\ FolderSteps /\ Status(j)' = "cancelled"
        /\ \A i \in Jobs : i # j => meta'[i] = meta[i]
    BY <1>5, <2>1, <2>2, EndingStep DEF Terminal
  <2> QED BY <1>5, <2>3 DEF Status, TypeOK, Kept
<1>6. ASSUME CancelJob(d)
      PROVE  FolderSteps /\ expired' \subseteq expired /\ (\A i \in Jobs : Outcome(i)) /\ Returns
  <2>1. CASE UNCHANGED <<disk, future>> /\ del' = [del EXCEPT ![d] = AtRest]
    BY <1>3, <2>1 DEF disk
  <2>2. CASE /\ meta[j].status \in InFlight /\ future[j] = "pending"
             /\ meta' = [meta EXCEPT ![j] = Ended(j, "cancelled")]
             /\ future' = [future EXCEPT ![j] = "cancelled"]
             /\ del' = [del EXCEPT ![d] = IF @.discards THEN [@ EXCEPT !.at = "remove"] ELSE AtRest]
             /\ UNCHANGED <<size, discard, expired>>
    <3>1. Status(j)' = "cancelled"
      BY <2>2, EndedEffect DEF Status, TypeOK, Terminal
    <3>2. del[d].at = "cancel"
      BY <1>6 DEF CancelJob
    <3> QED BY <1>5, <2>2, <3>1, <3>2 DEF Status
  <2>3. CASE /\ del' = [del EXCEPT ![d] = AtRest]
             /\ UNCHANGED <<meta, size, discard, expired, future>>
    BY <1>3, <2>3
  <2>4. CASE /\ meta[j].status \in Terminal /\ RemoveFolders({j})
             /\ del' = [del EXCEPT ![d] = AtRest]
    BY <1>4, <2>4 DEF Status
  <2> QED BY <1>0, <1>6, <2>1, <2>2, <2>3, <2>4 DEF CancelJob
<1>7. ASSUME RemoveCancelled(d)
      PROVE  FolderSteps /\ expired' \subseteq expired /\ (\A i \in Jobs : Outcome(i)) /\ Returns
  <2>1. del' = [del EXCEPT ![d] = AtRest]
    BY <1>7 DEF RemoveCancelled
  <2>2. CASE j \in Known /\ RemoveFolders({j})
    <3>1. Status(j) \in Terminal
      BY <1>0, <1>7, <2>2 DEF RemoveCancelled, ControlInv, DeleteInv, Known, Status, Terminal, InFlight
    <3> QED BY <1>4, <2>1, <2>2, <3>1
  <2>3. CASE UNCHANGED <<disk, future>>
    BY <1>3, <2>1, <2>3 DEF disk
  <2> QED BY <1>0, <1>7, <2>2, <2>3 DEF RemoveCancelled
<1> QED BY <1>0, <1>1, <1>6, <1>7 DEF Deletion

\* The steps of the supervisor thread that leave its job in its hands.
LEMMA LaunchStep ==
    ASSUME TypeOK, ControlInv, Launch
    PROVE  /\ FolderSteps /\ sup'.job = sup.job
           /\ \/ sup'.at \in {"watch", "settle"} /\ UNCHANGED meta
              \/ sup'.at = "finally" /\ meta'[sup.job].status = "failed"
           /\ IF sup'.at = "watch" THEN child' = [job |-> sup.job, at |-> "boot", old |-> 0] ELSE child' = NoChild
           /\ UNCHANGED <<expired, future, pending, del>>
<1>0. sup.job \in Jobs /\ Status(sup.job) = "queued" /\ child = NoChild
  BY BusyJobs DEF Launch, ControlInv, SupervisorInv, ChildInv
<1>1. PICK j \in Jobs : j = sup.job
  BY <1>0
<1>2. UNCHANGED <<size, expired, future, pending, del>>
  BY DEF Launch
<1>3. CASE sup' = [sup EXCEPT !.at = "settle", !.failure = "cancelled"] /\ UNCHANGED <<meta, child>>
  BY <1>0, <1>2, <1>3, SupervisorMoves, Unchanged
<1>4. CASE Supervise("watch") /\ child' = [job |-> sup.job, at |-> "boot", old |-> 0] /\ UNCHANGED meta
  BY <1>0, <1>2, <1>4, SupervisorMoves, Unchanged DEF Supervise
<1>5. CASE /\ Supervise("finally") /\ UNCHANGED child
           /\ meta' = [meta EXCEPT ![sup.job] = Ended(sup.job, "failed")]
  <2>1. FolderSteps /\ Status(j)' = "failed"
    <3>1. /\ Status(j) \in InFlight \cup Terminal /\ Status(j) \notin Terminal
          /\ "failed" \in Terminal /\ FolderInv
      BY <1>0, <1>1 DEF InFlight, Terminal, ControlInv
    <3> QED BY <1>1, <1>2, <1>5, <3>1, EndingStep
  <2> QED BY <1>0, <1>1, <1>2, <1>5, <2>1, SupervisorMoves DEF Supervise, Status
<1> QED BY <1>3, <1>4, <1>5 DEF Launch

LEMMA SettleStep ==
    ASSUME TypeOK, ControlInv, Settle
    PROVE  /\ FolderSteps /\ sup'.job = sup.job /\ sup'.at = "finally"
           /\ meta'[sup.job].status \in Removed
           /\ \A i \in Jobs : i # sup.job => meta'[i] = meta[i] /\ future'[i] = future[i]
           /\ future'[sup.job] \in {future[sup.job], "finished"}
           /\ UNCHANGED <<child, expired, pending, del>>
<1>0. /\ sup.job \in Jobs /\ SupervisorInv /\ ChildInv /\ FolderInv
      /\ sup.at = "settle" /\ Status(sup.job) # "bare"
  BY BusyJobs DEF Settle, ControlInv, SupervisorInv
<1>1. PICK j \in Jobs : j = sup.job
  BY <1>0
<1>2. /\ sup'.job = sup.job /\ sup'.at = "finally"
      /\ UNCHANGED <<size, child, expired, pending, del>>
  BY <1>0, SettleEffect, SupervisorMoves
<1>3. CASE j \in Known
  <2>1. PICK status \in Terminal : /\ meta' = [meta EXCEPT ![j] = Ended(j, status)]
                                   /\ status = "done" => Status(j) = "done"
    BY <1>0, <1>1, <1>3, SettleEffect
  <2>2. future' = [future EXCEPT ![j] = "finished"]
    BY <1>0, <1>1, <1>3, SettleEffect
  <2>3. /\ FolderSteps /\ Status(j)' = status
        /\ \A i \in Jobs : i # j => meta'[i] = meta[i]
    BY <1>0, <1>1, <1>2, <1>3, <2>1, EndingStep DEF Known, Status
  <2> QED BY <1>1, <1>2, <2>2, <2>3 DEF TypeOK, Removed, Status
<1>4. CASE j \notin Known
  <2>1. UNCHANGED <<meta, future>>
    BY <1>0, <1>1, <1>4, SettleEffect
  <2>2. Status(j) = "none"
    BY <1>0, <1>1, <1>4, Numbers DEF Known, Status, InFlight, Terminal
  <2> QED BY <1>1, <1>2, <2>1, <2>2, Unchanged DEF Removed, Status
<1> QED BY <1>3, <1>4

LEMMA FinallyStep ==
    ASSUME TypeOK, ControlInv, Finally \/ RemoveDiscarded
    PROVE  /\ FolderSteps /\ sup.at \in {"finally", "remove"}
           /\ \/ sup'.job = sup.job /\ sup'.at \in {"remove", "dead"}
              \/ sup'.job = NoJob /\ sup'.at = "idle"
           /\ meta'[sup.job].status \in Removed
           /\ \A i \in Jobs : i # sup.job => meta'[i] = meta[i] /\ future'[i] = future[i]
           /\ future'[sup.job] \in {future[sup.job], "none"}
           /\ expired' \subseteq expired /\ UNCHANGED <<child, pending, del>>
<1>0. sup.job \in Jobs /\ Status(sup.job) \in Removed /\ sup.at \in {"finally", "remove"}
  BY BusyJobs DEF Finally, RemoveDiscarded, ControlInv, SupervisorInv
<1>1. PICK j \in Jobs : j = sup.job
  BY <1>0
<1>2. /\ \/ sup'.job = sup.job /\ sup'.at \in {"remove", "dead"}
         \/ sup'.job = NoJob /\ sup'.at = "idle"
      /\ UNCHANGED <<child, pending, del>>
  <2>1. \/ sup' = [sup EXCEPT !.at = "remove"] \/ sup' = [sup EXCEPT !.at = "dead"] \/ sup' = Idle
    BY DEF Finally, RemoveDiscarded, Supervise
  <2>2. \/ sup' = [at |-> "remove", job |-> sup.job, failure |-> sup.failure]
        \/ sup' = [at |-> "dead", job |-> sup.job, failure |-> sup.failure]
        \/ sup' = [at |-> "idle", job |-> NoJob, failure |-> "none"]
    BY <2>1, SupervisorMoves DEF Idle
  <2>3. UNCHANGED <<child, pending, del>>
    BY DEF Finally, RemoveDiscarded
  <2> QED BY <2>2, <2>3
<1>3. CASE UNCHANGED <<disk, future>>
  BY <1>0, <1>2, <1>3, Unchanged DEF disk, Status
<1>4. CASE j \in Known /\ RemoveFolders({j})
  <2>1. \A i \in Jobs \cap {j} : Status(i) \in Terminal \cup {"bare"}
    BY <1>0, <1>1, <1>4 DEF Known, Status, Removed, InFlight, Terminal
  <2>2. /\ FolderSteps /\ expired' = expired \ {j}
        /\ \A i \in Jobs \ {j} : meta'[i] = meta[i] /\ future'[i] = future[i]
        /\ \A i \in Jobs \cap {j} : Status(i)' = "none" /\ future'[i] = "none"
    BY <1>4, <2>1, RemovalStep
  <2> QED BY <1>0, <1>1, <1>2, <2>2 DEF Status, Removed
<1> QED BY <1>1, <1>3, <1>4 DEF Finally, RemoveDiscarded

\* The child, by TaskEffect.
LEMMA TaskStep ==
    ASSUME TypeOK, ControlInv, Task
    PROVE  /\ FolderSteps
           /\ sup.job \in Jobs /\ sup.at = "watch"
           /\ child'.job = sup.job /\ child'.at # "none"
           /\ child'.at # "boot"
           /\ child'.at \in Executing => meta'[sup.job].status = "processing" /\ Working(sup.job)'
           /\ child'.at \in {"leaving", "exited"} => meta'[sup.job].status \in Removed
           /\ meta'[sup.job].status # "bare"
           /\ \A i \in Jobs : meta'[i].status = "queued" => Status(i) = "queued"
           /\ \A i \in Jobs : i # sup.job => meta'[i] = meta[i]
           /\ UNCHANGED <<expired, future, pending, sup, del>>
<1>0. SupervisorInv /\ ChildInv /\ FolderInv
  BY DEF ControlInv
<1>1. /\ child.job \in Jobs /\ child.job = sup.job /\ sup.at = "watch"
      /\ UNCHANGED <<cancel, discard, expired, future, pending, sup, del, crashes>>
  BY <1>0, TaskEffect
<1>2. PICK j \in Jobs : j = child.job
  BY <1>1
<1>3. PICK m \in Meta, bytes \in 0..FolderBytes, at \in Places, old \in 0..ResultBytes :
         ChildMoves(j, m, bytes, at, old)
  BY <1>0, <1>2, TaskEffect
<1>4. /\ meta'[j] = m /\ size'[j] = bytes
      /\ \A i \in Jobs : i # j => Kept(i)
      /\ child' = [job |-> j, at |-> at, old |-> old]
  BY <1>3 DEF ChildMoves, TypeOK, Kept
<1>5. m.order = meta[j].order /\ m.content = meta[j].content
  BY <1>3 DEF ChildMoves
<1>6. bytes \in Int /\ old \in Int /\ 0 <= old /\ SourceBytes + ResultBytes \in Nat
  BY <1>3, BytesAssumption, ReserveTyped
<1>7. at \in {"leaving", "exited", "crashed"} => at \notin Executing
  BY DEF Executing
<1>8. ASSUME Fills(j, m, bytes, at, old), m.status = "processing" PROVE Working(j)' /\ Bounded(j)'
  <2>1. Working(j)'
    BY <1>4, <1>8 DEF Fills, Working
  <2>2. bytes > SourceBytes + ResultBytes => at = "rewrite"
    BY <1>6, <1>8, BytesAssumption DEF Fills
  <2>3. Bounded(j)'
    BY <1>4, <1>8, <2>2 DEF Bounded, Unreserved, Fills
  <2> QED BY <2>1, <2>3
<1>9. CASE /\ child.at = "boot" /\ at = "compute"
           /\ meta[j].status = "queued" /\ m.status = "processing"
           /\ m.charge = meta[j].charge /\ Fills(j, m, bytes, at, old)
  <2>1. Runs(j) /\ Working(j)'
    BY <1>1, <1>2, <1>4, <1>8, <1>9 DEF Runs, Kept, Status, InFlight
  <2> QED BY <1>1, <1>2, <1>4, <1>5, <1>9, <2>1 DEF FolderSteps, Kept, Status
<1>10. CASE /\ at = "leaving"
            /\ meta[j].status \in InFlight /\ m.status \in Terminal
            /\ bytes <= SourceBytes + ResultBytes
            /\ m.charge = Retained(bytes) \/ m.charge = meta[j].charge
  <2>1. meta[j].charge = Reserve
    BY <1>0, <1>10 DEF FolderInv, Status
  <2>2. /\ Retained(bytes) \in Nat /\ Retained(bytes) <= Reserve
        /\ Retained(size[j])' = Retained(bytes)
    BY <1>3, <1>4, <1>6, <1>10, ReserveTyped, BytesAssumption DEF Retained, Reserve
  <2>3. Retained(size[j])' <= m.charge /\ Capped(m.charge) <= Capped(meta[j].charge)
    BY <1>10, <2>1, <2>2, ReserveTyped, CappedBytes
  <2>4. Bounded(j)'
    BY <1>4, <1>6, <1>10 DEF Bounded
  <2>5. Ends(j)
    BY <1>4, <1>10, <2>3, <2>4 DEF Ends, Status, InFlight, Terminal
  <2>6. m.status \notin {"queued", "bare"}
    BY <1>10 DEF Terminal
  <2> QED BY <1>1, <1>2, <1>4, <1>5, <1>7, <1>10, <2>5, <2>6 DEF FolderSteps, Kept, Status, Removed
<1>11. CASE /\ child.at \in Executing /\ at \in Executing
            /\ meta[j].status = "processing" /\ m = meta[j]
            /\ Fills(j, m, bytes, at, old)
  <2>1. Runs(j) /\ Working(j)'
    BY <1>1, <1>2, <1>4, <1>8, <1>11 DEF Runs, Kept, Status, InFlight
  <2>2. at \notin {"none", "boot", "leaving", "exited"}
    BY <1>11 DEF Executing
  <2> QED BY <1>1, <1>2, <1>4, <1>5, <1>11, <2>1, <2>2 DEF FolderSteps, Kept, Status
<1>12. CASE /\ (child.at = "leaving" /\ at = "exited") \/ at = "crashed"
            /\ m = meta[j] /\ bytes = size[j]
  <2>1. Kept(j)
    BY <1>4, <1>12 DEF Kept
  <2>2. Status(j) # "bare" /\ (child.at = "leaving" => Status(j) \in Removed)
    BY <1>0, <1>1, <1>2 DEF SupervisorInv, ChildInv
  <2> QED BY <1>1, <1>2, <1>4, <1>5, <1>7, <1>12, <2>1, <2>2 DEF FolderSteps, Kept, Status
<1> QED BY <1>3, <1>9, <1>10, <1>11, <1>12 DEF ChildMoves

LEMMA RestartStep ==
    ASSUME TypeOK, FolderInv, Restart
    PROVE  /\ FolderSteps
           /\ \A j \in Jobs : Status(j)' # "processing"
<1> SUFFICES ASSUME NEW j \in Jobs
             PROVE  /\ meta'[j].order = meta[j].order
                    /\ Kept(j) \/ Ends(j) \/ Goes(j)
                    /\ Status(j)' # "processing"
  BY DEF FolderSteps
<1>1. meta'[j].order = meta[j].order
  BY RestartEffect
<1>2. size'[j] = IF j \in expired THEN 0 ELSE size[j]
  BY RestartEffect, WithoutEffect
<1>3. /\ meta[j].charge \in Nat /\ Retained(size[j]) \in Nat
      /\ Status(j) \in {"none", "bare", "queued", "processing", "done", "failed", "cancelled"}
  BY Numbers
<1>4. CASE j \in expired
  <2>1. Goes(j)
    BY <1>2, <1>4, RestartEffect DEF Goes, Status, TypeOK
  <2> QED BY <1>1, <2>1 DEF Goes
<1>5. CASE j \notin expired /\ Status(j) \in Terminal \cup {"processing"}
  <2>1. /\ Status(j)' \in Terminal /\ meta'[j].charge = Retained(size[j])
        /\ Status(j) \in Terminal => Status(j)' = Status(j)
    BY <1>5, RestartEffect DEF Status, Terminal
  <2>2. Capped(Retained(size[j])) <= Capped(meta[j].charge)
    <3>1. meta[j].charge = Reserve \/ Retained(size[j]) <= meta[j].charge
      BY <1>5 DEF FolderInv, InFlight
    <3> QED BY <1>3, <3>1, CappedBytes
  <2>3. Retained(size[j])' = Retained(size[j])
    BY <1>2, <1>5 DEF Retained
  <2>4. Bounded(j)'
    <3>1. Bounded(j)
      BY DEF FolderInv
    <3>2. meta'[j].content = meta[j].content
      BY <1>5, RestartEffect DEF Status
    <3>3. Status(j)' = Status(j) \/ Status(j)' = "failed"
      BY <1>5, RestartEffect DEF Status
    <3> QED BY <1>2, <1>5, <3>1, <3>2, <3>3 DEF Bounded, Unreserved, Status
  <2>5. Ends(j)
    BY <1>3, <1>5, <2>1, <2>2, <2>3, <2>4 DEF Ends, InFlight
  <2> QED BY <1>1, <2>1, <2>5 DEF Terminal
<1>6. CASE j \notin expired /\ Status(j) \notin Terminal \cup {"processing"}
  <2>1. Kept(j)
    BY <1>2, <1>6, RestartEffect DEF Kept, Status
  <2> QED BY <1>1, <1>6, <2>1 DEF Kept, Status
<1> QED BY <1>4, <1>5, <1>6

\* A job that is accepted is charged its reserve, and comes last.
LEMMA SubmitEffect ==
    ASSUME TypeOK, NEW content \in Contents, NEW key \in Contents \cup Keys, Submit(content, key)
    PROVE  /\ Up /\ Fits /\ expired' = {} /\ UNCHANGED <<sup, child, del>>
           /\ \E j \in Jobs :
                 /\ meta[j] = NoMeta /\ j \notin expired
                 /\ Status(j)' = "queued" /\ meta'[j].charge = Reserve /\ size'[j] = SourceBytes
                 /\ meta'[j].order \in Nat /\ \A i \in Jobs : meta[i].order < meta'[j].order
                 /\ future'[j] = "pending" /\ pending' = Append(pending, j)
                 /\ \A i \in Jobs \ {j} :
                       /\ meta'[i].order = meta[i].order
                       /\ i \in expired => Goes(i) /\ future'[i] = "none"
                       /\ i \notin expired => Kept(i) /\ future'[i] = future[i]
<1> DEFINE record == [NoMeta EXCEPT !.status = "queued", !.content = content, !.key = key,
                                    !.order = NextOrder, !.charge = Reserve]
<1>1. PICK j \in Fresh :
        /\ meta' = [Without(expired) EXCEPT ![j] = record]
        /\ size' = [Emptied(expired) EXCEPT ![j] = SourceBytes]
        /\ future' = [[i \in Jobs |-> IF i \in expired THEN "none" ELSE future[i]] EXCEPT ![j] = "pending"]
        /\ pending' = Append(pending, j)
  BY DEF Submit
<1>2. j \in Jobs /\ meta[j] = NoMeta
  BY <1>1 DEF Fresh
<1>3. record.status = "queued" /\ record.order = NextOrder /\ record.charge = Reserve
  BY DEF NoMeta
<1> HIDE DEF record
<1>4. /\ meta'[j] = record /\ size'[j] = SourceBytes /\ future'[j] = "pending"
      /\ \A i \in Jobs \ {j} : /\ meta'[i] = Without(expired)[i] /\ size'[i] = Emptied(expired)[i]
                               /\ future'[i] = IF i \in expired THEN "none" ELSE future[i]
  BY <1>1, <1>2, WithoutEffect
<1>5. j \notin expired
  <2>1. meta[j].status = "none"
    BY <1>2 DEF NoMeta
  <2> QED BY <2>1 DEF TypeOK, Terminal
<1>6. ASSUME NEW i \in Jobs \ {j}
      PROVE  /\ meta'[i].order = meta[i].order
             /\ i \in expired => Goes(i) /\ future'[i] = "none"
             /\ i \notin expired => Kept(i) /\ future'[i] = future[i]
  BY <1>4, <1>6, WithoutEffect DEF Goes, Kept, Status, TypeOK
<1>7. Up /\ Fits /\ expired' = {} /\ UNCHANGED <<sup, child, del>>
  BY DEF Submit
<1>8. /\ Status(j)' = "queued" /\ meta'[j].charge = Reserve
      /\ meta'[j].order \in Nat /\ \A i \in Jobs : meta[i].order < meta'[j].order
  BY <1>3, <1>4, NextOrderIsLast DEF Status
<1> QED BY <1>1, <1>2, <1>4, <1>5, <1>6, <1>7, <1>8

\* A kill while an upload is written.
LEMMA LeftoverEffect ==
    ASSUME TypeOK, Crash, ~ UNCHANGED disk
    PROVE  /\ Fits /\ expired' = {}
           /\ \E j \in Jobs :
                 /\ meta[j] = NoMeta /\ j \notin expired
                 /\ Status(j)' = "bare" /\ meta'[j].order = 0 /\ size'[j] \in 0..SourceBytes
                 /\ \A i \in Jobs \ {j} :
                       /\ meta'[i].order = meta[i].order
                       /\ i \in expired => Goes(i)
                       /\ i \notin expired => Kept(i)
<1>1. PICK j \in Jobs :
         /\ Fits /\ expired' = {}
         /\ meta[j] = NoMeta
         /\ meta'[j].status = "bare" /\ meta'[j].order = 0
         /\ size'[j] \in 0..SourceBytes
         /\ \A i \in Jobs \ {j} :
               meta'[i] = Without(expired)[i] /\ size'[i] = Emptied(expired)[i]
  BY CrashEffect
<1>2. j \notin expired
  <2>1. meta[j].status = "none"
    BY <1>1 DEF NoMeta
  <2> QED BY <2>1 DEF TypeOK, Terminal
<1>3. ASSUME NEW i \in Jobs \ {j}
      PROVE  /\ meta'[i].order = meta[i].order
             /\ i \in expired => Goes(i)
             /\ i \notin expired => Kept(i)
  BY <1>1, <1>3, WithoutEffect DEF Goes, Kept, Status, TypeOK
<1> QED BY <1>1, <1>2, <1>3 DEF Status

-----------------------------------------------------------------------------
(* The parts of ControlInv, kept by what most actions do                   *)

LEMMA FolderKept ==
    ASSUME TypeOK, FolderInv, FolderSteps, TypeOK'
    PROVE  FolderInv'
<1> SUFFICES ASSUME NEW j \in Jobs
             PROVE  /\ Status(j)' = "none" => size'[j] = 0
                    /\ Status(j)' = "bare" => meta'[j].order = 0
                    /\ Status(j)' \in InFlight \cup Terminal => meta'[j].order > 0
                    /\ Status(j)' \in InFlight => meta'[j].charge = Reserve
                    /\ Status(j)' \in Terminal => Retained(size[j])' <= meta'[j].charge
                    /\ Status(j)' = "queued" => size'[j] = SourceBytes
                    /\ Bounded(j)'
  BY DEF FolderInv
<1>1. meta'[j].order = meta[j].order
  BY DEF FolderSteps
<1>2. CASE Kept(j)
  BY <1>2 DEF FolderInv, Kept, Status, Retained, Bounded, Unreserved
<1>3. CASE Ends(j)
  BY <1>1, <1>3 DEF FolderInv, Ends, Status, InFlight, Terminal
<1>4. CASE Goes(j)
  BY <1>4, ReserveTyped DEF Goes, InFlight, Terminal, Bounded
<1>5. CASE Runs(j)
  BY <1>1, <1>5 DEF FolderInv, Runs, InFlight, Terminal
<1> QED BY <1>2, <1>3, <1>4, <1>5 DEF FolderSteps

LEMMA DeleteKept ==
    ASSUME TypeOK, ControlInv, FolderSteps, UNCHANGED del, sup'.job \in {sup.job, NoJob}
    PROVE  DeleteInv'
<1> SUFFICES ASSUME NEW d \in Deleters
             PROVE  /\ del[d].at # "idle" => del[d].job \in Jobs
                    /\ del[d].at = "remove" =>
                          /\ meta'[del[d].job].status \in {"cancelled", "none"}
                          /\ meta'[del[d].job].order > 0 /\ del[d].job # sup'.job
  BY DEF DeleteInv, Status
<1>1. del[d].at # "idle" => del[d].job \in Jobs
  BY DEF ControlInv, DeleteInv
<1>2. SUFFICES ASSUME del[d].at = "remove"
               PROVE  /\ meta'[del[d].job].status \in {"cancelled", "none"}
                      /\ meta'[del[d].job].order > 0 /\ del[d].job # sup'.job
  BY <1>1
<1>3. PICK j \in Jobs : j = del[d].job
  BY <1>1, <1>2
<1>4. Status(j) \in {"cancelled", "none"} /\ meta[j].order > 0 /\ j # sup.job
  BY <1>2, <1>3 DEF ControlInv, DeleteInv
<1>5. j # sup'.job
  BY <1>4, JobsAssumption
<1>6. meta'[j].order = meta[j].order /\ (Kept(j) \/ Ends(j) \/ Goes(j) \/ Runs(j))
  BY DEF FolderSteps
<1>7. Status(j)' \in {"cancelled", "none"}
  BY <1>4, <1>6 DEF Kept, Ends, Goes, Runs, Status, InFlight, Terminal
<1> QED BY <1>3, <1>4, <1>5, <1>6, <1>7 DEF Status

LEMMA QueueKept ==
    ASSUME TypeOK, ControlInv, FolderSteps, UNCHANGED pending, Up' => Up,
           sup'.job \in {sup.job, NoJob},
           sup'.job = sup.job \/ (sup.job \in Jobs => meta'[sup.job].status # "queued"),
           \A j \in Jobs : meta'[j].status = "queued" => Status(j) = "queued" /\ future'[j] = future[j],
           \A j \in Jobs : future'[j] = "pending" => future[j] = "pending" /\ meta'[j].status = "queued"
    PROVE  QueueInv'
<1>1. QueueInv
  BY DEF ControlInv
<1>2. \A i \in DOMAIN pending : pending[i] \in Jobs
  BY ElementOfSeq DEF TypeOK
<1>3. \A j \in Jobs : meta'[j].order = meta[j].order
  BY DEF FolderSteps
<1>4. InOrder(pending, meta)'
  BY <1>1, <1>2, <1>3 DEF QueueInv, InOrder
<1>5. \A i \in DOMAIN pending' :
         /\ meta'[pending'[i]].order > 0
         /\ sup'.job \in Jobs => meta'[sup'.job].order < meta'[pending'[i]].order
  BY <1>1, <1>2, <1>3, JobsAssumption DEF QueueInv
<1>6. \A j \in Jobs : future'[j] = "pending" => meta'[j].status = "queued"
  OBVIOUS
<1>7. ASSUME NEW j \in Jobs, Up', meta'[j].status = "queued"
      PROVE  sup'.job = j \/ (future'[j] = "pending" /\ \E i \in DOMAIN pending' : pending'[i] = j)
  <2>1. Status(j) = "queued" /\ future'[j] = future[j] /\ Up
    BY <1>7
  <2>2. sup.job = j \/ (future[j] = "pending" /\ \E i \in DOMAIN pending : pending[i] = j)
    BY <1>1, <2>1 DEF QueueInv
  <2> QED BY <1>7, <2>1, <2>2
<1> QED BY <1>4, <1>5, <1>6, <1>7 DEF QueueInv, Status

LEMMA ProcessingKept ==
    ASSUME TypeOK, ControlInv, FolderSteps, Up,
           \/ sup'.job = sup.job /\ sup'.at = sup.at
           \/ sup'.job = sup.job /\ sup'.at \in {"watch", "settle"}
           \/ sup.at \notin {"watch", "settle"}
           \/ meta'[sup.job].status # "processing"
    PROVE  ProcessingInv'
<1>1. \A j \in Jobs : Status(j)' = "processing" => sup.job = j /\ sup.at \in {"watch", "settle"}
  <2> SUFFICES ASSUME NEW j \in Jobs, Status(j)' = "processing"
               PROVE  sup.job = j /\ sup.at \in {"watch", "settle"}
    OBVIOUS
  <2>1. Kept(j) \/ Runs(j)
    BY DEF FolderSteps, Ends, Goes, Terminal
  <2> QED BY <2>1 DEF Kept, Runs, Status, ControlInv, ProcessingInv
<1> QED BY <1>1 DEF ProcessingInv, Status

LEMMA SupervisorKept ==
    ASSUME TypeOK, ControlInv, UNCHANGED <<sup, child>>,
           sup.job \in Jobs =>
               /\ sup.job \notin expired'
               /\ meta'[sup.job].order = meta[sup.job].order
               /\ \/ meta'[sup.job].status = Status(sup.job)
                  \/ Status(sup.job) \in Terminal /\ meta'[sup.job].status = "none"
               /\ future'[sup.job] \in {future[sup.job], "none"}
               /\ Status(sup.job) = "processing" => Kept(sup.job)
    PROVE  SupervisorInv' /\ ChildInv'
<1>1. SupervisorInv /\ ChildInv
  BY DEF ControlInv
<1>2. child.at # "none" => child.job = sup.job /\ child.job \in Jobs
  BY <1>1, BusyJobs
<1>3. sup.at \notin {"idle", "down"} => sup.job \in Jobs
  BY <1>1, BusyJobs
<1>4. SupervisorInv'
  BY <1>1, <1>3 DEF SupervisorInv, Status, Removed, Terminal
<1>5. child.at \in Executing => Status(child.job)' = "processing" /\ Working(child.job)'
  <2> SUFFICES ASSUME child.at \in Executing
               PROVE  Status(child.job)' = "processing" /\ Working(child.job)'
    OBVIOUS
  <2>1. child.job = sup.job /\ child.job \in Jobs /\ Status(child.job) = "processing" /\ Working(child.job)
    BY <1>1, <1>2 DEF ChildInv, Executing
  <2>2. Kept(child.job)
    BY <2>1
  <2> QED BY <2>1, <2>2 DEF Kept, Working, Status
<1>6. ChildInv'
  BY <1>1, <1>2, <1>5 DEF ChildInv, Status, Removed, Terminal
<1> QED BY <1>4, <1>6

-----------------------------------------------------------------------------
(* ControlInv, action by action                                            *)

\* Requests: a folder goes when its job has ended, a job that waits is cancelled.
Requested(j) ==
    \/ /\ Status(j)' = Status(j) /\ future'[j] = future[j]
       /\ Status(j) = "processing" => Kept(j)
    \/ /\ Status(j) \in InFlight /\ Status(j)' = "cancelled"
       /\ future[j] = "pending" /\ future'[j] = "cancelled"
    \/ Status(j) \in Terminal \cup {"bare"} /\ Status(j)' = "none" /\ future'[j] = "none"

LEMMA RequestControl ==
    ASSUME TypeOK, ControlInv, TypeOK', FolderSteps, Up, UNCHANGED <<pending, sup, child>>,
           expired' \subseteq expired, \A j \in Jobs : Requested(j)
    PROVE  FolderInv' /\ SupervisorInv' /\ ChildInv' /\ ProcessingInv' /\ QueueInv' /\ DownInv'
<1>1. FolderInv'
  BY FolderKept DEF ControlInv
<1>2. sup.job \in Jobs =>
         /\ sup.job \notin expired'
         /\ meta'[sup.job].order = meta[sup.job].order
         /\ \/ meta'[sup.job].status = Status(sup.job)
            \/ Status(sup.job) \in Terminal /\ meta'[sup.job].status = "none"
         /\ future'[sup.job] \in {future[sup.job], "none"}
         /\ Status(sup.job) = "processing" => Kept(sup.job)
  <2> SUFFICES ASSUME sup.job \in Jobs
               PROVE  /\ sup.job \notin expired'
                      /\ meta'[sup.job].order = meta[sup.job].order
                      /\ \/ meta'[sup.job].status = Status(sup.job)
                         \/ Status(sup.job) \in Terminal /\ meta'[sup.job].status = "none"
                      /\ future'[sup.job] \in {future[sup.job], "none"}
                      /\ Status(sup.job) = "processing" => Kept(sup.job)
    OBVIOUS
  <2>1. PICK j \in Jobs : j = sup.job
    OBVIOUS
  <2>2. j \notin expired /\ future[j] # "pending" /\ meta[j].order > 0
    BY <2>1 DEF ControlInv, SupervisorInv
  <2>3. Status(j) # "bare"
    BY <2>2, Numbers DEF ControlInv, FolderInv
  <2>4. meta'[j].order = meta[j].order /\ Requested(j)
    BY DEF FolderSteps
  <2> QED BY <2>1, <2>2, <2>3, <2>4 DEF Requested, Status, InFlight, Terminal
<1>3. SupervisorInv' /\ ChildInv'
  BY <1>2, SupervisorKept
<1>4. ProcessingInv'
  BY ProcessingKept
<1>5. QueueInv'
  <2>1. \A j \in Jobs : meta'[j].status = "queued" => Status(j) = "queued" /\ future'[j] = future[j]
    BY DEF Requested, Status
  <2>2. \A j \in Jobs : future'[j] = "pending" => future[j] = "pending" /\ meta'[j].status = "queued"
    BY DEF Requested, Status, ControlInv, QueueInv
  <2> QED BY <2>1, <2>2, QueueKept DEF Up
<1>6. DownInv'
  BY DEF DownInv, Up
<1> QED BY <1>1, <1>3, <1>4, <1>5, <1>6

LEMMA ReapControl == ASSUME TypeOK, ControlInv, TypeOK', Reap PROVE ControlInv'
<1>1. \A j \in Jobs \cap expired : Status(j) \in Terminal \cup {"bare"}
  BY DEF TypeOK, Status
<1>2. /\ FolderSteps /\ expired' = expired \ expired
      /\ \A j \in Jobs \ expired : Kept(j) /\ meta'[j] = meta[j] /\ future'[j] = future[j]
      /\ \A j \in Jobs \cap expired : Status(j)' = "none" /\ future'[j] = "none"
  BY <1>1, RemovalStep DEF Reap
<1>3. \A j \in Jobs : Requested(j)
  BY <1>1, <1>2 DEF Requested, Status
<1>4. Up /\ UNCHANGED <<pending, sup, child, del>>
  BY DEF Reap
<1>5. DeleteInv'
  BY <1>2, <1>4, DeleteKept
<1> QED BY <1>2, <1>3, <1>4, <1>5, RequestControl DEF ControlInv

LEMMA ExpireControl == ASSUME TypeOK, ControlInv, NEW j \in Jobs, Expire(j) PROVE ControlInv'
<1>1. UNCHANGED <<meta, size, future, pending, sup, child, del>>
  BY DEF Expire, memory
<1>2. sup.job # j /\ expired' = expired \cup {j}
  BY DEF Expire
<1>3. SupervisorInv'
  BY <1>1, <1>2 DEF ControlInv, SupervisorInv, Status
<1>4. FolderInv' /\ ChildInv' /\ ProcessingInv' /\ QueueInv' /\ DeleteInv' /\ DownInv'
  BY <1>1 DEF ControlInv, FolderInv, ChildInv, ProcessingInv, QueueInv, DeleteInv, DownInv,
              Status, Retained, InOrder, Up, Bounded, Unreserved, Working
<1> QED BY <1>3, <1>4 DEF ControlInv

LEMMA AckControl == ASSUME TypeOK, ControlInv, TypeOK', NEW j \in Jobs, Ack(j) PROVE ControlInv'
<1>1. /\ FolderSteps
      /\ \A i \in Jobs : Status(i)' = Status(i) /\ (Status(i) = "processing" => Kept(i))
  BY AckStep DEF ControlInv
<1>2. Up /\ UNCHANGED <<expired, future, pending, sup, child, del>>
  BY DEF Ack, memory
<1>3. \A i \in Jobs : Requested(i)
  BY <1>1, <1>2 DEF Requested
<1>4. DeleteInv'
  BY <1>1, <1>2, DeleteKept
<1> QED BY <1>1, <1>2, <1>3, <1>4, RequestControl DEF ControlInv

LEMMA DeleteControl ==
    ASSUME TypeOK, ControlInv, TypeOK', NEW d \in Deleters, NEW j \in Jobs, NEW discards \in BOOLEAN,
           Delete(d, j, discards)
    PROVE  ControlInv'
<1>1. /\ Up /\ UNCHANGED <<meta, size, expired, future, pending, sup, child>>
      /\ del' = [del EXCEPT ![d] = [at |-> "cancel", job |-> j, discards |-> discards]]
  BY DEF Delete
<1>2. FolderSteps /\ \A i \in Jobs : Requested(i)
  BY <1>1, Unchanged DEF Requested, Status, Kept
<1>3. \A e \in Deleters : del'[e] = IF e = d THEN [at |-> "cancel", job |-> j, discards |-> discards]
                                    ELSE del[e]
  BY <1>1 DEF TypeOK
<1>4. DeleteInv'
  BY <1>1, <1>3 DEF ControlInv, DeleteInv, Status
<1> QED BY <1>1, <1>2, <1>4, RequestControl DEF ControlInv

LEMMA DeletionControl ==
    ASSUME TypeOK, ControlInv, TypeOK', NEW d \in Deleters, Deletion(d)
    PROVE  ControlInv'
<1>1. Up /\ UNCHANGED <<pending, sup, child>> /\ FolderSteps /\ expired' \subseteq expired
  BY DeletionStep DEF Deletion, CancelJob, RemoveCancelled
<1>2. \A j \in Jobs : Requested(j)
  BY DeletionStep DEF Requested
<1>3. DeleteInv'
  <2> SUFFICES ASSUME NEW e \in Deleters
               PROVE  /\ del'[e].at # "idle" => del'[e].job \in Jobs
                      /\ del'[e].at = "remove" =>
                            /\ meta'[del'[e].job].status \in {"cancelled", "none"}
                            /\ meta'[del'[e].job].order > 0 /\ del'[e].job # sup.job
    BY <1>1 DEF DeleteInv, Status
  <2>1. ASSUME del'[e] = del[e]
        PROVE  /\ del'[e].at # "idle" => del'[e].job \in Jobs
               /\ del'[e].at = "remove" =>
                     /\ meta'[del'[e].job].status \in {"cancelled", "none"}
                     /\ meta'[del'[e].job].order > 0 /\ del'[e].job # sup.job
    <3>1. del[e].at # "idle" => del[e].job \in Jobs
      BY DEF ControlInv, DeleteInv
    <3>2. SUFFICES ASSUME del[e].at = "remove"
                   PROVE  /\ meta'[del[e].job].status \in {"cancelled", "none"}
                          /\ meta'[del[e].job].order > 0 /\ del[e].job # sup.job
      BY <2>1, <3>1
    <3>3. PICK j \in Jobs : j = del[e].job
      BY <3>1, <3>2
    <3>4. Status(j) \in {"cancelled", "none"} /\ meta'[j].order > 0 /\ j # sup.job
      BY <1>1, <3>2, <3>3 DEF ControlInv, DeleteInv, FolderSteps
    <3>5. Status(j)' \in {"cancelled", "none"}
      BY <1>2, <3>4 DEF Requested, InFlight
    <3> QED BY <3>3, <3>4, <3>5 DEF Status
  <2>2. CASE del' = [del EXCEPT ![d] = AtRest]
    <3>1. e # d => del'[e] = del[e]
      BY <2>2 DEF TypeOK
    <3>2. e = d => del'[e].at = "idle"
      BY <2>2 DEF TypeOK, AtRest
    <3> QED BY <2>1, <3>1, <3>2
  <2>3. CASE /\ del[d].at = "cancel" /\ meta'[del[d].job].status = "cancelled"
             /\ future[del[d].job] = "pending"
             /\ del' = [del EXCEPT ![d] = [del[d] EXCEPT !.at = "remove"]]
    <3>1. e # d => del'[e] = del[e]
      BY <2>3 DEF TypeOK
    <3>2. e = d => del'[e].job = del[d].job
      BY <2>3 DEF TypeOK
    <3>3. del[d].job \in Jobs
      BY <2>3 DEF ControlInv, DeleteInv
    <3>4. del[d].job # sup.job
      BY <2>3, <3>3 DEF ControlInv, SupervisorInv
    <3>5. meta'[del[d].job].order > 0
      <4>1. PICK j \in Jobs : j = del[d].job
        BY <3>3
      <4>2. Status(j) \in InFlight \cup Terminal
        BY <1>2, <2>3, <4>1 DEF Requested, Status, InFlight, Terminal
      <4> QED BY <1>1, <4>1, <4>2 DEF ControlInv, FolderInv, FolderSteps
    <3> QED BY <2>1, <2>3, <3>1, <3>2, <3>3, <3>4, <3>5
  <2> QED BY <2>2, <2>3, DeletionStep
<1> QED BY <1>1, <1>2, <1>3, RequestControl DEF ControlInv

\* The folders of a step at which one appears.
LEMMA ArrivalFolders ==
    ASSUME TypeOK, FolderInv, TypeOK', NEW j \in Jobs,
           \/ /\ Status(j)' = "queued" /\ meta'[j].charge = Reserve /\ meta'[j].order > 0
              /\ size'[j] = SourceBytes
           \/ Status(j)' = "bare" /\ meta'[j].order = 0 /\ size'[j] \in 0..SourceBytes,
           \A i \in Jobs \ {j} : meta'[i].order = meta[i].order /\ (Kept(i) \/ Goes(i))
    PROVE  FolderInv'
<1> SUFFICES ASSUME NEW i \in Jobs
             PROVE  /\ Status(i)' = "none" => size'[i] = 0
                    /\ Status(i)' = "bare" => meta'[i].order = 0
                    /\ Status(i)' \in InFlight \cup Terminal => meta'[i].order > 0
                    /\ Status(i)' \in InFlight => meta'[i].charge = Reserve
                    /\ Status(i)' \in Terminal => Retained(size[i])' <= meta'[i].charge
                    /\ Status(i)' = "queued" => size'[i] = SourceBytes
                    /\ Bounded(i)'
  BY DEF FolderInv
<1>1. CASE i = j
  <2>1. Bounded(j)'
    BY BytesAssumption DEF Bounded
  <2> QED BY <1>1, <2>1 DEF Status, InFlight, Terminal
<1>2. CASE i # j /\ Kept(i)
  BY <1>2 DEF FolderInv, Kept, Status, Retained, Bounded, Unreserved
<1>3. CASE i # j /\ Goes(i)
  BY <1>3, ReserveTyped DEF Goes, InFlight, Terminal, Bounded
<1> QED BY <1>1, <1>2, <1>3

LEMMA SubmitControl ==
    ASSUME TypeOK, ControlInv, TypeOK', NEW content \in Contents, NEW key \in Contents \cup Keys,
           Submit(content, key)
    PROVE  ControlInv'
<1>1. PICK j \in Jobs :
         /\ meta[j] = NoMeta /\ j \notin expired
         /\ Status(j)' = "queued" /\ meta'[j].charge = Reserve /\ size'[j] = SourceBytes
         /\ meta'[j].order \in Nat /\ \A i \in Jobs : meta[i].order < meta'[j].order
         /\ future'[j] = "pending" /\ pending' = Append(pending, j)
         /\ \A i \in Jobs \ {j} :
               /\ meta'[i].order = meta[i].order
               /\ i \in expired => Goes(i) /\ future'[i] = "none"
               /\ i \notin expired => Kept(i) /\ future'[i] = future[i]
  BY SubmitEffect
<1>2. Up /\ expired' = {} /\ UNCHANGED <<sup, child, del>>
  BY SubmitEffect
<1>3. Status(j) = "none" /\ meta[j].order = 0
  BY <1>1 DEF NoMeta, Status
<1>4. \A i \in Jobs : meta[i].order \in Nat
  BY Numbers
<1>5. \A i \in Jobs : meta'[i].order = IF i = j THEN meta'[j].order ELSE meta[i].order
  BY <1>1
<1>6. \A i \in Jobs \ {j} : \/ Status(i)' = Status(i) /\ future'[i] = future[i]
                            \/ Status(i) \in Terminal \cup {"bare"} /\ Status(i)' = "none" /\ future'[i] = "none"
  BY <1>1 DEF Goes, Kept, Status
<1>7. FolderInv'
  <2>1. meta'[j].order > 0
    BY <1>1, <1>3
  <2> QED BY <1>1, <2>1, ArrivalFolders DEF ControlInv
<1>8. SupervisorInv /\ ChildInv /\ ProcessingInv /\ QueueInv /\ DeleteInv /\ FolderInv
  BY DEF ControlInv
<1>9. sup.job \in Jobs => sup.job # j /\ sup.job \notin expired
  BY <1>3, <1>8 DEF SupervisorInv
<1>10. SupervisorInv' /\ ChildInv'
  <2>1. sup.job \in Jobs => Kept(sup.job) /\ future'[sup.job] = future[sup.job]
    BY <1>1, <1>9
  <2>2. sup.job \in Jobs => meta'[sup.job] = meta[sup.job]
    BY <2>1 DEF Kept
  <2> QED BY <1>2, <1>9, <2>1, <2>2, SupervisorKept DEF Status
<1>11. ProcessingInv'
  <2>1. \A i \in Jobs : Status(i)' = "processing" => Status(i) = "processing"
    BY <1>1, <1>6
  <2> QED BY <1>2, <1>8, <2>1 DEF ProcessingInv
<1>12. QueueInv'
  <2>1. /\ pending \in Seq(Jobs) /\ pending' \in Seq(Jobs) /\ Len(pending') = Len(pending) + 1
        /\ \A i \in 1..Len(pending) : pending'[i] = pending[i]
        /\ pending'[Len(pending) + 1] = j
    BY <1>1, AppendProperties DEF TypeOK
  <2>2. /\ DOMAIN pending = 1..Len(pending) /\ Len(pending) \in Nat
        /\ DOMAIN pending' = 1..(Len(pending) + 1)
    BY <2>1, LenProperties
  <2>3. \A i \in 1..Len(pending) : pending[i] \in Jobs /\ pending[i] # j /\ meta[pending[i]].order > 0
    BY <1>3, <1>8, <2>1, <2>2, ElementOfSeq DEF QueueInv
  <2>4. InOrder(pending, meta)'
    <3> SUFFICES ASSUME NEW i \in DOMAIN pending', NEW k \in DOMAIN pending', i < k
                 PROVE  meta'[pending'[i]].order < meta'[pending'[k]].order
      BY DEF InOrder
    <3>1. i \in 1..Len(pending) /\ pending'[i] = pending[i]
      BY <2>1, <2>2
    <3>2. CASE k \in 1..Len(pending)
      BY <1>5, <1>8, <2>1, <2>2, <2>3, <3>1, <3>2 DEF QueueInv, InOrder
    <3>3. CASE k = Len(pending) + 1
      BY <1>1, <1>5, <2>1, <2>3, <3>1, <3>3
    <3> QED BY <2>2, <3>2, <3>3
  <2>5. \A i \in DOMAIN pending' :
           /\ meta'[pending'[i]].order > 0
           /\ sup'.job \in Jobs => meta'[sup'.job].order < meta'[pending'[i]].order
    <3> SUFFICES ASSUME NEW i \in DOMAIN pending'
                 PROVE  /\ meta'[pending'[i]].order > 0
                        /\ sup.job \in Jobs => meta'[sup.job].order < meta'[pending'[i]].order
      BY <1>2
    <3>1. CASE i \in 1..Len(pending)
      BY <1>5, <1>8, <1>9, <2>1, <2>2, <2>3, <3>1 DEF QueueInv
    <3>2. CASE i = Len(pending) + 1
      BY <1>1, <1>3, <1>5, <1>9, <2>1, <3>2
    <3> QED BY <2>2, <3>1, <3>2
  <2>6. \A i \in Jobs : future'[i] = "pending" => Status(i)' = "queued"
    BY <1>1, <1>6, <1>8 DEF QueueInv
  <2>7. ASSUME NEW i \in Jobs, Status(i)' = "queued"
        PROVE  sup'.job = i \/ (future'[i] = "pending" /\ \E k \in DOMAIN pending' : pending'[k] = i)
    <3>1. CASE i = j
      BY <1>1, <2>1, <2>2, <3>1
    <3>2. CASE i # j
      <4>1. Status(i) = "queued" /\ future'[i] = future[i]
        BY <1>6, <2>7, <3>2
      <4>2. sup.job = i \/ (future[i] = "pending" /\ \E k \in DOMAIN pending : pending[k] = i)
        BY <1>2, <1>8, <4>1 DEF QueueInv
      <4>3. \A k \in DOMAIN pending : k \in DOMAIN pending' /\ pending'[k] = pending[k]
        BY <2>1, <2>2
      <4> QED BY <1>2, <4>1, <4>2, <4>3
    <3> QED BY <3>1, <3>2
  <2> QED BY <2>4, <2>5, <2>6, <2>7 DEF QueueInv
<1>13. DeleteInv'
  <2> SUFFICES ASSUME NEW d \in Deleters
               PROVE  /\ del[d].at # "idle" => del[d].job \in Jobs
                      /\ del[d].at = "remove" =>
                            /\ meta'[del[d].job].status \in {"cancelled", "none"}
                            /\ meta'[del[d].job].order > 0 /\ del[d].job # sup.job
    BY <1>2 DEF DeleteInv, Status
  <2>1. del[d].at # "idle" => del[d].job \in Jobs
    BY <1>8 DEF DeleteInv
  <2>2. SUFFICES ASSUME del[d].at = "remove"
                 PROVE  /\ meta'[del[d].job].status \in {"cancelled", "none"}
                        /\ meta'[del[d].job].order > 0 /\ del[d].job # sup.job
    BY <2>1
  <2>3. PICK i \in Jobs : i = del[d].job
    BY <2>1, <2>2
  <2>4. Status(i) \in {"cancelled", "none"} /\ meta[i].order > 0 /\ i # sup.job
    BY <1>8, <2>2, <2>3 DEF DeleteInv
  <2>5. i # j
    BY <1>3, <2>4
  <2>6. Status(i)' \in {"cancelled", "none"}
    BY <1>6, <2>4, <2>5
  <2>7. meta'[i].order = meta[i].order
    BY <1>5, <2>5
  <2> QED BY <2>3, <2>4, <2>6, <2>7 DEF Status
<1>14. DownInv'
  BY <1>2 DEF DownInv, Up
<1> QED BY <1>7, <1>10, <1>11, <1>12, <1>13, <1>14 DEF ControlInv

\* The supervisor takes the first of the queue, or passes it over.
LEMMA TakeControl == ASSUME TypeOK, ControlInv, TypeOK', Take PROVE ControlInv'
<1> DEFINE j == Head(pending)
<1>1. /\ sup.at = "idle" /\ pending # <<>> /\ pending' = Tail(pending)
      /\ UNCHANGED <<meta, size, expired, child, del>>
      /\ IF future[j] = "pending"
         THEN /\ future' = [future EXCEPT ![j] = "running"]
              /\ sup' = [at |-> "launch", job |-> j, failure |-> "none"]
         ELSE UNCHANGED <<future, sup>>
  BY DEF Take, disk
<1>2. /\ SupervisorInv /\ ChildInv /\ ProcessingInv /\ QueueInv /\ DeleteInv /\ FolderInv
      /\ sup.job = NoJob /\ child = NoChild
  BY <1>1 DEF ControlInv, SupervisorInv, ChildInv
<1>3. /\ Len(pending) \in Nat /\ Len(pending) > 0 /\ DOMAIN pending = 1..Len(pending)
      /\ \A i \in 1..Len(pending) : pending[i] \in Jobs
      /\ j \in Jobs /\ j = pending[1]
  BY <1>1, EmptySeq, LenProperties, ElementOfSeq, HeadTailProperties DEF TypeOK
<1>4. /\ DOMAIN pending' = 1..(Len(pending) - 1)
      /\ \A i \in 1..(Len(pending) - 1) : pending'[i] = pending[i + 1]
  <2>1. pending' \in Seq(Jobs) /\ Len(pending') = Len(pending) - 1
        /\ \A i \in 1..Len(pending') : pending'[i] = pending[i + 1]
    BY <1>1, HeadTailProperties DEF TypeOK
  <2> QED BY <2>1, LenProperties
<1>5. FolderInv'
  BY <1>1, <1>2 DEF FolderInv, Status, Retained, Bounded, Unreserved
<1>6. meta[j].order > 0 /\ \A i \in 2..Len(pending) : meta[j].order < meta[pending[i]].order
  BY <1>2, <1>3 DEF QueueInv, InOrder
<1>7. \A i \in DOMAIN pending' : /\ pending'[i] \in Jobs /\ meta[pending'[i]].order > 0
                                 /\ meta[j].order < meta[pending'[i]].order
  BY <1>2, <1>3, <1>4, <1>6 DEF QueueInv
<1>8. InOrder(pending, meta)'
  BY <1>1, <1>2, <1>3, <1>4 DEF QueueInv, InOrder
<1>9. CASE future[j] = "pending"
  <2>1. /\ sup'.at = "launch" /\ sup'.job = j
        /\ \A i \in Jobs : future'[i] = IF i = j THEN "running" ELSE future[i]
    BY <1>1, <1>9 DEF TypeOK
  <2>2. Status(j) = "queued"
    BY <1>2, <1>3, <1>9 DEF QueueInv
  <2>3. j \notin expired
    BY <2>2 DEF TypeOK, Status, Terminal
  <2>4. SupervisorInv'
    BY <1>1, <1>3, <1>6, <2>1, <2>2, <2>3, JobsAssumption DEF SupervisorInv, Status
  <2>5. ChildInv'
    BY <1>1, <1>2, <2>1 DEF ChildInv, NoChild, Executing
  <2>6. ProcessingInv'
    BY <1>1, <1>2, <2>1 DEF ProcessingInv, Status, Up
  <2>7. QueueInv'
    <3>1. ASSUME NEW i \in Jobs, Status(i)' = "queued", i # j
          PROVE  future'[i] = "pending" /\ \E k \in DOMAIN pending' : pending'[k] = i
      <4>1. future[i] = "pending" /\ \E k \in DOMAIN pending : pending[k] = i
        BY <1>1, <1>2, <3>1, JobsAssumption DEF QueueInv, Status, Up
      <4>2. PICK k \in DOMAIN pending : pending[k] = i
        BY <4>1
      <4>3. k - 1 \in DOMAIN pending' /\ pending'[k - 1] = i
        BY <1>3, <1>4, <3>1, <4>2
      <4> QED BY <2>1, <3>1, <4>1, <4>3
    <3>2. \A i \in Jobs : future'[i] = "pending" => Status(i)' = "queued"
      BY <1>1, <1>2, <2>1 DEF QueueInv, Status
    <3> QED BY <1>1, <1>7, <1>8, <2>1, <3>1, <3>2 DEF QueueInv
  <2>8. DeleteInv'
    <3>1. Status(j) \notin {"cancelled", "none"}
      BY <2>2
    <3> QED BY <1>1, <1>2, <2>1, <3>1 DEF DeleteInv, Status
  <2>9. DownInv'
    BY <2>1 DEF DownInv, Up
  <2> QED BY <1>5, <2>4, <2>5, <2>6, <2>7, <2>8, <2>9 DEF ControlInv
<1>10. CASE future[j] # "pending"
  <2>1. UNCHANGED <<future, sup>>
    BY <1>1, <1>10
  <2>2. SupervisorInv' /\ ChildInv' /\ ProcessingInv' /\ DeleteInv'
    <3>1. ChildInv'
      BY <1>1, <1>2, <2>1 DEF ChildInv, NoChild, Executing
    <3> QED BY <1>1, <1>2, <2>1, <3>1 DEF SupervisorInv, ProcessingInv, DeleteInv, Status, Up
  <2>3. QueueInv'
    <3>1. ASSUME NEW i \in Jobs, Status(i)' = "queued"
          PROVE  future[i] = "pending" /\ \E k \in DOMAIN pending' : pending'[k] = i
      <4>1. future[i] = "pending" /\ \E k \in DOMAIN pending : pending[k] = i
        BY <1>1, <1>2, <3>1, JobsAssumption DEF QueueInv, Status, Up
      <4>2. PICK k \in DOMAIN pending : pending[k] = i
        BY <4>1
      <4>3. i # j
        BY <1>10, <4>1
      <4>4. k - 1 \in DOMAIN pending' /\ pending'[k - 1] = i
        BY <1>3, <1>4, <4>2, <4>3
      <4> QED BY <4>1, <4>4
    <3>2. \A i \in Jobs : future'[i] = "pending" => Status(i)' = "queued"
      BY <1>1, <1>2, <2>1 DEF QueueInv, Status
    <3> QED BY <1>1, <1>2, <1>7, <1>8, <2>1, <3>1, <3>2, JobsAssumption DEF QueueInv
  <2>4. DownInv'
    BY <1>1, <2>1 DEF DownInv, Up
  <2> QED BY <1>5, <2>2, <2>3, <2>4 DEF ControlInv
<1> QED BY <1>9, <1>10

\* The supervisor thread goes on with its job, or gives it up.
GoesOn ==
    /\ FolderSteps /\ sup.job \in Jobs /\ sup.at # "down"
    /\ \/ sup'.at \notin {"idle", "down", "launch"} /\ sup'.job = sup.job
       \/ sup'.at = "idle" /\ sup'.job = NoJob
    /\ UNCHANGED <<pending, del>> /\ expired' \subseteq expired
    /\ \A i \in Jobs : i # sup.job => meta'[i] = meta[i] /\ future'[i] = future[i]
    /\ future'[sup.job] \in {future[sup.job], "none", "finished"}
    /\ sup'.at = "idle" => meta'[sup.job].status # "queued"
    /\ sup'.at \in {"watch", "settle"} => meta'[sup.job].status # "bare"
    /\ sup'.at \notin {"watch", "settle"} => meta'[sup.job].status \in Removed

LEMMA SupervisorControl ==
    ASSUME TypeOK, ControlInv, TypeOK', GoesOn, ChildInv'
    PROVE  ControlInv'
<1>0. FolderSteps /\ UNCHANGED <<pending, del>> /\ sup'.job \in {sup.job, NoJob}
  BY DEF GoesOn
<1>1. PICK j \in Jobs : j = sup.job
  BY DEF GoesOn
<1>2. /\ FolderInv /\ SupervisorInv /\ ProcessingInv /\ QueueInv /\ DeleteInv
      /\ Up /\ Up' /\ j \notin expired /\ future[j] \notin {"pending", "cancelled"} /\ meta[j].order > 0
  BY <1>1 DEF ControlInv, SupervisorInv, Up, GoesOn
<1>3. FolderInv'
  BY <1>0, <1>2, FolderKept
<1>4. meta'[j].order = meta[j].order
  BY <1>0 DEF FolderSteps
<1>5. SupervisorInv'
  BY <1>1, <1>2, <1>4, JobsAssumption DEF SupervisorInv, Status, GoesOn
<1>6. ProcessingInv'
  BY <1>0, <1>1, <1>2, ProcessingKept DEF Removed, Terminal, GoesOn
<1>7. QueueInv'
  <2>1. \A i \in Jobs : future'[i] = "pending" => future[i] = "pending" /\ meta'[i].status = "queued"
    BY <1>1, <1>2 DEF QueueInv, Status, GoesOn
  <2>2. ASSUME sup'.job = sup.job PROVE QueueInv'
    <3>1. QueueInv
      BY <1>2
    <3>2. \A i \in DOMAIN pending : pending[i] \in Jobs
      BY ElementOfSeq DEF TypeOK
    <3>3. \A i \in Jobs : meta'[i].order = meta[i].order
      BY <1>0 DEF FolderSteps
    <3>4. InOrder(pending, meta)'
      BY <1>0, <3>1, <3>2, <3>3 DEF QueueInv, InOrder
    <3>5. \A i \in DOMAIN pending' :
             /\ meta'[pending'[i]].order > 0
             /\ sup'.job \in Jobs => meta'[sup'.job].order < meta'[pending'[i]].order
      BY <1>0, <2>2, <3>1, <3>2, <3>3 DEF QueueInv
    <3>6. \A i \in Jobs : Up' /\ Status(i)' = "queued" =>
             sup'.job = i \/ (future'[i] = "pending" /\ \E k \in DOMAIN pending' : pending'[k] = i)
      BY <1>0, <1>1, <1>2, <2>2 DEF QueueInv, Status, GoesOn
    <3> QED BY <2>1, <3>4, <3>5, <3>6 DEF QueueInv, Status
  <2>3. ASSUME sup'.at = "idle", sup'.job = NoJob PROVE QueueInv'
    <3>1. \A i \in Jobs : meta'[i].status = "queued" => Status(i) = "queued" /\ future'[i] = future[i]
      BY <1>1, <2>3 DEF Status, GoesOn
    <3> QED BY <1>0, <1>1, <1>2, <2>1, <2>3, <3>1, QueueKept DEF GoesOn
  <2> QED BY <2>2, <2>3 DEF GoesOn
<1>8. DeleteInv'
  BY <1>0, DeleteKept
<1>9. DownInv'
  BY <1>2 DEF DownInv
<1> QED BY <1>3, <1>5, <1>6, <1>7, <1>8, <1>9 DEF ControlInv

LEMMA LaunchControl == ASSUME TypeOK, ControlInv, TypeOK', Launch PROVE ControlInv'
<1>1. /\ FolderSteps /\ sup'.job = sup.job
      /\ \/ sup'.at \in {"watch", "settle"} /\ UNCHANGED meta
         \/ sup'.at = "finally" /\ meta'[sup.job].status = "failed"
      /\ IF sup'.at = "watch" THEN child' = [job |-> sup.job, at |-> "boot", old |-> 0] ELSE child' = NoChild
      /\ UNCHANGED <<expired, future, pending, del>>
  BY LaunchStep
<1>2. sup.at = "launch" /\ sup.job \in Jobs /\ Status(sup.job) = "queued"
  BY BusyJobs DEF Launch, ControlInv, SupervisorInv
<1>3. \A i \in Jobs : i # sup.job => meta'[i] = meta[i]
  <2>1. UNCHANGED meta \/ meta' = [meta EXCEPT ![sup.job] = Ended(sup.job, "failed")]
    BY DEF Launch
  <2> QED BY <2>1 DEF TypeOK
<1>4. ChildInv'
  <2>1. CASE sup'.at = "watch"
    <3>1. Status(sup.job)' = "queued"
      BY <1>1, <1>2, <2>1 DEF Status
    <3> QED BY <1>1, <2>1, <3>1 DEF ChildInv, Status, Executing
  <2>2. CASE sup'.at # "watch"
    BY <1>1, <2>2 DEF ChildInv, NoChild, Executing
  <2> QED BY <2>1, <2>2
<1>5. meta'[sup.job].status \in Removed \/ sup'.at \in {"watch", "settle"}
  BY <1>1 DEF Removed, Terminal
<1>6. meta'[sup.job].status # "bare"
  BY <1>1, <1>2 DEF Status
<1>7. GoesOn
  BY <1>1, <1>2, <1>3, <1>4, <1>5, <1>6 DEF GoesOn
<1> QED BY <1>4, <1>7, SupervisorControl

LEMMA WatchControl == ASSUME TypeOK, ControlInv, TypeOK', Watch PROVE ControlInv'
<1>1. /\ sup.at = "watch" /\ child' = NoChild
      /\ \E failure : sup' = [sup EXCEPT !.at = "settle", !.failure = failure]
      /\ UNCHANGED <<meta, size, expired, future, pending, del>>
  BY DEF Watch, disk
<1>2. sup'.at = "settle" /\ sup'.job = sup.job
  BY <1>1, SupervisorMoves
<1>3. sup.job \in Jobs /\ Status(sup.job) # "bare"
  BY <1>1, BusyJobs DEF ControlInv, SupervisorInv
<1>4. ChildInv'
  BY <1>1, <1>2 DEF ChildInv, NoChild, Executing
<1>5. FolderSteps
  BY <1>1, Unchanged
<1>6. meta'[sup.job].status # "bare"
  BY <1>1, <1>3 DEF Status
<1>7. GoesOn
  BY <1>1, <1>2, <1>3, <1>4, <1>5, <1>6 DEF GoesOn
<1> QED BY <1>4, <1>7, SupervisorControl

LEMMA SettleControl == ASSUME TypeOK, ControlInv, TypeOK', Settle PROVE ControlInv'
<1>1. /\ FolderSteps /\ sup'.job = sup.job /\ sup'.at = "finally"
      /\ meta'[sup.job].status \in Removed
      /\ \A i \in Jobs : i # sup.job => meta'[i] = meta[i] /\ future'[i] = future[i]
      /\ future'[sup.job] \in {future[sup.job], "finished"}
      /\ UNCHANGED <<child, expired, pending, del>>
  BY SettleStep
<1>2. sup.at = "settle" /\ sup.job \in Jobs /\ child = NoChild
  BY BusyJobs DEF Settle, ControlInv, SupervisorInv, ChildInv
<1>3. ChildInv'
  BY <1>1, <1>2 DEF ChildInv, NoChild, Executing
<1>4. GoesOn
  BY <1>1, <1>2, <1>3 DEF GoesOn
<1> QED BY <1>3, <1>4, SupervisorControl

LEMMA FinallyControl ==
    ASSUME TypeOK, ControlInv, TypeOK', Finally \/ RemoveDiscarded
    PROVE  ControlInv'
<1>1. /\ FolderSteps /\ sup.at \in {"finally", "remove"}
      /\ \/ sup'.job = sup.job /\ sup'.at \in {"remove", "dead"}
         \/ sup'.job = NoJob /\ sup'.at = "idle"
      /\ meta'[sup.job].status \in Removed
      /\ \A i \in Jobs : i # sup.job => meta'[i] = meta[i] /\ future'[i] = future[i]
      /\ future'[sup.job] \in {future[sup.job], "none"}
      /\ expired' \subseteq expired /\ UNCHANGED <<child, pending, del>>
  BY FinallyStep
<1>2. sup.job \in Jobs /\ child = NoChild
  BY <1>1, BusyJobs DEF ControlInv, ChildInv
<1>3. ChildInv'
  BY <1>1, <1>2 DEF ChildInv, NoChild, Executing
<1>4. meta'[sup.job].status # "queued"
  BY <1>1 DEF Removed, Terminal
<1>5. GoesOn
  BY <1>1, <1>2, <1>3, <1>4 DEF GoesOn
<1> QED BY <1>3, <1>5, SupervisorControl

LEMMA TaskControl == ASSUME TypeOK, ControlInv, TypeOK', Task PROVE ControlInv'
<1>1. /\ FolderSteps
      /\ sup.job \in Jobs /\ sup.at = "watch"
      /\ child'.job = sup.job /\ child'.at # "none"
      /\ child'.at # "boot"
      /\ child'.at \in Executing => meta'[sup.job].status = "processing" /\ Working(sup.job)'
      /\ child'.at \in {"leaving", "exited"} => meta'[sup.job].status \in Removed
      /\ meta'[sup.job].status # "bare"
      /\ \A i \in Jobs : i # sup.job => meta'[i] = meta[i]
      /\ UNCHANGED <<expired, future, pending, sup, del>>
  BY TaskStep
<1>2. ChildInv'
  BY <1>1 DEF ChildInv, Status
<1>3. GoesOn
  BY <1>1, <1>2 DEF GoesOn
<1> QED BY <1>2, <1>3, SupervisorControl

-----------------------------------------------------------------------------
(* The service goes down and comes back                                    *)

\* Of all that ControlInv says, what is on disk matters.
LEMMA DownControl ==
    ASSUME TypeOK, TypeOK', FolderInv', Crash,
           \A i, j \in Jobs : Status(i)' = "processing" /\ Status(j)' = "processing" => i = j
    PROVE  ControlInv'
<1>1. /\ sup'.at = "down" /\ sup'.job = NoJob /\ child' = NoChild
      /\ future' = [j \in Jobs |-> "none"] /\ pending' = <<>>
      /\ del' = [d \in Deleters |-> AtRest]
  BY CrashEffect
<1>2. SupervisorInv' /\ ChildInv' /\ ProcessingInv'
  BY <1>1, JobsAssumption DEF SupervisorInv, ChildInv, ProcessingInv, NoChild, Up, Executing
<1>3. QueueInv'
  BY <1>1 DEF QueueInv, InOrder, Up
<1>4. DeleteInv' /\ DownInv'
  BY <1>1 DEF DeleteInv, DownInv, AtRest
<1> QED BY <1>2, <1>3, <1>4 DEF ControlInv

LEMMA CrashControl == ASSUME TypeOK, ControlInv, TypeOK', Crash PROVE ControlInv'
<1>1. FolderInv /\ ProcessingInv
  BY DEF ControlInv
<1>2. CASE UNCHANGED disk
  <2>1. UNCHANGED <<meta, size>>
    BY <1>2 DEF disk
  <2>2. FolderInv'
    BY <1>1, <2>1, Unchanged, FolderKept
  <2>3. \A i, j \in Jobs : Status(i)' = "processing" /\ Status(j)' = "processing" => i = j
    BY <1>1, <2>1 DEF ProcessingInv, Status
  <2> QED BY <2>2, <2>3, DownControl
<1>3. CASE ~ UNCHANGED disk
  <2>1. PICK j \in Jobs :
           /\ Status(j)' = "bare" /\ meta'[j].order = 0 /\ size'[j] \in 0..SourceBytes
           /\ \A i \in Jobs \ {j} : meta'[i].order = meta[i].order /\ (Kept(i) \/ Goes(i))
    BY <1>3, LeftoverEffect
  <2>2. FolderInv'
    BY <1>1, <2>1, ArrivalFolders
  <2>3. \A i \in Jobs : Status(i)' = "processing" => Status(i) = "processing"
    BY <2>1 DEF Kept, Goes, Status
  <2> QED BY <1>1, <2>2, <2>3, DownControl DEF ProcessingInv
<1> QED BY <1>2, <1>3

LEMMA RestartControl == ASSUME TypeOK, ControlInv, TypeOK', Restart PROVE ControlInv'
<1>1. FolderInv /\ ChildInv /\ DownInv
  BY DEF ControlInv
<1>2. FolderSteps /\ \A j \in Jobs : Status(j)' # "processing"
  BY <1>1, RestartStep
<1>3. /\ sup'.at = "idle" /\ sup'.job = NoJob /\ sup.at = "down" /\ ~Up /\ UNCHANGED <<child, del>>
      /\ \A j \in Jobs : future'[j] = IF meta'[j].status = "queued" THEN "pending" ELSE "none"
      /\ pending' \in Seq(Jobs)
      /\ InOrder(pending, meta)'
      /\ \A i \in DOMAIN pending' : meta'[pending'[i]].status = "queued"
      /\ \A j \in Jobs : meta'[j].status = "queued" => \E i \in DOMAIN pending' : pending'[i] = j
  BY RestartEffect DEF Up
<1>4. FolderInv'
  BY <1>1, <1>2, FolderKept
<1>5. SupervisorInv' /\ ChildInv' /\ ProcessingInv'
  BY <1>1, <1>2, <1>3, JobsAssumption DEF SupervisorInv, ChildInv, ProcessingInv, NoChild, Executing
<1>6. QueueInv'
  <2>1. \A i \in DOMAIN pending' : pending'[i] \in Jobs
    BY <1>3, ElementOfSeq
  <2>2. \A i \in DOMAIN pending' : meta'[pending'[i]].order > 0
    BY <1>3, <1>4, <2>1 DEF FolderInv, Status, InFlight
  <2> QED BY <1>3, <2>2, JobsAssumption DEF QueueInv, Status
<1>7. DeleteInv' /\ DownInv'
  <2>1. del' = [d \in Deleters |-> AtRest]
    BY <1>1, <1>3 DEF DownInv
  <2> QED BY <1>3, <2>1 DEF DeleteInv, DownInv, AtRest, Up
<1> QED BY <1>4, <1>5, <1>6, <1>7 DEF ControlInv

LEMMA InitControl == Init => ControlInv
<1> SUFFICES ASSUME Init PROVE ControlInv
  OBVIOUS
<1>1. /\ \A j \in Jobs : meta[j] = NoMeta /\ size[j] = 0 /\ future[j] = "none"
      /\ pending = <<>> /\ child = NoChild /\ sup.at = "idle" /\ sup.job = NoJob
      /\ \A d \in Deleters : del[d] = AtRest
  BY DEF Init, Idle
<1>2. \A j \in Jobs : Status(j) = "none"
  BY <1>1 DEF Status, NoMeta
<1>3. FolderInv
  BY <1>1, <1>2, ReserveTyped DEF FolderInv, InFlight, Terminal, Bounded
<1>4. SupervisorInv /\ ChildInv /\ ProcessingInv
  BY <1>1, <1>2, JobsAssumption DEF SupervisorInv, ChildInv, ProcessingInv, NoChild, Executing
<1>5. QueueInv /\ DeleteInv /\ DownInv
  BY <1>1, <1>2 DEF QueueInv, DeleteInv, DownInv, InOrder, AtRest, Up
<1> QED BY <1>3, <1>4, <1>5 DEF ControlInv

LEMMA NextControl == ASSUME TypeOK, ControlInv, [Next]_vars PROVE TypeOK' /\ ControlInv'
<1>1. TypeOK'
  BY NextTypeOK DEF ControlInv
<1>2. CASE UNCHANGED vars
  <2>1. UNCHANGED <<meta, size, expired, future, pending, sup, child, del>>
    BY <1>2 DEF vars, disk, memory
  <2>2. FolderInv'
    BY <1>1, <2>1, Unchanged, FolderKept DEF ControlInv
  <2>3. SupervisorInv' /\ ChildInv' /\ ProcessingInv'
    BY <2>1 DEF ControlInv, SupervisorInv, ChildInv, ProcessingInv, Status, Up, Working
  <2>4. QueueInv'
    BY <2>1 DEF ControlInv, QueueInv, InOrder, Status, Up
  <2>5. DeleteInv' /\ DownInv'
    BY <2>1 DEF ControlInv, DeleteInv, DownInv, Status, Up
  <2> QED BY <1>1, <2>2, <2>3, <2>4, <2>5 DEF ControlInv
<1>3. ASSUME NEW content \in Contents, NEW key \in Contents \cup Keys, Submit(content, key)
      PROVE  ControlInv'
  BY <1>1, <1>3, SubmitControl
<1>4. ASSUME NEW j \in Jobs, Expire(j) \/ Ack(j) PROVE ControlInv'
  BY <1>1, <1>4, ExpireControl, AckControl
<1>5. ASSUME NEW d \in Deleters, Deletion(d) PROVE ControlInv'
  BY <1>1, <1>5, DeletionControl
<1>6. ASSUME NEW d \in Deleters, NEW j \in Jobs, NEW discards \in BOOLEAN, Delete(d, j, discards)
      PROVE  ControlInv'
  BY <1>1, <1>6, DeleteControl
<1>7. ASSUME Supervisor PROVE ControlInv'
  BY <1>1, <1>7, TakeControl, LaunchControl, WatchControl, SettleControl, FinallyControl DEF Supervisor
<1> QED BY <1>1, <1>2, <1>3, <1>4, <1>5, <1>6, <1>7, ReapControl, TaskControl, CrashControl,
           RestartControl DEF Next

-----------------------------------------------------------------------------
(* Bytes                                                                   *)

Charge == [j \in Jobs |-> Charged(j)]
Stored == [j \in Jobs |-> IF j \in Known THEN Retained(Within(j)) ELSE Within(j)]

LEMMA ChargeTyped == TypeOK => \A j \in Jobs : Charge[j] = Charged(j) /\ Charge[j] \in Nat
BY Numbers DEF Charge, Charged

\* The lesser of two numbers.
LEMMA MinOfTwo == \A m, n \in Nat : Min({m, n}) = IF m <= n THEN m ELSE n
<1> SUFFICES ASSUME NEW m \in Nat, NEW n \in Nat PROVE Min({m, n}) = IF m <= n THEN m ELSE n
  OBVIOUS
<1> DEFINE least == IF m <= n THEN m ELSE n
<1>1. least \in {m, n} /\ \A y \in {m, n} : least <= y
  OBVIOUS
<1>2. \A x \in {m, n} : (\A y \in {m, n} : x <= y) => x = least
  OBVIOUS
<1> QED BY <1>1, <1>2 DEF Min

LEMMA WithinTyped ==
    ASSUME TypeOK
    PROVE  \A j \in Jobs : /\ Within(j) \in Nat /\ Within(j) <= size[j]
                           /\ size[j] # Within(j) => size[j] > SourceBytes + ResultBytes
                           /\ Retained(Within(j)) \in Nat /\ Retained(Within(j)) <= Reserve
                           /\ Retained(Within(j)) <= Retained(size[j])
<1> SUFFICES ASSUME NEW j \in Jobs
             PROVE  /\ Within(j) \in Nat /\ Within(j) <= size[j]
                    /\ size[j] # Within(j) => size[j] > SourceBytes + ResultBytes
                    /\ Retained(Within(j)) \in Nat /\ Retained(Within(j)) <= Reserve
                    /\ Retained(Within(j)) <= Retained(size[j])
  OBVIOUS
<1>1. size[j] \in Nat /\ SourceBytes + ResultBytes \in Nat
  BY Numbers, ReserveTyped
<1>2. Within(j) = IF size[j] <= SourceBytes + ResultBytes THEN size[j] ELSE SourceBytes + ResultBytes
  BY <1>1, MinOfTwo DEF Within
<1> QED BY <1>1, <1>2, BytesAssumption DEF Retained, Reserve

\* The fold of submit is a sum over the folders.
LEMMA ChargedIsTotal ==
    TypeOK => \A S \in SUBSET Jobs : MapThenSumSet(Charged, S) = Total(Charge, S)
<1> SUFFICES ASSUME TypeOK, NEW S \in SUBSET Jobs
             PROVE  MapThenSumSet(Charged, S) = Total(Charge, S)
  OBVIOUS
<1> DEFINE Fill(t) == [s \in SUBSET S |-> IF s = {} THEN 0
                         ELSE Charged(CHOOSE x \in s : TRUE) + t[s \ {CHOOSE x \in s : TRUE}]]
           c == CHOOSE t : t = Fill(t)
<1>1. MapThenSumSet(Charged, S) = c[S]
  BY DEF MapThenSumSet, MapThenFoldSet
<1>2. IsFiniteSet(S) /\ \A x \in S : Charge[x] = Charged(x) /\ Charge[x] \in Nat
  BY FS_Subset, JobsAssumption, ChargeTyped
<1>3. IsTable(Table(Charge, S), Charge, S) /\ Table(Charge, S) \in [SUBSET S -> Nat]
  BY <1>2, TableExists
<1>4. \A s \in SUBSET S : s # {} => Chosen(s) \in S
  BY ChosenIsMember
<1>5. Table(Charge, S) = Fill(Table(Charge, S))
  BY <1>2, <1>3, <1>4 DEF IsTable, Chosen
<1>6. c = Fill(c)
  BY <1>5
<1>7. IsTable(c, Charge, S)
  <2> HIDE DEF c
  <2> QED BY <1>2, <1>4, <1>6 DEF IsTable, Chosen
<1>8. c[S] = Table(Charge, S)[S]
  <2> HIDE DEF c
  <2> QED BY <1>2, <1>3, <1>7, TablesAgree
<1> QED BY <1>1, <1>8 DEF Total

\* The fold of DiskWithinBudget, likewise.
LEMMA StoredIsTotal ==
    ASSUME TypeOK
    PROVE  DiskWithinBudget <=> /\ Total(Stored, Jobs) <= Budget
                                /\ \A j \in Jobs : size[j] # Within(j) => Unreserved(j)
<1> DEFINE OnDisk(j) == IF j \in Known THEN Retained(Within(j)) ELSE Within(j)
           Fill(t) == [s \in SUBSET Jobs |-> IF s = {} THEN 0
                         ELSE OnDisk(CHOOSE x \in s : TRUE) + t[s \ {CHOOSE x \in s : TRUE}]]
           c == CHOOSE t : t = Fill(t)
<1>1. DiskWithinBudget <=> /\ c[Jobs] <= Budget
                           /\ \A j \in Jobs : size[j] # Within(j) => Unreserved(j)
  BY DEF DiskWithinBudget, MapThenSumSet, MapThenFoldSet
<1>2. IsFiniteSet(Jobs) /\ \A x \in Jobs : Stored[x] = OnDisk(x) /\ Stored[x] \in Nat
  BY JobsAssumption, WithinTyped DEF Stored
<1> HIDE DEF OnDisk
<1>3. IsTable(Table(Stored, Jobs), Stored, Jobs) /\ Table(Stored, Jobs) \in [SUBSET Jobs -> Nat]
  BY <1>2, TableExists
<1>4. \A s \in SUBSET Jobs : s # {} => Chosen(s) \in Jobs
  BY ChosenIsMember
<1>5. Table(Stored, Jobs) = Fill(Table(Stored, Jobs))
  BY <1>2, <1>3, <1>4 DEF IsTable, Chosen
<1>6. c = Fill(c)
  BY <1>5
<1>7. IsTable(c, Stored, Jobs)
  <2> HIDE DEF c
  <2> QED BY <1>2, <1>4, <1>6 DEF IsTable, Chosen
<1>8. c[Jobs] = Table(Stored, Jobs)[Jobs]
  <2> HIDE DEF c
  <2> QED BY <1>2, <1>3, <1>7, TablesAgree
<1> QED BY <1>1, <1>8 DEF Total

\* What is charged covers what is counted as charged.
LEMMA CoverTyped == TypeOK => \A j \in Jobs : Cover[j] \in Nat /\ Cover[j] <= Charge[j]
<1> SUFFICES ASSUME TypeOK, NEW j \in Jobs PROVE Cover[j] \in Nat /\ Cover[j] <= Charge[j]
  OBVIOUS
<1>1. meta[j].charge \in Nat /\ size[j] \in Nat
  BY Numbers
<1> QED BY <1>1, CappedBytes DEF Cover, Charge, Charged

LEMMA CoverNext == ASSUME TypeOK' PROVE \A j \in Jobs : Cover'[j] \in Nat
<1>1. TypeOK' => (\A j \in Jobs : Cover[j] \in Nat /\ Cover[j] <= Charge[j])'
  BY CoverTyped, PTL
<1> QED BY <1>1

LEMMA CoverNow ==
    \A j \in Jobs : Cover[j] = IF Status(j) \in InFlight \cup Terminal THEN Capped(meta[j].charge)
                               ELSE size[j]
BY DEF Cover, Known, Status

LEMMA CoverThen ==
    \A j \in Jobs : Cover'[j] = IF Status(j)' \in InFlight \cup Terminal THEN Capped(meta'[j].charge)
                                ELSE size'[j]
BY DEF Cover, Known, Status, Capped, Reserve

\* Only an upload makes a folder, and takes from the budget.
LEMMA NextSteps ==
    ASSUME TypeOK, ControlInv, [Next]_vars
    PROVE  \/ FolderSteps
           \/ \E content \in Contents, key \in Contents \cup Keys : Submit(content, key)
           \/ Crash /\ ~ UNCHANGED disk
<1>1. CASE UNCHANGED vars
  BY <1>1, Unchanged DEF vars, disk
<1>2. ASSUME NEW j \in Jobs, Expire(j) \/ Ack(j) PROVE FolderSteps
  BY <1>2, Unchanged, AckStep DEF Expire, ControlInv
<1>3. ASSUME NEW d \in Deleters, Deletion(d) PROVE FolderSteps
  BY <1>3, DeletionStep
<1>4. ASSUME NEW d \in Deleters, NEW j \in Jobs, NEW discards \in BOOLEAN, Delete(d, j, discards)
      PROVE  FolderSteps
  BY <1>4, Unchanged DEF Delete
<1>5. ASSUME Supervisor PROVE FolderSteps
  <2>1. Take => FolderSteps
    BY Unchanged DEF Take, disk
  <2>2. Watch => FolderSteps
    BY Unchanged DEF Watch, disk
  <2> QED BY <1>5, <2>1, <2>2, LaunchStep, SettleStep, FinallyStep DEF Supervisor
<1>6. Crash /\ UNCHANGED disk => FolderSteps
  BY Unchanged DEF disk
<1>7. Restart => FolderSteps
  BY RestartStep DEF ControlInv
<1> QED BY <1>1, <1>2, <1>3, <1>4, <1>5, <1>6, <1>7, ReapStep, TaskStep DEF Next

\* What is covered of a folder never grows.
LEMMA CoverShrinks ==
    ASSUME TypeOK, TypeOK', FolderSteps
    PROVE  \A j \in Jobs : Cover'[j] <= Cover[j]
<1> SUFFICES ASSUME NEW j \in Jobs PROVE Cover'[j] <= Cover[j]
  OBVIOUS
<1>1. /\ Cover[j] = IF Status(j) \in InFlight \cup Terminal THEN Capped(meta[j].charge) ELSE size[j]
      /\ Cover'[j] = IF Status(j)' \in InFlight \cup Terminal THEN Capped(meta'[j].charge) ELSE size'[j]
  BY CoverNow, CoverThen
<1>2. Cover[j] \in Nat /\ Cover'[j] \in Nat
  BY CoverTyped, CoverNext
<1>3. CASE Kept(j)
  BY <1>1, <1>2, <1>3 DEF Kept, Status
<1>4. CASE Ends(j)
  BY <1>1, <1>4 DEF Ends
<1>5. CASE Goes(j)
  <2>1. Cover'[j] = 0
    BY <1>1, <1>5 DEF Goes, InFlight, Terminal
  <2> QED BY <1>2, <2>1
<1>6. CASE Runs(j)
  BY <1>1, <1>2, <1>6 DEF Runs, InFlight
<1> QED BY <1>3, <1>4, <1>5, <1>6 DEF FolderSteps

\* An upload takes no more than what submit made sure of.
LEMMA CoverArrives ==
    ASSUME TypeOK, TypeOK', Fits, NEW j \in Jobs, meta[j] = NoMeta, j \notin expired,
           Cover'[j] <= Reserve,
           \A i \in Jobs \ {j} : (i \in expired => Goes(i)) /\ (i \notin expired => Kept(i))
    PROVE  BudgetInv'
<1> DEFINE T == Jobs \ expired
<1>1. /\ IsFiniteSet(Jobs) /\ T \in SUBSET Jobs /\ j \in T /\ Reserve \in Nat
      /\ \A i \in Jobs : Charge[i] \in Nat /\ Cover[i] \in Nat /\ Cover[i] <= Charge[i] /\ Cover'[i] \in Nat
  BY JobsAssumption, ReserveTyped, ChargeTyped, CoverTyped, CoverNext
<1>2. \A i \in Jobs \ {j} : Cover'[i] <= IF i \in T THEN Charge[i] ELSE 0
  <2> SUFFICES ASSUME NEW i \in Jobs \ {j} PROVE Cover'[i] <= IF i \in T THEN Charge[i] ELSE 0
    OBVIOUS
  <2>1. /\ Cover[i] = IF Status(i) \in InFlight \cup Terminal THEN Capped(meta[i].charge) ELSE size[i]
        /\ Cover'[i] = IF Status(i)' \in InFlight \cup Terminal THEN Capped(meta'[i].charge) ELSE size'[i]
    BY CoverNow, CoverThen
  <2>2. CASE i \in expired
    BY <2>1, <2>2 DEF Goes, InFlight, Terminal
  <2>3. CASE i \notin expired
    <3>1. Cover'[i] = Cover[i]
      BY <2>1, <2>3 DEF Kept, Status
    <3> QED BY <1>1, <2>3, <3>1
  <2> QED BY <2>2, <2>3
<1>3. Cover'[j] <= Reserve + IF j \in T THEN Charge[j] ELSE 0
  BY <1>1
<1>4. Total(Cover', Jobs) <= Total(Charge, T) + Reserve
  <2> DEFINE v == Cover'
             w == Charge
  <2>1. /\ \A x \in Jobs : v[x] \in Nat
        /\ \A x \in T : w[x] \in Nat
        /\ \A x \in Jobs \ {j} : v[x] <= IF x \in T THEN w[x] ELSE 0
        /\ v[j] <= Reserve + IF j \in T THEN w[j] ELSE 0
    BY <1>1, <1>2, <1>3
  <2> HIDE DEF v, w, T
  <2>2. Total(v, Jobs) <= Total(w, T) + Reserve
    BY <1>1, <2>1, TotalGrowth
  <2> QED BY <2>2 DEF v, w
<1>5. Total(Charge, T) + Reserve <= Budget
  BY ChargedIsTotal DEF Fits
<1>6. Total(Cover', Jobs) \in Nat /\ Total(Charge, T) \in Nat
  <2>1. IsFiniteSet(T)
    BY <1>1, FS_Subset
  <2> QED BY <1>1, <2>1, TotalChosen
<1> QED BY <1>1, <1>4, <1>5, <1>6, BytesAssumption DEF BudgetInv

LEMMA NextBudget ==
    ASSUME TypeOK, ControlInv, BudgetInv, TypeOK', [Next]_vars
    PROVE  BudgetInv'
<1>1. IsFiniteSet(Jobs) /\ \A i \in Jobs : Cover[i] \in Nat /\ Cover'[i] \in Nat
  BY JobsAssumption, CoverTyped, CoverNext
<1>2. CASE FolderSteps
  <2>1. \A i \in Jobs : Cover'[i] <= Cover[i]
    BY <1>2, CoverShrinks
  <2> DEFINE v == Cover'
             w == Cover
  <2>2. Total(v, Jobs) <= Total(w, Jobs) /\ Total(v, Jobs) \in Nat /\ Total(w, Jobs) \in Nat
    <3>1. /\ \A x \in Jobs : w[x] \in Nat
          /\ \A x \in Jobs : v[x] \in Nat /\ v[x] <= w[x]
      BY <1>1, <2>1
    <3> HIDE DEF v, w
    <3> QED BY <1>1, <3>1, TotalMonotone, TotalChosen
  <2>3. Total(w, Jobs) <= Budget
    BY DEF BudgetInv
  <2> QED BY <2>2, <2>3, BytesAssumption DEF BudgetInv
<1>3. ASSUME NEW content \in Contents, NEW key \in Contents \cup Keys, Submit(content, key)
      PROVE  BudgetInv'
  <2>1. PICK j \in Jobs :
           /\ meta[j] = NoMeta /\ j \notin expired
           /\ Status(j)' = "queued" /\ meta'[j].charge = Reserve
           /\ \A i \in Jobs \ {j} : (i \in expired => Goes(i)) /\ (i \notin expired => Kept(i))
    BY <1>3, SubmitEffect
  <2>2. Cover'[j] = Reserve
    BY <2>1, CoverThen, CappedBytes DEF InFlight
  <2>3. Cover'[j] <= Reserve /\ Fits
    BY <1>3, <2>2, ReserveTyped DEF Submit
  <2> QED BY <2>1, <2>3, CoverArrives
<1>4. ASSUME Crash, ~ UNCHANGED disk PROVE BudgetInv'
  <2>1. Fits
    BY <1>4, LeftoverEffect
  <2>2. PICK j \in Jobs :
           /\ meta[j] = NoMeta /\ j \notin expired
           /\ Status(j)' = "bare" /\ size'[j] \in 0..SourceBytes
           /\ \A i \in Jobs \ {j} : (i \in expired => Goes(i)) /\ (i \notin expired => Kept(i))
    BY <1>4, LeftoverEffect
  <2>3. Cover'[j] = size'[j]
    BY <2>2, CoverThen DEF InFlight, Terminal
  <2>4. Cover'[j] <= Reserve
    BY <2>2, <2>3, BytesAssumption DEF Reserve
  <2> QED BY <2>1, <2>2, <2>4, CoverArrives
<1> QED BY <1>2, <1>3, <1>4, NextSteps

\* Nothing is charged at the start.
LEMMA InitBudget == Init => BudgetInv
<1> SUFFICES ASSUME Init PROVE BudgetInv
  OBVIOUS
<1>1. TypeOK
  BY InitTypeOK
<1>2. \A j \in Jobs : Cover[j] = 0
  BY DEF Init, Cover, Known, NoMeta, InFlight, Terminal
<1>3. Total(Cover, Jobs) = 0
  BY <1>2, TotalZero, JobsAssumption
<1> QED BY <1>1, <1>3, BytesAssumption DEF BudgetInv

-----------------------------------------------------------------------------
(* What holds in every reachable state                                     *)

LEMMA InitIInv == Init => IInv
BY InitTypeOK, InitControl, InitBudget DEF IInv

LEMMA NextIInv == IInv /\ [Next]_vars => IInv'
BY NextControl, NextBudget DEF IInv

\* The reachable states satisfy the inductive invariant.
THEOREM PatternInvariance == Spec => []IInv
BY InitIInv, NextIInv, PTL DEF Spec

\* Every reachable state is well typed: no folder holds more than a source, a
\* full result and the archive it replaces, and markers lie in folders of jobs.
THEOREM PatternTypeCorrect == Spec => []TypeOK
<1>1. IInv => TypeOK
  BY DEF IInv
<1>2. QED
  BY <1>1, PatternInvariance, PTL

\* With any number of uploads, deletions and restarts, a job that waits on
\* disk waits in memory, or is the one the supervisor has taken.
THEOREM PatternDispatch == Spec => []QueuedIsDispatched
<1>1. IInv => QueuedIsDispatched
  BY DEF IInv, ControlInv, QueueInv, QueuedIsDispatched, Status, Range
<1>2. QED
  BY <1>1, PatternInvariance, PTL

\* What is stored, up to what was reserved, fits in what is charged.
LEMMA StoredWithinCharge == ASSUME TypeOK, FolderInv, BudgetInv PROVE DiskWithinBudget
<1>1. /\ IsFiniteSet(Jobs) /\ \A j \in Jobs : Cover[j] \in Nat /\ Stored[j] \in Nat
  BY JobsAssumption, CoverTyped, WithinTyped DEF Stored
<1>2. \A j \in Jobs : Stored[j] <= Cover[j]
  <2> SUFFICES ASSUME NEW j \in Jobs PROVE Stored[j] <= Cover[j]
    OBVIOUS
  <2>1. Stored[j] = IF Status(j) \in InFlight \cup Terminal THEN Retained(Within(j)) ELSE Within(j)
    BY DEF Stored, Known, Status
  <2>2. /\ Within(j) \in Nat /\ Within(j) <= size[j] /\ Retained(Within(j)) <= Reserve
        /\ Retained(Within(j)) \in Nat /\ Retained(Within(j)) <= Retained(size[j])
    BY WithinTyped
  <2>3. meta[j].charge \in Nat /\ Retained(size[j]) \in Nat /\ Reserve \in Nat
    BY Numbers, ReserveTyped
  <2>4. CASE Status(j) \in InFlight
    BY <2>1, <2>2, <2>4, CoverNow, CappedBytes DEF FolderInv
  <2>5. CASE Status(j) \in Terminal
    <3>1. Retained(Within(j)) <= meta[j].charge
      BY <2>2, <2>3, <2>5 DEF FolderInv
    <3> QED BY <2>1, <2>2, <2>3, <2>5, <3>1, CoverNow DEF Capped
  <2>6. CASE Status(j) \notin InFlight \cup Terminal
    BY <2>1, <2>2, <2>6, CoverNow
  <2> QED BY <2>4, <2>5, <2>6
<1> DEFINE v == Stored
           w == Cover
<1>3. Total(v, Jobs) <= Total(w, Jobs) /\ Total(v, Jobs) \in Nat /\ Total(w, Jobs) \in Nat
  <2>1. /\ \A x \in Jobs : w[x] \in Nat
        /\ \A x \in Jobs : v[x] \in Nat /\ v[x] <= w[x]
    BY <1>1, <1>2
  <2> HIDE DEF v, w
  <2> QED BY <1>1, <2>1, TotalMonotone, TotalChosen
<1>4. Total(w, Jobs) <= Budget
  BY DEF BudgetInv
<1>5. \A j \in Jobs : size[j] # Within(j) => Unreserved(j)
  BY WithinTyped DEF FolderInv, Bounded
<1> QED BY <1>3, <1>4, <1>5, StoredIsTotal, BytesAssumption

\* Whatever the budget and however tasks end, shrink, expire and are removed
\* while others are admitted: the disk never holds more than the budget, each
\* folder counted up to what submit reserved for it, and only a browser's task
\* has more, while it runs or when it was killed as it replaced its archive.
THEOREM PatternWithinBudget == Spec => []DiskWithinBudget
<1>1. IInv => DiskWithinBudget
  BY StoredWithinCharge DEF IInv, ControlInv
<1>2. QED
  BY <1>1, PatternInvariance, PTL

\* A result stands until the folder goes: neither a restart, nor a child
\* that is late, nor a deletion that is refused writes another one.
THEOREM PatternSettled == Spec => SettledIsFinal
<1>1. ASSUME IInv, [Next]_vars, NEW j \in Jobs, meta[j].status \in Terminal, sup.job # j
      PROVE  meta'[j].status \in {meta[j].status, "none"}
  <2>1. TypeOK /\ ControlInv
    BY <1>1 DEF IInv
  <2>2. CASE FolderSteps
    <3>1. Kept(j) \/ Ends(j) \/ Goes(j) \/ Runs(j)
      BY <2>2 DEF FolderSteps
    <3> QED BY <1>1, <3>1 DEF Kept, Ends, Goes, Runs, Status
  <2>3. ASSUME NEW content \in Contents, NEW key \in Contents \cup Keys, Submit(content, key)
        PROVE  meta'[j].status \in {meta[j].status, "none"}
    <3>1. PICK i \in Jobs :
             /\ meta[i] = NoMeta
             /\ \A k \in Jobs \ {i} : Goes(k) \/ Kept(k)
      BY <2>1, <2>3, SubmitEffect
    <3>2. j # i
      BY <1>1, <3>1 DEF NoMeta, Terminal
    <3> QED BY <3>1, <3>2 DEF Goes, Kept, Status
  <2>4. ASSUME Crash, ~ UNCHANGED disk
        PROVE  meta'[j].status \in {meta[j].status, "none"}
    <3>1. PICK i \in Jobs :
             /\ meta[i] = NoMeta
             /\ \A k \in Jobs \ {i} : Goes(k) \/ Kept(k)
      BY <2>1, <2>4, LeftoverEffect
    <3>2. j # i
      BY <1>1, <3>1 DEF NoMeta, Terminal
    <3> QED BY <3>1, <3>2 DEF Goes, Kept, Status
  <2> QED BY <1>1, <2>1, <2>2, <2>3, <2>4, NextSteps
<1>2. IInv /\ [Next]_vars =>
        [\A j \in Jobs : meta[j].status \in Terminal /\ sup.job # j =>
             meta'[j].status \in {meta[j].status, "none"}]_vars
  BY <1>1
<1>3. QED
  BY <1>2, PatternInvariance, PTL DEF Spec, SettledIsFinal

-----------------------------------------------------------------------------
(* The refinement of FifoTasks                                             *)

\* The stage of the task whose job.json is m.
StageOf(m) ==
    CASE m.status = "queued" -> "waiting"
      [] m.status = "processing" -> "running"
      [] m.status \in Terminal -> "ended"
      [] m.status = "bare" -> "new"
      [] OTHER -> IF m.order = 0 THEN "new" ELSE "gone"

Stage == [j \in Jobs |-> StageOf(meta[j])]
Rank == [j \in Jobs |-> meta[j].order]

LEMMA Stages ==
    ASSUME NEW m
    PROVE  /\ m.status = "queued" <=> StageOf(m) = "waiting"
           /\ m.status = "processing" <=> StageOf(m) = "running"
           /\ m.status \in Terminal <=> StageOf(m) = "ended"
           /\ m.status = "bare" => StageOf(m) = "new"
           /\ m.status = "none" => StageOf(m) = IF m.order = 0 THEN "new" ELSE "gone"
<1>1. CASE m.status = "queued"
  BY <1>1 DEF StageOf, Terminal
<1>2. CASE m.status = "processing"
  BY <1>2 DEF StageOf, Terminal
<1>3. CASE m.status \in Terminal
  BY <1>3 DEF StageOf, Terminal
<1>4. CASE m.status = "bare"
  BY <1>4 DEF StageOf, Terminal
<1>5. CASE m.status \notin {"queued", "processing", "bare"} \cup Terminal
  BY <1>5 DEF StageOf, Terminal
<1> QED BY <1>1, <1>2, <1>3, <1>4, <1>5

\* Tasks end and are forgotten.
LEMMA LeavingStep ==
    ASSUME TypeOK, FolderInv,
           \A j \in Jobs :
              \/ StageOf(meta'[j]) = StageOf(meta[j])
              \/ Ends(j) \/ Goes(j),
           \A j \in Jobs : meta'[j].order = meta[j].order
    PROVE  FifoTasks!Next
<1> DEFINE ending == {j \in Jobs : meta[j].status \in InFlight /\ meta'[j].status \in Terminal}
           forgotten == {j \in Jobs : meta[j].status \in Terminal /\ meta'[j].status = "none"}
<1>1. \A j \in Jobs : /\ StageOf(meta[j]) = Stage[j] /\ StageOf(meta'[j]) = Stage'[j]
  BY DEF Stage
<1>2. \A j \in ending : Stage[j] \in {"waiting", "running"} /\ Stage'[j] = "ended"
  BY <1>1, Stages DEF Status, InFlight
<1>3. \A j \in forgotten : Stage[j] = "ended" /\ Stage'[j] = "gone"
  <2> SUFFICES ASSUME NEW j \in forgotten PROVE Stage[j] = "ended" /\ Stage'[j] = "gone"
    OBVIOUS
  <2>1. meta[j].order # 0 /\ meta'[j].order = meta[j].order
    BY Numbers DEF FolderInv, Status
  <2> QED BY <1>1, <2>1, Stages DEF Status
<1>4. ASSUME NEW j \in Jobs, j \notin ending, j \notin forgotten PROVE Stage'[j] = Stage[j]
  <2>1. CASE StageOf(meta'[j]) = StageOf(meta[j])
    BY <1>1, <2>1
  <2>2. CASE Ends(j)
    <3>1. Status(j) \in Terminal /\ Status(j)' \in Terminal
      BY <1>4, <2>2 DEF Ends, Status
    <3> QED BY <1>1, <3>1, Stages DEF Status
  <2>3. CASE Goes(j)
    <3>1. Status(j) = "bare" /\ Status(j)' = "none"
      BY <1>4, <2>3 DEF Goes, Status
    <3>2. meta'[j].order = 0
      BY <3>1 DEF FolderInv
    <3> QED BY <1>1, <3>1, <3>2, Stages DEF Status
  <2> QED BY <2>1, <2>2, <2>3
<1>5. ending \cap forgotten = {}
  BY DEF Terminal
<1>6. Stage' = [j \in Jobs |-> IF j \in ending THEN "ended"
                               ELSE IF j \in forgotten THEN "gone" ELSE Stage[j]]
  <2>1. Stage' = [j \in Jobs |-> Stage'[j]]
    BY DEF Stage
  <2> HIDE DEF ending, forgotten
  <2> QED BY <1>2, <1>3, <1>4, <2>1
<1>7. Rank' = Rank
  BY DEF Rank
<1>8. /\ \A t \in ending : Stage[t] \in {"waiting", "running"}
      /\ \A t \in forgotten : Stage[t] = "ended"
  BY <1>2, <1>3
<1>9. \E e, f \in SUBSET Jobs :
         /\ \A t \in e : Stage[t] \in {"waiting", "running"}
         /\ \A t \in f : Stage[t] = "ended"
         /\ Stage' = [t \in Jobs |-> IF t \in e THEN "ended" ELSE IF t \in f THEN "gone" ELSE Stage[t]]
         /\ Rank' = Rank
  <2>1. ending \in SUBSET Jobs /\ forgotten \in SUBSET Jobs
    OBVIOUS
  <2> HIDE DEF ending, forgotten
  <2> QED BY <1>6, <1>7, <1>8, <2>1
<1> QED BY <1>9 DEF FifoTasks!Next, FifoTasks!Leave, FifoTasks!Ended, Stage, Rank, StageOf

\* The child begins its job: nothing runs, and what waits came later.
LEMMA BeginningStep ==
    ASSUME TypeOK, ControlInv, NEW j \in Jobs, Runs(j), Status(j) = "queued",
           \A i \in Jobs : meta'[i].order = meta[i].order
    PROVE  FifoTasks!Next
<1>1. \A i \in Jobs : Stage[i] = StageOf(meta[i]) /\ Stage'[i] = StageOf(meta'[i]) /\ Rank[i] = meta[i].order
  BY DEF Stage, Rank
<1>2. sup.job = j /\ Up /\ ProcessingInv /\ QueueInv
  BY DEF Runs, Up, ControlInv
<1>3. Stage[j] = "waiting" /\ Stage'[j] = "running"
  BY <1>1, Stages DEF Runs, Status
<1>4. ASSUME NEW u \in Jobs PROVE Stage[u] # "running"
  <2>1. Status(u) # "processing"
    BY <1>2 DEF ProcessingInv, Status
  <2> QED BY <1>1, <2>1, Stages DEF Status
<1>5. ASSUME NEW u \in Jobs, Stage[u] = "waiting" PROVE Rank[j] <= Rank[u]
  <2>1. Status(u) = "queued" /\ Rank[j] = meta[j].order /\ Rank[u] = meta[u].order
    BY <1>1, <1>5, Stages DEF Status
  <2>2. meta[j].order \in Nat /\ meta[u].order \in Nat
    BY Numbers
  <2>3. CASE u = j
    BY <2>1, <2>2, <2>3
  <2>4. CASE u # j
    <3>1. \E i \in DOMAIN pending : pending[i] = u
      BY <1>2, <2>1, <2>4 DEF QueueInv
    <3> QED BY <1>2, <2>1, <2>2, <3>1 DEF QueueInv
  <2> QED BY <2>3, <2>4
<1>6. Stage' = [Stage EXCEPT ![j] = "running"]
  <2>1. \A i \in Jobs : i # j => Stage'[i] = Stage[i]
    BY <1>1 DEF Runs
  <2>2. Stage \in [Jobs -> {Stage[i] : i \in Jobs}] /\ Stage' = [i \in Jobs |-> Stage'[i]]
    BY DEF Stage
  <2> QED BY <1>3, <2>1, <2>2
<1>7. Rank' = Rank
  BY DEF Rank
<1> QED BY <1>3, <1>4, <1>5, <1>6, <1>7 DEF FifoTasks!Next, FifoTasks!Begin, Stage, Rank, StageOf

\* An upload is accepted behind all others, and expired folders go.
LEMMA AcceptingStep ==
    ASSUME TypeOK, ControlInv, NEW content \in Contents, NEW key \in Contents \cup Keys,
           Submit(content, key)
    PROVE  FifoTasks!Next
<1>1. PICK j \in Jobs :
         /\ meta[j] = NoMeta /\ j \notin expired
         /\ Status(j)' = "queued" /\ meta'[j].order \in Nat
         /\ \A i \in Jobs : meta[i].order < meta'[j].order
         /\ \A i \in Jobs \ {j} :
               /\ meta'[i].order = meta[i].order
               /\ i \in expired => Goes(i)
               /\ i \notin expired => Kept(i)
  BY SubmitEffect
<1>2. \A i \in Jobs : /\ Stage[i] = StageOf(meta[i]) /\ Stage'[i] = StageOf(meta'[i])
                      /\ Rank[i] = meta[i].order /\ Rank'[i] = meta'[i].order
  BY DEF Stage, Rank
<1> DEFINE forgotten == {i \in expired : meta[i].status \in Terminal}
<1>3. Stage[j] = "new" /\ Stage'[j] = "waiting"
  <2>1. meta[j].status = "none" /\ meta[j].order = 0
    BY <1>1 DEF NoMeta
  <2> QED BY <1>1, <1>2, <2>1, Stages DEF Status
<1>4. expired \subseteq Jobs
  BY DEF TypeOK
<1>5. \A i \in forgotten : Stage[i] = "ended" /\ Stage'[i] = "gone" /\ i # j
  <2> SUFFICES ASSUME NEW i \in forgotten PROVE Stage[i] = "ended" /\ Stage'[i] = "gone" /\ i # j
    OBVIOUS
  <2>1. i \in Jobs \ {j} /\ Goes(i)
    BY <1>1, <1>4
  <2>2. meta[i].order # 0 /\ meta'[i].order = meta[i].order
    BY <1>1, <2>1, Numbers DEF ControlInv, FolderInv, Status
  <2>3. Stage[i] = "ended"
    BY <1>2, <2>1, Stages
  <2>4. Stage'[i] = "gone"
    BY <1>2, <2>1, <2>2, Stages DEF Goes, Status
  <2> QED BY <2>1, <2>3, <2>4
<1>6. ASSUME NEW i \in Jobs, i # j, i \notin forgotten PROVE Stage'[i] = Stage[i]
  <2>1. CASE i \notin expired
    BY <1>1, <1>2, <1>6, <2>1 DEF Kept
  <2>2. CASE i \in expired
    <3>1. Status(i) = "bare" /\ Status(i)' = "none"
      BY <1>1, <1>6, <2>2 DEF Goes, Status
    <3>2. meta[i].order = 0 /\ meta'[i].order = meta[i].order
      BY <1>1, <1>6, <3>1 DEF ControlInv, FolderInv
    <3> QED BY <1>2, <3>1, <3>2, Stages DEF Status
  <2> QED BY <2>1, <2>2
<1>7. Stage' = [i \in Jobs |-> IF i = j THEN "waiting"
                               ELSE IF i \in forgotten THEN "gone" ELSE Stage[i]]
  <2>1. Stage' = [i \in Jobs |-> Stage'[i]]
    BY DEF Stage
  <2> HIDE DEF forgotten
  <2> QED BY <1>3, <1>5, <1>6, <2>1
<1>8. Rank' = [Rank EXCEPT ![j] = Rank'[j]] /\ \A u \in Jobs : Rank[u] < Rank'[j]
  <2>1. \A i \in Jobs : i # j => Rank'[i] = Rank[i]
    BY <1>1, <1>2
  <2>2. Rank = [i \in Jobs |-> Rank[i]] /\ Rank' = [i \in Jobs |-> Rank'[i]]
    BY DEF Rank
  <2>3. Rank' = [Rank EXCEPT ![j] = Rank'[j]]
    BY <2>1, <2>2
  <2> QED BY <1>1, <1>2, <2>3
<1>9. \E f \in SUBSET Jobs :
         /\ \A t \in f : Stage[t] = "ended"
         /\ Stage' = [i \in Jobs |-> IF i = j THEN "waiting" ELSE IF i \in f THEN "gone" ELSE Stage[i]]
  <2>1. forgotten \in SUBSET Jobs
    BY <1>4
  <2> HIDE DEF forgotten
  <2> QED BY <1>5, <1>7, <2>1
<1> QED BY <1>3, <1>8, <1>9 DEF FifoTasks!Next, FifoTasks!Accept, FifoTasks!Ended, Stage, Rank, StageOf

\* A kill while an upload is written: expired folders are gone, none is new.
LEMMA LeftoverStep ==
    ASSUME TypeOK, ControlInv, Crash, ~ UNCHANGED disk
    PROVE  FifoTasks!Next
<1>1. PICK j \in Jobs :
         /\ meta[j] = NoMeta
         /\ Status(j)' = "bare" /\ meta'[j].order = 0
         /\ \A i \in Jobs \ {j} : meta'[i].order = meta[i].order /\ (Goes(i) \/ Kept(i))
  BY LeftoverEffect
<1>2. meta[j].order = 0 /\ meta[j].status = "none"
  BY <1>1 DEF NoMeta
<1>3. StageOf(meta'[j]) = StageOf(meta[j])
  BY <1>1, <1>2, Stages DEF Status
<1>4. \A i \in Jobs : meta'[i].order = meta[i].order
  BY <1>1, <1>2
<1>5. \A i \in Jobs : StageOf(meta'[i]) = StageOf(meta[i]) \/ Ends(i) \/ Goes(i)
  BY <1>1, <1>3 DEF Kept
<1> QED BY <1>4, <1>5, LeavingStep DEF ControlInv

\* For any number of tasks, restarts and deletions: the tasks of the service
\* begin one at a time in the order they were accepted in, and none is lost.
THEOREM PatternImplementsFifo == Spec => KeepsOrder
<1>1. Init => FifoTasks!Init
  BY DEF Init, FifoTasks!Init, NoMeta, Terminal
<1>2. IInv /\ [Next]_vars => [FifoTasks!Next]_(FifoTasks!vars)
  <2> SUFFICES ASSUME IInv, [Next]_vars PROVE FifoTasks!Next
    OBVIOUS
  <2>1. TypeOK /\ ControlInv
    BY DEF IInv
  <2>2. ASSUME FolderSteps PROVE FifoTasks!Next
    <3>1. \A i \in Jobs : meta'[i].order = meta[i].order
      BY <2>2 DEF FolderSteps
    <3>2. CASE \E j \in Jobs : Runs(j) /\ Status(j) = "queued"
      BY <2>1, <3>1, <3>2, BeginningStep
    <3>3. CASE ~ \E j \in Jobs : Runs(j) /\ Status(j) = "queued"
      <4>1. ASSUME NEW i \in Jobs
            PROVE  StageOf(meta'[i]) = StageOf(meta[i]) \/ Ends(i) \/ Goes(i)
        <5>1. CASE Kept(i)
          BY <5>1 DEF Kept
        <5>2. CASE Runs(i)
          <6>1. meta[i].status = "processing" /\ meta'[i].status = "processing"
            BY <3>3, <5>2 DEF Runs, Status, InFlight
          <6> QED BY <6>1, Stages
        <5> QED BY <2>2, <5>1, <5>2 DEF FolderSteps
      <4> QED BY <2>1, <3>1, <4>1, LeavingStep DEF ControlInv
    <3> QED BY <3>2, <3>3
  <2> QED BY <2>1, <2>2, AcceptingStep, LeftoverStep, NextSteps
<1>3. QED
  BY <1>1, <1>2, PatternInvariance, PTL DEF Spec, KeepsOrder, FifoTasks!Spec

=============================================================================
