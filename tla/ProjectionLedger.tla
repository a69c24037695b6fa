-------------------------- MODULE ProjectionLedger --------------------------
(***************************************************************************)
(* The projection service: the SQLite ledger of sessions and leases        *)
(* (app/projection_store.py), the requests that use it                     *)
(* (app/projection.py) and the child process each of them supervises       *)
(* (app/projection_runtime.py, projection_bootstrap.py).                   *)
(*                                                                         *)
(* A transaction is one step; SQLite admits one writer at a time.  What a  *)
(* request does between two transactions is a step of its own.             *)
(***************************************************************************)
EXTENDS Naturals, FiniteSets, FiniteSetsExt

CONSTANTS
    Uploads,      \* POST /documents; each creates at most one document
    Tiles,        \* GET /documents/<id>/tile
    Closers,      \* DELETE /documents/<id>
    Owners,
    Owner,        \* the account an upload belongs to
    NoDoc,
    OwnerMaxDocuments, GlobalParsers, GlobalRenderers, OwnerRenderers,
    MaxCrashes    \* bound: how often the worker is killed

Tasks == Uploads \cup Tiles
Droppers == Uploads \cup Closers

ASSUME RequestsAssumption ==
    /\ IsFiniteSet(Uploads) /\ IsFiniteSet(Tiles)
    /\ Uploads \cap Tiles = {} /\ Tasks \cap Closers = {}
    /\ Owner \in [Uploads -> Owners]
    /\ NoDoc \notin Uploads

ASSUME PolicyAssumption ==
    /\ {OwnerMaxDocuments, GlobalParsers, GlobalRenderers, OwnerRenderers} \subseteq Nat \ {0}
    /\ MaxCrashes \in Nat

VARIABLES
    docs,     \* the session an upload created
    source,   \* files in documents/
    lease,    \* the leases
    created,  \* the place of an upload among its account's reservations, 0 before
    pc,       \* where each request is, "dead" when the worker was killed
    ok,       \* uploads whose child delivered a result
    drop,     \* idle leases a request has still to release
    child,    \* the process a request supervises
    crashes

ledger == <<docs, source, lease, created>>
vars == <<ledger, pc, ok, drop, child, crashes>>

-----------------------------------------------------------------------------
NoLease == [kind |-> "none", stale |-> FALSE, pid |-> "null", doc |-> NoDoc]

Pid == {"null", "claimed", "attached"}

\* A row that is gone has no process.
UploadLease == {NoLease} \cup
    [kind : {"upload", "upload-parse", "upload_done"}, stale : BOOLEAN, pid : Pid, doc : {NoDoc}]
TileLease == {NoLease} \cup
    [kind : {"tile"}, stale : {FALSE}, pid : Pid, doc : Uploads]

\* generation = -1 on an upload means that a newer one was reserved.
NewLease(kind, doc) == [NoLease EXCEPT !.kind = kind, !.doc = doc]

OwnedBy(o) == {u \in Uploads : Owner[u] = o}
Unfinished == {u \in Uploads : lease[u].kind \in {"upload", "upload-parse"}}
Superseded == {u \in Unfinished : lease[u].stale}
Sessions == {u \in Uploads : docs[u] \in {"active", "deleted"}}
Parsing == {u \in Uploads : lease[u].kind = "upload-parse"}
Rendering == {t \in Tiles : lease[t].kind = "tile"}

Alive == {"boot", "running"}

At(t, state) == pc[t] = state
Go(t, state) == pc' = [pc EXCEPT ![t] = state]

\* _expire: a deleted session goes, with its file, when no lease names it.
Settle(sessions, leases, files) ==
    LET idle == {d \in Uploads : sessions[d] = "deleted" /\ \A t \in Tiles : leases[t].doc # d}
    IN  /\ docs' = [d \in Uploads |-> IF d \in idle THEN "gone" ELSE sessions[d]]
        /\ source' = files \ idle
        /\ lease' = leases

Retired(sessions, ds) == [d \in Uploads |-> IF d \in ds THEN "deleted" ELSE sessions[d]]
Active(o) == {d \in OwnedBy(o) : docs[d] = "active"}

\* The unclaimed leases of documents that are being deleted.
Unclaimed(ds) == {t \in Tiles : lease[t].doc \in ds /\ lease[t].pid = "null"}

\* release: process_alive of an unknown child is TRUE.
MayRelease(t) ==
    \/ lease[t].pid = "null"
    \/ lease[t].pid = "attached" /\ child[t] \notin Alive

\* Seeded bug: the sessions are left to the next transaction.
ReleaseLease_Only(t) ==
    /\ lease' = IF MayRelease(t) THEN [lease EXCEPT ![t] = NoLease] ELSE lease
    /\ UNCHANGED <<docs, source>>

\* release: nothing to do for a lease that is gone, or whose child may live.
ReleaseLease(t) ==
    IF lease[t].kind # "none" /\ MayRelease(t)
    THEN Settle(docs, [lease EXCEPT ![t] = NoLease], source)
    ELSE UNCHANGED <<docs, source, lease>>

-----------------------------------------------------------------------------
(* upload_document                                                         *)

\* delete_all: the account's documents are retired before anything else.
DeleteAll(u) ==
    /\ At(u, "start")
    /\ Settle(Retired(docs, Active(Owner[u])), lease, source)
    /\ drop' = [drop EXCEPT ![u] = Unclaimed(Active(Owner[u]))]
    /\ Go(u, "reserve")
    /\ UNCHANGED <<created, ok, child, crashes>>

\* The idle leases of retired documents are released one by one.
Drop(a, t) ==
    /\ t \in drop[a]
    /\ ReleaseLease(t)
    /\ drop' = [drop EXCEPT ![a] = @ \ {t}]
    /\ UNCHANGED <<created, pc, ok, child, crashes>>

\* Seeded bug: uploads that unwind may pile up.
Admits_Unwinding(u) ==
    LET mine == OwnedBy(Owner[u])
    IN  Cardinality(Sessions \cap mine) + Cardinality((Unfinished \ Superseded) \cap mine)
            < OwnerMaxDocuments

Admits(u) ==
    LET mine == OwnedBy(Owner[u])
    IN  /\ Cardinality(Sessions \cap mine) + Cardinality((Unfinished \ Superseded) \cap mine)
               < OwnerMaxDocuments
        /\ Cardinality(Superseded \cap mine) < OwnerMaxDocuments

\* Seeded bug: the other uploads of the account go on.
Supersede_Nobody(u) == [lease EXCEPT ![u] = NewLease("upload", NoDoc)]

\* The last initiated upload wins.
Supersede(u) ==
    [t \in Tasks |-> IF t = u THEN NewLease("upload", NoDoc)
                     ELSE IF t \in Unfinished \cap OwnedBy(Owner[u])
                          THEN [lease[t] EXCEPT !.stale = TRUE] ELSE lease[t]]

Reserve(u) ==
    /\ At(u, "reserve") /\ drop[u] = {}
    /\ Admits(u)
    /\ Settle(docs, Supersede(u), source)
    /\ created' = [created EXCEPT ![u] = 1 + Max({created[v] : v \in OwnedBy(Owner[u])})]
    /\ Go(u, "body")
    /\ UNCHANGED <<ok, drop, child, crashes>>

\* The account's limits, bytes or the disk are exhausted.
ReserveRejected(u) ==
    /\ At(u, "reserve") /\ drop[u] = {}
    /\ Go(u, "end")
    /\ UNCHANGED <<ledger, ok, drop, child, crashes>>

\* The body is refused, breaks off, or its derived bytes are.
BodyRejected(u) ==
    /\ At(u, "body")
    /\ Go(u, "release")
    /\ UNCHANGED <<ledger, ok, drop, child, crashes>>

\* Seeded bug: uploads that unwind do not count against the pool.
ParserFree_Unwinding == Cardinality(Parsing \ Superseded) < GlobalParsers

ParserFree == Cardinality(Parsing) < GlobalParsers

\* begin_parse.  It waits for a superseded upload to unwind, and gives up
\* after 1.5 seconds.
BeginParse(u) ==
    /\ At(u, "body")
    /\ \/ /\ lease[u].stale \/ ~ParserFree
          /\ Go(u, "release")
          /\ UNCHANGED lease
       \/ /\ ~lease[u].stale /\ ParserFree
          /\ lease' = [lease EXCEPT ![u].kind = "upload-parse"]
          /\ Go(u, "claim")
    /\ UNCHANGED <<docs, source, created, ok, drop, child, crashes>>

\* _reject_superseded
NewerThan(u) ==
    \E v \in OwnedBy(Owner[u]) \ {u} :
        created[v] > created[u] /\ (v \in Unfinished \/ docs[v] = "active")

\* complete_upload: the document appears and the others go, at once.
Complete(u) ==
    LET others == Active(Owner[u]) IN
    /\ At(u, "complete")
    /\ \/ /\ ~lease[u].stale /\ ~NewerThan(u)
          /\ Settle([Retired(docs, others) EXCEPT ![u] = "active"],
                    [lease EXCEPT ![u].kind = "upload_done"], source \cup {u})
          /\ drop' = [drop EXCEPT ![u] = Unclaimed(others)]
       \/ \* Superseded, too large, or the disk fails.
          UNCHANGED <<docs, source, lease, drop>>
    /\ Go(u, "release")
    /\ UNCHANGED <<created, ok, child, crashes>>

-----------------------------------------------------------------------------
(* get_tile, close_document                                                *)

RenderingFor(o) == {t \in Rendering : Owner[lease[t].doc] = o}

RendererFree(d) ==
    /\ Cardinality(Rendering) < GlobalRenderers
    /\ Cardinality(RenderingFor(Owner[d])) < OwnerRenderers

ReserveTile(t, d) ==
    /\ At(t, "start")
    /\ docs[d] = "active"
    /\ RendererFree(d)
    /\ lease' = [lease EXCEPT ![t] = NewLease("tile", d)]
    /\ Go(t, "claim")
    /\ UNCHANGED <<docs, source, created, ok, drop, child, crashes>>

Close(c, d) ==
    /\ drop[c] = {}
    /\ docs[d] = "active"
    /\ Settle(Retired(docs, {d}), lease, source)
    /\ drop' = [drop EXCEPT ![c] = Unclaimed({d})]
    /\ UNCHANGED <<created, pc, ok, child, crashes>>

\* The hour passes without a heartbeat; the next transaction notices.
Expire(d) ==
    /\ docs[d] = "active"
    /\ Settle(Retired(docs, {d}), lease, source)
    /\ UNCHANGED <<created, pc, ok, drop, child, crashes>>

-----------------------------------------------------------------------------
(* run: the supervised child                                               *)

\* Seeded bug: a lease that was dropped is not missed.
Claimable_Always(t) == TRUE

Claimable(t) == lease[t].kind # "none" /\ lease[t].pid = "null"

Claim(t) ==
    /\ At(t, "claim")
    /\ \/ /\ Claimable(t)
          /\ lease' = [lease EXCEPT ![t].pid = "claimed"]
          /\ Go(t, "spawn")
       \/ \* The lease was dropped, or its folder cannot be written.
          Go(t, "release") /\ UNCHANGED lease
    /\ UNCHANGED <<docs, source, created, ok, drop, child, crashes>>

Spawn(t) ==
    /\ At(t, "spawn")
    /\ \/ /\ child' = [child EXCEPT ![t] = "boot"]
          /\ Go(t, "attach")
       \/ \* Popen raises.
          Go(t, "reap") /\ UNCHANGED child
    /\ UNCHANGED <<ledger, ok, drop, crashes>>

Attach(t) ==
    /\ At(t, "attach")
    /\ lease' = [lease EXCEPT ![t].pid = "attached"]
    /\ Go(t, "watch")
    /\ UNCHANGED <<docs, source, created, ok, drop, child, crashes>>

\* valid_lease
Valid(t) ==
    /\ lease[t].kind # "none"
    /\ IF t \in Uploads THEN ~lease[t].stale ELSE docs[lease[t].doc] = "active"

Delivered(t) == IF child[t] = "ended" /\ Valid(t) THEN {t} \cap Uploads ELSE {}

\* Seeded bug: a request waits for its child whatever happens to the lease.
Watch_Patient(t) ==
    /\ At(t, "watch")
    /\ child[t] = "ended"
    /\ ok' = ok \cup Delivered(t)
    /\ Go(t, "reap")
    /\ UNCHANGED <<ledger, drop, child, crashes>>

\* The child ended, the lease is not valid any more, or time is up.
Watch(t) ==
    /\ At(t, "watch")
    /\ ok' \in {ok, ok \cup Delivered(t)}
    /\ Go(t, "reap")
    /\ UNCHANGED <<ledger, drop, child, crashes>>

\* terminate, until the child is reaped.
Reap(t) ==
    /\ At(t, "reap")
    /\ child' = [child EXCEPT ![t] = "none"]
    /\ Go(t, "clear")
    /\ UNCHANGED <<ledger, ok, drop, crashes>>

Clear(t) ==
    /\ At(t, "clear")
    /\ lease' = [lease EXCEPT ![t].pid = "null"]
    /\ Go(t, IF t \in ok THEN "complete" ELSE "release")
    /\ ok' = ok \ {t}
    /\ UNCHANGED <<docs, source, created, drop, child, crashes>>

Release(t) ==
    /\ At(t, "release")
    /\ t \in Uploads => drop[t] = {}
    /\ ReleaseLease(t)
    /\ Go(t, "end")
    /\ UNCHANGED <<created, ok, drop, child, crashes>>

\* projection_bootstrap: a child whose parent has gone does not start
\* to work.
ChildBoots(t) ==
    /\ child[t] = "boot"
    /\ IF At(t, "dead")
       THEN child' = [child EXCEPT ![t] = "ended"]
       ELSE child' = [child EXCEPT ![t] = "running"]
    /\ UNCHANGED <<ledger, pc, ok, drop, crashes>>

\* The work is done, fails, or is killed, by the death signal for instance.
ChildEnds(t) ==
    /\ child[t] = "running"
    /\ child' = [child EXCEPT ![t] = "ended"]
    /\ UNCHANGED <<ledger, pc, ok, drop, crashes>>

-----------------------------------------------------------------------------
(* The worker is killed                                                    *)

\* All the requests are threads of one worker.  complete_upload may have
\* moved a file, and not committed.
Crash ==
    /\ crashes < MaxCrashes
    /\ crashes' = crashes + 1
    /\ pc' = [t \in Tasks |-> IF pc[t] \in {"start", "end"} THEN pc[t] ELSE "dead"]
    /\ \E moved \in SUBSET {u \in Uploads : At(u, "complete")} :
          Cardinality(moved) <= 1 /\ source' = source \cup moved
    /\ ok' = {}
    /\ drop' = [a \in Droppers |-> {}]
    /\ UNCHANGED <<docs, lease, created, child>>

\* Seeded bug: whoever has gone leaves nothing behind.
Orphaned_NoChild(t) == At(t, "dead")

\* reconcile: neither the supervisor nor its child lives.  A child that was
\* launched and not recorded is known by the child.json it writes when it
\* starts to work.
Orphaned(t) ==
    /\ At(t, "dead")
    /\ \/ lease[t].pid = "null"
       \/ lease[t].pid = "claimed" /\ child[t] # "running"
       \/ lease[t].pid = "attached" /\ child[t] \notin Alive

ReconcileLease(t) ==
    /\ lease[t].kind # "none"
    /\ Orphaned(t)
    /\ Settle(docs, [lease EXCEPT ![t] = NoLease], source)
    /\ UNCHANGED <<created, pc, ok, drop, child, crashes>>

\* Files no session names.
ReconcileFiles ==
    /\ ~(source \subseteq Sessions)
    /\ source' = source \cap Sessions
    /\ UNCHANGED <<docs, lease, created, pc, ok, drop, child, crashes>>

-----------------------------------------------------------------------------
Init ==
    /\ docs = [u \in Uploads |-> "none"]
    /\ source = {}
    /\ lease = [t \in Tasks |-> NoLease]
    /\ created = [u \in Uploads |-> 0]
    /\ pc = [t \in Tasks |-> "start"]
    /\ ok = {}
    /\ drop = [a \in Droppers |-> {}]
    /\ child = [t \in Tasks |-> "none"]
    /\ crashes = 0

Run(t) ==
    \/ Claim(t) \/ Spawn(t) \/ Attach(t) \/ Watch(t)
    \/ Reap(t) \/ Clear(t) \/ Release(t)

Upload(u) ==
    \/ DeleteAll(u) \/ Reserve(u) \/ ReserveRejected(u) \/ BodyRejected(u)
    \/ BeginParse(u) \/ Complete(u)

Child(t) == ChildBoots(t) \/ ChildEnds(t)

Reconcile == ReconcileFiles \/ \E t \in Tasks : ReconcileLease(t)

Next ==
    \/ \E u \in Uploads : Upload(u)
    \/ \E t \in Tasks : Run(t) \/ Child(t)
    \/ \E t \in Tiles, d \in Uploads : ReserveTile(t, d)
    \/ \E c \in Closers, d \in Uploads : Close(c, d)
    \/ \E a \in Droppers, t \in Tiles : Drop(a, t)
    \/ \E d \in Uploads : Expire(d)
    \/ Reconcile
    \/ Crash

Spec == Init /\ [][Next]_vars

\* Requests go on, except for the bodies that clients send; a child dies
\* with its supervisor; other requests reconcile.
FairSpec ==
    /\ Spec
    /\ \A t \in Tasks : WF_vars(Run(t)) /\ WF_vars(At(t, "dead") /\ Child(t))
    /\ \A u \in Uploads : WF_vars(Complete(u))
    /\ \A a \in Droppers : WF_vars(\E t \in Tiles : Drop(a, t))
    /\ WF_vars(Reconcile)

-----------------------------------------------------------------------------
(* Properties                                                              *)

\* The type invariant.  Releasing a lease is left to whoever may: no request
\* claims, attaches or clears a row that was deleted behind its back.
TypeOK ==
    /\ docs \in [Uploads -> {"none", "active", "deleted", "gone"}]
    /\ source \subseteq Uploads
    /\ \A u \in Uploads : lease[u] \in UploadLease
    /\ \A t \in Tiles : lease[t] \in TileLease
    /\ DOMAIN lease = Tasks
    /\ created \in [Uploads -> Nat]
    /\ pc \in [Tasks -> {"start", "reserve", "body", "claim", "spawn", "attach", "watch",
                         "reap", "clear", "complete", "release", "end", "dead"}]
    /\ ok \subseteq Uploads
    /\ drop \in [Droppers -> SUBSET Tiles]
    /\ child \in [Tasks -> Alive \cup {"none", "ended"}]
    /\ crashes \in Nat

\* Uploads that unwind keep staging files; an account has a bounded number.
UnwindingBounded ==
    \A o \in Owners : Cardinality(Superseded \cap OwnedBy(o)) <= OwnerMaxDocuments

\* Processes that parse or render at the same time, kills included.
ChildrenWithinPools ==
    /\ Cardinality({u \in Uploads : child[u] = "running"}) <= GlobalParsers
    /\ Cardinality({t \in Tiles : child[t] = "running"}) <= GlobalRenderers

\* Nobody works without a lease, and nobody reads a file that has gone:
\* deleting a document waits for the children that render it.
ChildrenAreLeased ==
    \A t \in Tasks : child[t] = "running" =>
        /\ lease[t].kind # "none"
        /\ t \in Tiles => lease[t].doc \in source

Latest(o) == {u \in OwnedBy(o) : created[u] # 0 /\ \A v \in OwnedBy(o) : created[v] <= created[u]}

LatestDocument == INSTANCE LatestDocument WITH
    Accounts <- Owners,
    latest <- [o \in Owners |-> Latest(o)],
    current <- [o \in Owners |-> Active(o)]

\* One document per account, and the upload that was initiated last wins.
LastUploadWins == LatestDocument!Spec

\* A slot of the parser or renderer pool comes back, kills included.
SlotsReturn ==
    \A t \in Tasks : lease[t].kind \in {"upload-parse", "tile"} ~> lease[t].kind = "none"

\* A deleted document is erased once nobody reads it, without any further
\* request of the account.
DeletedIsErased == \A d \in Uploads : docs[d] = "deleted" ~> docs[d] = "gone"

=============================================================================
