-------------------------- MODULE ProjectionScenes --------------------------
(***************************************************************************)
(* Scene bundles: the ZIP files with which a projected document is shown   *)
(* without the server.  POST scene prepares the bundle of a view, GET      *)
(* bundle downloads it (app/projection.py); the rows, files and charges    *)
(* are kept by app/projection_scene_store.py in the ledger of              *)
(* ProjectionLedger, whose supervision of the child is abstracted here to  *)
(* its start and its end.                                                  *)
(*                                                                         *)
(* A transaction is one step and begins or ends with the sweep of what has *)
(* expired.  One document of one account; bytes are counted in units.      *)
(***************************************************************************)
EXTENDS Naturals, FiniteSets, Functions

CONSTANTS
    Makers,        \* POST scene
    Readers,       \* GET bundle
    NoMaker,
    Views,         \* layout, page:0, ...
    Slots,         \* GLOBAL_RENDERERS and OWNER_RENDERERS, whichever is less
    MaxBundle,     \* DERIVED_MAX_BYTES
    OwnerBytes,    \* OWNER_DERIVED_BYTES
    MaxLayouts,    \* bound: layouts applied
    MaxCrashes     \* bound: how often the web worker is killed

Callers == Makers \cup Readers
Keys == (0..MaxLayouts) \X Views   \* generation and variant
NoKey == <<>>

ASSUME ScenesAssumption ==
    /\ IsFiniteSet(Callers) /\ IsFiniteSet(Views) /\ Makers \cap Readers = {} /\ NoMaker \notin Makers
    /\ {Slots, MaxBundle, OwnerBytes} \subseteq Nat \ {0}
    /\ {MaxLayouts, MaxCrashes} \subseteq Nat

VARIABLES
    store,     \* session, bundles, files and leases
    at,        \* where each request is
    wants,     \* the bundle each request is about
    open,      \* requests with an open file
    child,     \* makers whose child works
    crashes

scenesVars == <<store, at, wants, open, child, crashes>>

-----------------------------------------------------------------------------
NoBundle == [state |-> "none", maker |-> NoMaker, bytes |-> 0]
NoLease == [kind |-> "none", busy |-> FALSE, reserved |-> 0]

At(r, place) == at[r] = place
Go(r, place) == at' = [at EXCEPT ![r] = place]
End(r) == at' = [at EXCEPT ![r] = "end"] /\ wants' = [wants EXCEPT ![r] = NoKey]

Charge(s, ks) == SumFunctionOnSet([k \in Keys |-> s.bundle[k].bytes], ks)

\* Seeded bug: the file goes with its row, whoever reads it.
Downloaded_Never(s, k) == FALSE

\* A download keeps the bundle it has opened.
Downloaded(s, k) == \E r \in Callers : s.lease[r].kind = "download" /\ wants[r] = k

\* expire_scenes: bundles of another generation, and those that are pending
\* without their maker's lease.
Expired(s) ==
    {k \in Keys :
        /\ s.bundle[k].state # "none"
        /\ \/ s.state # "active"
           \/ k[1] # s.generation
           \/ s.bundle[k].state = "pending" /\ s.lease[s.bundle[k].maker].kind = "none"
        /\ ~(s.bundle[k].state = "ready" /\ Downloaded(s, k))}

Unlisted(s, ks) ==
    [s EXCEPT !.bundle = [k \in Keys |-> IF k \in ks THEN NoBundle ELSE @[k]],
              !.files = @ \ {k \in ks : s.bundle[k].state = "ready"},
              !.charged = @ - Charge(s, ks)]

\* _expire: then a deleted document without leases or bundles.
Swept(s) ==
    LET t == Unlisted(s, Expired(s))
        idle == (\A k \in Keys : t.bundle[k].state = "none")
                /\ (\A r \in Callers : t.lease[r].kind = "none")
    IN  IF t.state = "deleted" /\ idle THEN [t EXCEPT !.state = "gone"] ELSE t

\* release
Without(s, r) ==
    IF s.lease[r].kind = "none" \/ r \in child THEN s
    ELSE Swept([s EXCEPT !.lease[r] = NoLease])

Valid(s, r) ==
    /\ s.lease[r].kind # "none"
    /\ s.state = "active" /\ wants[r][1] = s.generation

Held(s) == {r \in Callers : s.lease[r].kind # "none"}
Reserved(s) == SumFunction([r \in Callers |-> s.lease[r].reserved])

\* The account's bundles, and the largest ones that may come out of those
\* being made.
Affordable(s) == s.charged + Reserved(s) + MaxBundle <= OwnerBytes

SlotFree(s) == Cardinality(Held(s)) < Slots

-----------------------------------------------------------------------------
(* prepare_scene                                                           *)

\* scene_begin: the first to ask for a bundle makes it, others wait for it.
Begin(m, v) ==
    LET s == Swept(store)
        k == <<s.generation, v>>
    IN  /\ At(m, "start")
        /\ s.state = "active"
        /\ wants' = [wants EXCEPT ![m] = k]
        /\ \/ /\ s.bundle[k].state # "none"
              /\ store' = s
              /\ Go(m, "wait")
           \/ /\ s.bundle[k].state = "none"
              /\ SlotFree(s) /\ Affordable(s)
              /\ store' = [s EXCEPT
                    !.lease[m] = [kind |-> "scene", busy |-> FALSE, reserved |-> MaxBundle],
                    !.bundle[k] = [NoBundle EXCEPT !.state = "pending", !.maker = m]]
              /\ Go(m, "run")
        /\ UNCHANGED <<open, child, crashes>>

\* No document, no slot, no room.
BeginRefused(m) ==
    /\ At(m, "start")
    /\ store' = Swept(store)
    /\ End(m)
    /\ UNCHANGED <<open, child, crashes>>

\* run: the child is started, unless the lease was dropped.
StartChild(m) ==
    /\ At(m, "run")
    /\ IF store.lease[m].kind = "none"
       THEN Go(m, "failed") /\ UNCHANGED <<store, child>>
       ELSE /\ store' = [store EXCEPT !.lease[m].busy = TRUE]
            /\ child' = child \cup {m}
            /\ Go(m, "child")
    /\ UNCHANGED <<wants, open, crashes>>

\* It delivers, fails, or is stopped because the lease is not valid any more.
ChildEnds(m) ==
    LET s == Swept(store) IN
    /\ At(m, "child")
    /\ child' = child \ {m}
    /\ store' = [s EXCEPT !.lease[m].busy = FALSE]
    /\ \/ Go(m, "failed")
       \/ Valid(s, m) /\ Go(m, "publish")
    /\ UNCHANGED <<wants, open, crashes>>

\* scene_publish: the reservation becomes the charge of what was made.
Published(s, m, bytes) ==
    [s EXCEPT !.bundle[wants[m]] = [state |-> "ready", maker |-> m, bytes |-> bytes],
              !.files = @ \cup {wants[m]},
              !.charged = @ + bytes,
              !.lease[m].reserved = 0]

Publish(m) ==
    LET s == Swept(store)
        mine == s.bundle[wants[m]]
    IN  /\ At(m, "publish")
        /\ \/ /\ Valid(s, m) /\ mine.state = "pending" /\ mine.maker = m
              /\ \E bytes \in 1..MaxBundle : store' = Published(s, m, bytes)
              /\ Go(m, "release")
           \/ \* stale, or the bundle is not what it should be
              store' = s /\ Go(m, "failed")
        /\ UNCHANGED <<wants, open, child, crashes>>

\* scene_failed
Fail(m) ==
    LET mine == store.bundle[wants[m]] IN
    /\ At(m, "failed")
    /\ store' = IF mine.state = "pending" /\ mine.maker = m
                THEN [store EXCEPT !.bundle[wants[m]] = NoBundle] ELSE store
    /\ Go(m, "giveup")
    /\ UNCHANGED <<wants, open, child, crashes>>

ReleaseMaker(m) ==
    /\ at[m] \in {"release", "giveup"}
    /\ store' = Without(store, m)
    /\ IF At(m, "release") THEN Go(m, "describe") /\ UNCHANGED wants ELSE End(m)
    /\ UNCHANGED <<open, child, crashes>>

\* scene_snapshot: the leader failed, the document changed, time is up, or
\* the bundle is there.
Wait(m) ==
    LET s == Swept(store) IN
    /\ At(m, "wait")
    /\ store' = s
    /\ \/ End(m)
       \/ /\ s.state = "active" /\ wants[m][1] = s.generation
          /\ s.bundle[wants[m]].state = "ready"
          /\ Go(m, "describe") /\ UNCHANGED wants
    /\ UNCHANGED <<open, child, crashes>>

-----------------------------------------------------------------------------
(* scene_open, for a download and for the descriptor of what was prepared  *)

Opened(s, r) == [s EXCEPT !.lease[r] = [kind |-> "download", busy |-> TRUE, reserved |-> 0]]

Open(r, k) ==
    LET s == Swept(store) IN
    /\ \/ At(r, "start") /\ r \in Readers
       \/ At(r, "describe") /\ k = wants[r]
    /\ s.state = "active" /\ k[1] = s.generation
    /\ s.bundle[k].state = "ready" /\ k \in s.files
    /\ SlotFree(s)
    /\ store' = Opened(s, r)
    /\ open' = open \cup {r}
    /\ wants' = [wants EXCEPT ![r] = k]
    /\ Go(r, "read")
    /\ UNCHANGED <<child, crashes>>

OpenRefused(r) ==
    /\ At(r, "describe")
    /\ store' = Swept(store)
    /\ End(r)
    /\ UNCHANGED <<open, child, crashes>>

\* The file is read to its end, or until the lease is not valid any more or
\* the client leaves; closed first, then released.
CloseFile(r) ==
    /\ At(r, "read")
    /\ open' = open \ {r}
    /\ Go(r, "close")
    /\ UNCHANGED <<store, wants, child, crashes>>

CloseLease(r) ==
    /\ At(r, "close")
    /\ store' = Without(store, r)
    /\ End(r)
    /\ UNCHANGED <<open, child, crashes>>

-----------------------------------------------------------------------------
(* The document, and the web worker                                        *)

ApplyLayout ==
    LET s == Swept(store) IN
    /\ s.state = "active" /\ s.generation < MaxLayouts
    /\ store' = Swept([s EXCEPT !.generation = @ + 1])
    /\ UNCHANGED <<at, wants, open, child, crashes>>

\* Deleted, replaced or expired; the leases nobody has claimed are released.
Delete ==
    LET s == Swept(store)
        unclaimed == {r \in Held(s) : ~s.lease[r].busy}
    IN  /\ s.state = "active"
        /\ store' = Swept([s EXCEPT !.state = "deleted",
                !.lease = [r \in Callers |-> IF r \in unclaimed THEN NoLease ELSE @[r]]])
        /\ UNCHANGED <<at, wants, open, child, crashes>>

\* Its files are closed and its children die; scene_publish may have moved a
\* bundle, and not committed.
Crash ==
    /\ crashes < MaxCrashes
    /\ crashes' = crashes + 1
    /\ at' = [r \in Callers |-> IF at[r] \in {"start", "end"} THEN at[r] ELSE "dead"]
    /\ \E moved \in {{}} \cup {{m} : m \in {n \in Makers : At(n, "publish")}} :
          store' = [store EXCEPT !.files = @ \cup {wants[m] : m \in moved}]
    /\ open' = {} /\ child' = {}
    /\ UNCHANGED wants

ReconcileLease(r) ==
    /\ At(r, "dead")
    /\ store' = Without(store, r)
    /\ End(r)
    /\ UNCHANGED <<open, child, crashes>>

\* Files no bundle names.
ReconcileFiles ==
    LET listed == {k \in Keys : store.bundle[k].state = "ready"} IN
    /\ ~(store.files \subseteq listed)
    /\ store' = [store EXCEPT !.files = @ \cap listed]
    /\ UNCHANGED <<at, wants, open, child, crashes>>

ScenesInit ==
    /\ store = [state |-> "active", generation |-> 0,
                bundle |-> [k \in Keys |-> NoBundle], files |-> {}, charged |-> 0,
                lease |-> [r \in Callers |-> NoLease]]
    /\ at = [r \in Callers |-> "start"]
    /\ wants = [r \in Callers |-> NoKey]
    /\ open = {} /\ child = {} /\ crashes = 0

Make(m) ==
    \/ \E v \in Views : Begin(m, v)
    \/ BeginRefused(m) \/ StartChild(m) \/ ChildEnds(m) \/ Publish(m) \/ Fail(m)
    \/ ReleaseMaker(m) \/ Wait(m)

Download(r) ==
    \/ \E k \in Keys : Open(r, k)
    \/ OpenRefused(r) \/ CloseFile(r) \/ CloseLease(r)

ScenesNext ==
    \/ \E m \in Makers : Make(m)
    \/ \E r \in Callers : Download(r) \/ ReconcileLease(r)
    \/ ApplyLayout \/ Delete \/ Crash \/ ReconcileFiles

ScenesSpec == ScenesInit /\ [][ScenesNext]_scenesVars

-----------------------------------------------------------------------------
(* Properties                                                              *)

\* The shape of the state; nothing works or reads without a lease.
ScenesTypeOK ==
    /\ store.state \in {"active", "deleted", "gone"}
    /\ store.generation \in 0..MaxLayouts /\ store.charged \in Nat
    /\ store.bundle \in [Keys -> [state : {"none", "pending", "ready"},
                                  maker : Makers \cup {NoMaker}, bytes : 0..MaxBundle]]
    /\ store.files \subseteq Keys
    /\ store.lease \in [Callers -> [kind : {"none", "scene", "download"}, busy : BOOLEAN,
                                     reserved : {0, MaxBundle}]]
    /\ wants \in [Callers -> Keys \cup {NoKey}]
    /\ open \subseteq Callers /\ child \subseteq Makers
    /\ \A r \in open \cup child : store.lease[r].kind # "none"

\* What a client has open stays on disk, listed and charged, although the
\* document may be gone from its list; what is listed is on disk; the charge
\* is the sum of what is listed; and with what is being made it never exceeds
\* the account's budget.
BundlesAreAccounted ==
    LET listed == {k \in Keys : store.bundle[k].state = "ready"} IN
    /\ \A r \in open : wants[r] \in listed
    /\ listed \subseteq store.files
    /\ store.charged = Charge(store, listed)
    /\ store.charged + Reserved(store) <= OwnerBytes

=============================================================================
