----------------------- MODULE ProjectionLedgerProofs -----------------------
(***************************************************************************)
(* Proofs about ProjectionLedger, for every number of uploads, tiles,      *)
(* accounts and crashes and every size of the pools.                       *)
(***************************************************************************)
EXTENDS ProjectionLedger, FiniteFacts

\* A child that works, or will: one that boots gives up when its parent is
\* dead.
Busy(t) == child[t] = "running" \/ (child[t] = "boot" /\ pc[t] # "dead")

\* What a lease must be while its child works.
Held(t) == lease[t].kind \in {"upload-parse", "tile"} /\ lease[t].pid \in {"claimed", "attached"}

\* What the place of an upload says about its row.
UploadFits(u) ==
    /\ pc[u] \in {"start", "reserve"} => created[u] = 0
    /\ pc[u] \in {"start", "reserve", "end"} => lease[u].kind = "none"
    /\ pc[u] = "body" => lease[u].kind = "upload"
    /\ pc[u] \in {"body", "claim", "complete", "release"} => lease[u].pid = "null"
    /\ pc[u] \in {"claim", "spawn", "attach", "watch", "reap", "clear", "complete"}
           => lease[u].kind = "upload-parse"
    /\ pc[u] \in {"spawn", "attach"} => lease[u].pid = "claimed"

\* The row of a tile may be dropped until it is claimed, and again when its
\* child has ended.
TileFits(t) ==
    /\ pc[t] \notin {"reserve", "body", "complete"}
    /\ pc[t] \in {"start", "end"} => lease[t].kind = "none"
    /\ pc[t] \in {"claim", "release"} => lease[t].pid = "null"
    /\ pc[t] \in {"spawn", "attach"} => lease[t].kind = "tile" /\ lease[t].pid = "claimed"

\* A request has a child only while it supervises it, and its row with it.
ChildFits(t) ==
    /\ pc[t] \notin {"attach", "watch", "reap", "dead"} => child[t] = "none"
    /\ Busy(t) => Held(t)

Fits(t) ==
    /\ t \in Uploads => UploadFits(t)
    /\ t \in Tiles => TileFits(t)
    /\ ChildFits(t)

RequestInv == \A t \in Tasks : Fits(t)

\* A session has its file, and is kept as long as a tile reads it.
DocInv ==
    /\ Sessions \subseteq source
    /\ \A t \in Tiles : lease[t].kind = "tile" => lease[t].doc \in Sessions

\* Reservations of an account have different places; the one that nobody
\* superseded is the last; the account has one document.
OrderInv ==
    /\ \A u, v \in Uploads :
           Owner[u] = Owner[v] /\ created[u] # 0 /\ created[u] = created[v] => u = v
    /\ \A u \in Unfinished :
           /\ created[u] # 0
           /\ lease[u].stale \/ \A v \in OwnedBy(Owner[u]) : created[v] <= created[u]
    /\ \A d, e \in Uploads :
           docs[d] = "active" /\ docs[e] = "active" /\ Owner[d] = Owner[e] => d = e

PoolInv ==
    /\ Cardinality(Parsing) <= GlobalParsers
    /\ Cardinality(Rendering) <= GlobalRenderers

\* The inductive invariant.
IInv ==
    /\ TypeOK /\ RequestInv
    /\ DocInv /\ OrderInv /\ PoolInv /\ UnwindingBounded

Control == TypeOK /\ RequestInv /\ DocInv

-----------------------------------------------------------------------------
(* Rows and sessions                                                       *)

LeaseTyped ==
    /\ \A u \in Uploads : lease[u] \in UploadLease
    /\ \A t \in Tiles : lease[t] \in TileLease
    /\ DOMAIN lease = Tasks

\* A row is written.
LEMMA RowWritten ==
    ASSUME LeaseTyped, NEW t \in Tasks, NEW row,
           t \in Uploads => row \in UploadLease, t \in Tiles => row \in TileLease,
           lease' = [lease EXCEPT ![t] = row]
    PROVE  LeaseTyped'
BY DEF LeaseTyped, Tasks

\* The rows that are there.
UploadRow == [kind : {"upload", "upload-parse", "upload_done"}, stale : BOOLEAN, pid : Pid, doc : {NoDoc}]
TileRow == [kind : {"tile"}, stale : {FALSE}, pid : Pid, doc : Uploads]

LEMMA NoRow ==
    /\ NoLease.kind = "none" /\ NoLease.pid = "null" /\ NoLease.doc = NoDoc /\ ~NoLease.stale
    /\ NoLease \in UploadLease /\ NoLease \in TileLease
    /\ [NoLease EXCEPT !.pid = "null"] = NoLease
<1>1. NoLease.kind = "none" /\ NoLease.pid = "null" /\ NoLease.doc = NoDoc /\ ~NoLease.stale
  BY DEF NoLease
<1>2. NoLease \in UploadLease /\ NoLease \in TileLease
  BY DEF UploadLease, TileLease
<1>3. [NoLease EXCEPT !.pid = "null"] = NoLease
  <2>1. ASSUME NEW stale
        PROVE  [[kind |-> "none", stale |-> stale, pid |-> "null", doc |-> NoDoc]
                    EXCEPT !.pid = "null"]
                   = [kind |-> "none", stale |-> stale, pid |-> "null", doc |-> NoDoc]
    OBVIOUS
  <2> QED BY <2>1 DEF NoLease
<1> QED BY <1>1, <1>2, <1>3

\* What a row may look like.
LEMMA UploadRows ==
    ASSUME NEW row \in UploadLease
    PROVE  /\ row = NoLease \/ row \in UploadRow
           /\ row.kind = "none" <=> row = NoLease
           /\ row.kind \in {"none", "upload", "upload-parse", "upload_done"}
           /\ row.stale \in BOOLEAN
           /\ row.pid \in Pid /\ row.doc = NoDoc
<1>1. row = NoLease \/ row \in UploadRow
  BY Zenon DEF UploadLease, UploadRow
<1>2. CASE row = NoLease
  <2>1. NoLease.stale \in BOOLEAN
    BY Zenon DEF NoLease
  <2> QED BY <1>1, <1>2, <2>1, NoRow, Zenon DEF Pid
<1>3. CASE row \in UploadRow
  <2>1. row.stale \in BOOLEAN
    BY <1>3, Zenon DEF UploadRow
  <2>2. /\ row.kind \in {"upload", "upload-parse", "upload_done"}
        /\ row.pid \in Pid /\ row.doc = NoDoc
    BY <1>3 DEF UploadRow
  <2> QED BY <1>1, <2>1, <2>2, NoRow
<1> QED BY <1>1, <1>2, <1>3

LEMMA TileRows ==
    ASSUME NEW row \in TileLease
    PROVE  /\ row = NoLease \/ row \in TileRow
           /\ row.kind = "none" <=> row = NoLease
           /\ row.kind \in {"none", "tile"}
           /\ row.kind = "tile" => row.doc \in Uploads
           /\ row.pid \in Pid
<1>1. row = NoLease \/ row \in TileRow
  BY Zenon DEF TileLease, TileRow
<1>2. CASE row = NoLease
  BY <1>1, <1>2, NoRow DEF Pid
<1>3. CASE row \in TileRow
  <2>1. row.kind = "tile" /\ row.pid \in Pid /\ row.doc \in Uploads
    BY <1>3 DEF TileRow
  <2> QED BY <1>1, <2>1, NoRow
<1> QED BY <1>1, <1>2, <1>3

\* Rows that are there stay rows when a column is set.
LEMMA SetColumns ==
    /\ \A row \in UploadRow :
           /\ row \in UploadLease
           /\ [row EXCEPT !.stale = TRUE] \in UploadLease
           /\ \A k \in {"upload", "upload-parse", "upload_done"} :
                  [row EXCEPT !.kind = k] \in UploadLease
           /\ \A p \in Pid : [row EXCEPT !.pid = p] \in UploadLease
    /\ \A row \in TileRow : \A p \in Pid : [row EXCEPT !.pid = p] \in TileLease
<1>1. \A row \in UploadRow : [row EXCEPT !.stale = TRUE] \in UploadRow
  BY DEF UploadRow
<1>2. \A row \in UploadRow : \A k \in {"upload", "upload-parse", "upload_done"} :
          [row EXCEPT !.kind = k] \in UploadRow
  BY DEF UploadRow
<1>3. \A row \in UploadRow : \A p \in Pid : [row EXCEPT !.pid = p] \in UploadRow
  BY DEF UploadRow
<1>4. \A row \in TileRow : \A p \in Pid : [row EXCEPT !.pid = p] \in TileRow
  BY DEF TileRow
<1>5. UploadRow \subseteq UploadLease /\ TileRow \subseteq TileLease
  BY Zenon DEF UploadLease, TileLease, UploadRow, TileRow
<1> QED BY <1>1, <1>2, <1>3, <1>4, <1>5

LEMMA NewRows ==
    /\ NewLease("upload", NoDoc) \in UploadLease
    /\ NewLease("upload", NoDoc).kind = "upload"
    /\ NewLease("upload", NoDoc).pid = "null"
    /\ ~NewLease("upload", NoDoc).stale
    /\ \A d \in Uploads :
           /\ NewLease("tile", d) \in TileLease
           /\ NewLease("tile", d).kind = "tile"
           /\ NewLease("tile", d).pid = "null"
           /\ NewLease("tile", d).doc = d
BY DEF NoLease, UploadLease, TileLease, Pid, NewLease

DocTypes == {"none", "active", "deleted", "gone"}

Kept(sessions) == {u \in Uploads : sessions[u] \in {"active", "deleted"}}

\* Settling keeps the type, the files of the sessions that remain, and every
\* active one.
LEMMA Settled ==
    ASSUME RequestsAssumption, NEW sessions \in [Uploads -> DocTypes], NEW leases,
           NEW files \in SUBSET Uploads,
           Settle(sessions, leases, files),
           Kept(sessions) \subseteq files,
           \A t \in Tiles : leases[t] \in TileLease,
           \A t \in Tiles : leases[t].kind = "tile" => leases[t].doc \in Kept(sessions)
    PROVE  /\ docs' \in [Uploads -> DocTypes]
           /\ source' \subseteq Uploads
           /\ lease' = leases
           /\ DocInv'
           /\ \A d \in Uploads : docs'[d] = "active" <=> sessions[d] = "active"
<1> DEFINE idle == {d \in Uploads : sessions[d] = "deleted" /\ \A t \in Tiles : leases[t].doc # d}
<1>1. /\ docs' = [d \in Uploads |-> IF d \in idle THEN "gone" ELSE sessions[d]]
      /\ source' = files \ idle
      /\ lease' = leases
  BY DEF Settle
<1>2. docs' \in [Uploads -> DocTypes] /\ source' \subseteq Uploads
  BY <1>1 DEF DocTypes
<1>3. \A d \in Uploads : docs'[d] = "active" <=> sessions[d] = "active"
  BY <1>1
<1>4. Sessions' = Kept(sessions) \ idle
  BY <1>1 DEF Sessions, Kept
<1>5. DocInv'
  <2>1. Sessions' \subseteq source'
    BY <1>1, <1>4
  <2>2. ASSUME NEW t \in Tiles, lease'[t].kind = "tile" PROVE lease'[t].doc \in Sessions'
    BY <1>1, <1>4, <2>2
  <2> QED BY <2>1, <2>2 DEF DocInv
<1> QED BY <1>1, <1>2, <1>3, <1>5

\* Retiring documents keeps them as sessions.
LEMMA RetiredSessions ==
    ASSUME docs \in [Uploads -> DocTypes], NEW ds, \A d \in ds : d \in Sessions
    PROVE  /\ Retired(docs, ds) \in [Uploads -> DocTypes]
           /\ Kept(Retired(docs, ds)) = Sessions
           /\ \A d \in Uploads :
                  Retired(docs, ds)[d] = "active" <=> docs[d] = "active" /\ d \notin ds
BY DEF Retired, Kept, Sessions, DocTypes

\* A row goes, and with it documents that waited for it.
LEMMA RowGoes ==
    ASSUME TypeOK, DocInv, NEW t \in Tasks, Settle(docs, [lease EXCEPT ![t] = NoLease], source)
    PROVE  /\ docs' \in [Uploads -> DocTypes]
           /\ source' \subseteq Uploads
           /\ LeaseTyped' /\ DocInv'
           /\ \A d \in Uploads : docs'[d] = "active" <=> docs[d] = "active"
           /\ lease' = [lease EXCEPT ![t] = NoLease]
           /\ lease'[t] = NoLease /\ \A x \in Tasks \ {t} : lease'[x] = lease[x]
<1> DEFINE rows == [lease EXCEPT ![t] = NoLease]
<1>1. \A x \in Tiles : rows[x] \in TileLease /\ (rows[x].kind = "tile" => rows[x] = lease[x])
  BY NoRow DEF TypeOK, Tasks
<1>2. /\ Kept(docs) = Sessions /\ docs \in [Uploads -> DocTypes]
      /\ Kept(docs) \subseteq source /\ source \in SUBSET Uploads
  BY DEF Kept, Sessions, TypeOK, DocTypes, DocInv
<1>3. \A x \in Tiles : rows[x].kind = "tile" => rows[x].doc \in Kept(docs)
  BY <1>1, <1>2 DEF DocInv
<1>4. /\ docs' \in [Uploads -> DocTypes]
      /\ source' \subseteq Uploads
      /\ lease' = rows
      /\ DocInv'
      /\ \A d \in Uploads : docs'[d] = "active" <=> docs[d] = "active"
  <2> HIDE DEF rows
  <2>1. Settle(docs, rows, source)
    BY DEF rows
  <2> QED BY <1>1, <1>2, <1>3, <2>1, Settled, RequestsAssumption
<1>5. LeaseTyped' /\ lease'[t] = NoLease /\ \A x \in Tasks \ {t} : lease'[x] = lease[x]
  BY <1>4, NoRow DEF TypeOK, LeaseTyped, Tasks
<1> QED BY <1>4, <1>5

\* Releasing a lease drops its row, unless its child may live.
LEMMA Released ==
    ASSUME TypeOK, DocInv, NEW t \in Tasks, ReleaseLease(t)
    PROVE  /\ docs' \in [Uploads -> DocTypes]
           /\ source' \subseteq Uploads
           /\ LeaseTyped' /\ DocInv'
           /\ \A d \in Uploads : docs'[d] = "active" <=> docs[d] = "active"
           /\ lease' = lease \/ (MayRelease(t) /\ lease' = [lease EXCEPT ![t] = NoLease])
           /\ MayRelease(t) => lease'[t].kind = "none"
<1>1. CASE lease[t].kind # "none" /\ MayRelease(t)
  <2>1. Settle(docs, [lease EXCEPT ![t] = NoLease], source)
    BY <1>1 DEF ReleaseLease
  <2> QED BY <1>1, <2>1, RowGoes, NoRow
<1>2. CASE ~(lease[t].kind # "none" /\ MayRelease(t))
  <2>1. UNCHANGED <<docs, source, lease>>
    BY <1>2 DEF ReleaseLease
  <2> QED BY <1>2, <2>1 DEF TypeOK, LeaseTyped, DocTypes, DocInv, Sessions
<1> QED BY <1>1, <1>2

-----------------------------------------------------------------------------
(* Steps of one request                                                    *)

Places == {"start", "reserve", "body", "claim", "spawn", "attach", "watch",
           "reap", "clear", "complete", "release", "end", "dead"}

\* What the columns of a row are after one of them is set.
LEMMA PidSet ==
    ASSUME TypeOK, NEW t \in Tasks, NEW p \in Pid, lease[t].kind # "none" \/ p = "null",
           lease' = [lease EXCEPT ![t].pid = p]
    PROVE  /\ LeaseTyped'
           /\ lease'[t].kind = lease[t].kind /\ lease'[t].stale = lease[t].stale
           /\ lease'[t].doc = lease[t].doc /\ lease'[t].pid = p
           /\ \A x \in Tasks \ {t} : lease'[x] = lease[x]
<1> DEFINE row == [lease[t] EXCEPT !.pid = p]
<1>1. /\ t \in Uploads => lease[t] \in UploadLease
      /\ t \in Tiles => lease[t] \in TileLease
      /\ DOMAIN lease = Tasks
  BY DEF TypeOK
<1>2. /\ t \in Uploads => row \in UploadLease
      /\ t \in Tiles => row \in TileLease
  BY <1>1, NoRow, UploadRows, TileRows, SetColumns
<1>3. lease' = [lease EXCEPT ![t] = row]
  OBVIOUS
<1>4. LeaseTyped'
  <2>1. LeaseTyped
    BY DEF TypeOK, LeaseTyped
  <2> HIDE DEF row
  <2> QED BY <1>2, <1>3, <2>1, RowWritten
<1>5. lease'[t] = row /\ \A x \in Tasks \ {t} : lease'[x] = lease[x]
  BY <1>1, <1>3
<1>6. lease[t] = NoLease \/ lease[t] \in UploadRow \/ lease[t] \in TileRow
  BY <1>1, UploadRows, TileRows DEF Tasks
<1>7. /\ row.kind = lease[t].kind /\ row.stale = lease[t].stale
      /\ row.doc = lease[t].doc /\ row.pid = p
  BY <1>6 DEF NoLease, UploadRow, TileRow
<1> QED BY <1>4, <1>5, <1>7

LEMMA KindSet ==
    ASSUME TypeOK, NEW u \in Uploads, NEW k \in {"upload", "upload-parse", "upload_done"},
           lease[u].kind # "none", lease' = [lease EXCEPT ![u].kind = k]
    PROVE  /\ LeaseTyped'
           /\ lease'[u].kind = k /\ lease'[u].stale = lease[u].stale
           /\ lease'[u].doc = lease[u].doc /\ lease'[u].pid = lease[u].pid
           /\ \A x \in Tasks \ {u} : lease'[x] = lease[x]
<1> DEFINE row == [lease[u] EXCEPT !.kind = k]
<1>1. lease[u] \in UploadRow /\ DOMAIN lease = Tasks /\ u \in Tasks
  BY UploadRows, NoRow DEF TypeOK, Tasks
<1>2. row \in UploadLease
  BY <1>1, SetColumns
<1>3. lease' = [lease EXCEPT ![u] = row]
  OBVIOUS
<1>4. LeaseTyped'
  <2>1. LeaseTyped /\ u \notin Tiles
    BY RequestsAssumption DEF TypeOK, LeaseTyped
  <2> HIDE DEF row
  <2> QED BY <1>1, <1>2, <1>3, <2>1, RowWritten
<1>5. lease'[u] = row /\ \A x \in Tasks \ {u} : lease'[x] = lease[x]
  BY <1>1, <1>3
<1>6. /\ row.kind = k /\ row.stale = lease[u].stale
      /\ row.doc = lease[u].doc /\ row.pid = lease[u].pid
  BY <1>1 DEF UploadRow
<1> QED BY <1>4, <1>5, <1>6

\* The other requests stay where they are.
LEMMA OthersFit ==
    ASSUME RequestInv, NEW t,
           \A x \in Tasks \ {t} :
               /\ pc'[x] = pc[x] /\ child'[x] = child[x]
               /\ lease'[x].kind = lease[x].kind /\ lease'[x].pid = lease[x].pid,
           \A u \in Uploads \ {t} : created'[u] = created[u],
           t \in Tasks => Fits(t)'
    PROVE  RequestInv'
<1> SUFFICES ASSUME NEW x \in Tasks, x # t PROVE Fits(x)'
  BY DEF RequestInv
<1>1. Fits(x)
  BY DEF RequestInv
<1>2. x \in Uploads => UploadFits(x)'
  BY <1>1 DEF Fits, UploadFits
<1>3. x \in Tiles => TileFits(x)'
  BY <1>1 DEF Fits, TileFits
<1>4. ChildFits(x)'
  BY <1>1 DEF Fits, ChildFits, Busy, Held
<1> QED BY <1>2, <1>3, <1>4 DEF Fits

\* Documents and files stay as they are, and tiles read what they read.
LEMMA DocsKept ==
    ASSUME DocInv, UNCHANGED <<docs, source>>,
           \A t \in Tiles : lease'[t].kind = "tile" =>
               lease[t].kind = "tile" /\ lease'[t].doc = lease[t].doc
    PROVE  DocInv'
BY DEF DocInv, Sessions

\* The type invariant, in parts.
LEMMA TypeParts ==
    TypeOK <=>
        /\ docs \in [Uploads -> DocTypes] /\ source \subseteq Uploads
        /\ LeaseTyped
        /\ created \in [Uploads -> Nat] /\ pc \in [Tasks -> Places]
        /\ ok \subseteq Uploads /\ drop \in [Droppers -> SUBSET Tiles]
        /\ child \in [Tasks -> Alive \cup {"none", "ended"}] /\ crashes \in Nat
BY DEF TypeOK, DocTypes, LeaseTyped, Places

LEMMA TypedNext ==
    ASSUME docs' \in [Uploads -> DocTypes], source' \subseteq Uploads, LeaseTyped',
           created' \in [Uploads -> Nat], pc' \in [Tasks -> Places],
           ok' \subseteq Uploads, drop' \in [Droppers -> SUBSET Tiles],
           child' \in [Tasks -> Alive \cup {"none", "ended"}], crashes' \in Nat
    PROVE  TypeOK'
BY DEF TypeOK, DocTypes, LeaseTyped, Places

-----------------------------------------------------------------------------
(* The steps that leave documents and files alone                          *)

LEMMA ReserveRejectedControl ==
    ASSUME Control, NEW u \in Uploads, ReserveRejected(u)
    PROVE  Control'
<1>1. /\ UNCHANGED <<ledger, ok, drop, child, crashes>>
      /\ pc[u] = "reserve" /\ pc' = [pc EXCEPT ![u] = "end"]
  BY DEF ReserveRejected, At, Go
<1>2. TypeOK'
  BY <1>1, TypedNext, TypeParts DEF Control, ledger, LeaseTyped, Places, Tasks
<1>3. Fits(u)'
  BY <1>1, RequestsAssumption
     DEF Control, ledger, RequestInv, Fits, UploadFits, ChildFits, Busy, Held, TypeOK, Tasks
<1>4. RequestInv'
  BY <1>1, <1>3, OthersFit DEF Control, ledger, TypeOK
<1>5. DocInv'
  BY <1>1 DEF Control, ledger, DocInv, Sessions
<1> QED BY <1>2, <1>4, <1>5 DEF Control

LEMMA BodyRejectedControl ==
    ASSUME Control, NEW u \in Uploads, BodyRejected(u)
    PROVE  Control'
<1>1. /\ UNCHANGED <<ledger, ok, drop, child, crashes>>
      /\ pc[u] = "body" /\ pc' = [pc EXCEPT ![u] = "release"]
  BY DEF BodyRejected, At, Go
<1>2. TypeOK'
  BY <1>1, TypedNext, TypeParts DEF Control, ledger, LeaseTyped, Places, Tasks
<1>3. Fits(u)'
  BY <1>1, RequestsAssumption
     DEF Control, ledger, RequestInv, Fits, UploadFits, ChildFits, Busy, Held, TypeOK, Tasks
<1>4. RequestInv'
  BY <1>1, <1>3, OthersFit DEF Control, ledger, TypeOK
<1>5. DocInv'
  BY <1>1 DEF Control, ledger, DocInv, Sessions
<1> QED BY <1>2, <1>4, <1>5 DEF Control

LEMMA BeginParseControl ==
    ASSUME Control, NEW u \in Uploads, BeginParse(u)
    PROVE  Control'
<1>1. /\ UNCHANGED <<docs, source, created, ok, drop, child, crashes>> /\ pc[u] = "body"
      /\ u \in Tasks /\ u \notin Tiles
  BY RequestsAssumption DEF BeginParse, At, Tasks
<1>2. /\ lease[u].kind = "upload" /\ lease[u].pid = "null" /\ child[u] = "none"
  BY <1>1 DEF Control, RequestInv, Fits, UploadFits, ChildFits
<1>3. CASE pc' = [pc EXCEPT ![u] = "release"] /\ UNCHANGED lease
  <2>1. TypeOK'
    BY <1>1, <1>3, TypedNext, TypeParts DEF Control, LeaseTyped, Places, Tasks
  <2>2. Fits(u)'
    BY <1>1, <1>2, <1>3 DEF Control, Fits, UploadFits, ChildFits, Busy, Held, TypeOK
  <2>3. RequestInv'
    BY <1>1, <1>3, <2>2, OthersFit DEF Control, TypeOK
  <2>4. DocInv'
    BY <1>1, <1>3, DocsKept DEF Control
  <2> QED BY <2>1, <2>3, <2>4 DEF Control
<1>4. CASE /\ lease' = [lease EXCEPT ![u].kind = "upload-parse"]
           /\ pc' = [pc EXCEPT ![u] = "claim"]
  <2>1. /\ LeaseTyped'
        /\ lease'[u].kind = "upload-parse" /\ lease'[u].pid = "null"
        /\ \A x \in Tasks \ {u} : lease'[x] = lease[x]
    BY <1>2, <1>4, KindSet DEF Control
  <2>2. TypeOK'
    BY <1>1, <1>4, <2>1, TypedNext, TypeParts DEF Control, Places, Tasks
  <2>3. Fits(u)'
    BY <1>1, <1>2, <1>4, <2>1 DEF Control, Fits, UploadFits, ChildFits, Busy, Held, TypeOK
  <2>4. RequestInv'
    BY <1>1, <1>4, <2>1, <2>3, OthersFit DEF Control, TypeOK
  <2>5. DocInv'
    BY <1>1, <2>1, DocsKept DEF Control, Tasks
  <2> QED BY <2>2, <2>4, <2>5 DEF Control
<1> QED BY <1>3, <1>4 DEF BeginParse, Go

LEMMA ReserveTileControl ==
    ASSUME Control, NEW t \in Tiles, NEW d \in Uploads, ReserveTile(t, d)
    PROVE  Control'
<1>1. /\ UNCHANGED <<docs, source, created, ok, drop, child, crashes>>
      /\ pc[t] = "start" /\ pc' = [pc EXCEPT ![t] = "claim"]
      /\ docs[d] = "active" /\ lease' = [lease EXCEPT ![t] = NewLease("tile", d)]
      /\ t \in Tasks /\ t \notin Uploads
  BY RequestsAssumption DEF ReserveTile, At, Go, Tasks
<1>2. /\ lease'[t] = NewLease("tile", d)
      /\ \A x \in Tasks \ {t} : lease'[x] = lease[x]
      /\ child[t] = "none"
  BY <1>1 DEF Control, TypeOK, RequestInv, Fits, ChildFits
<1>3. LeaseTyped'
  <2>1. LeaseTyped
    BY DEF Control, TypeOK, LeaseTyped
  <2> QED BY <1>1, <2>1, NewRows, RowWritten
<1>4. TypeOK'
  BY <1>1, <1>3, TypedNext, TypeParts DEF Control, Places, Tasks
<1>5. Fits(t)'
  BY <1>1, <1>2, NewRows DEF Control, Fits, TileFits, ChildFits, Busy, Held, TypeOK
<1>6. RequestInv'
  BY <1>1, <1>2, <1>5, OthersFit DEF Control, TypeOK
<1>7. DocInv'
  BY <1>1, <1>2, NewRows DEF Control, DocInv, Sessions, Tasks
<1> QED BY <1>4, <1>6, <1>7 DEF Control

LEMMA ClaimControl ==
    ASSUME Control, NEW t \in Tasks, Claim(t)
    PROVE  Control'
<1>1. UNCHANGED <<docs, source, created, ok, drop, child, crashes>> /\ pc[t] = "claim"
  BY DEF Claim, At
<1>2. /\ child[t] = "none" /\ lease[t].pid = "null"
      /\ t \in Uploads => lease[t].kind = "upload-parse"
      /\ t \in Tiles => lease[t].kind \in {"none", "tile"}
  BY <1>1, TileRows DEF Control, RequestInv, Fits, UploadFits, TileFits, ChildFits, Tasks, TypeOK
<1>3. CASE pc' = [pc EXCEPT ![t] = "release"] /\ UNCHANGED lease
  <2>1. TypeOK'
    BY <1>1, <1>3, TypedNext, TypeParts DEF Control, LeaseTyped, Places
  <2>2. Fits(t)'
    BY <1>1, <1>2, <1>3
       DEF Control, Fits, UploadFits, TileFits, ChildFits, Busy, Held, TypeOK
  <2>3. RequestInv'
    BY <1>1, <1>3, <2>2, OthersFit DEF Control, TypeOK
  <2>4. DocInv'
    BY <1>1, <1>3, DocsKept DEF Control
  <2> QED BY <2>1, <2>3, <2>4 DEF Control
<1>4. CASE /\ Claimable(t) /\ lease' = [lease EXCEPT ![t].pid = "claimed"]
           /\ pc' = [pc EXCEPT ![t] = "spawn"]
  <2>1. /\ LeaseTyped'
        /\ lease'[t].kind = lease[t].kind /\ lease'[t].pid = "claimed"
        /\ lease'[t].doc = lease[t].doc
        /\ \A x \in Tasks \ {t} : lease'[x] = lease[x]
    BY <1>4, PidSet DEF Control, Claimable, Pid
  <2>2. TypeOK'
    BY <1>1, <1>4, <2>1, TypedNext, TypeParts DEF Control, Places
  <2>3. Fits(t)'
    BY <1>1, <1>2, <1>4, <2>1
       DEF Control, Claimable, Fits, UploadFits, TileFits, ChildFits, Busy, Held, TypeOK
  <2>4. RequestInv'
    BY <1>1, <1>4, <2>1, <2>3, OthersFit DEF Control, TypeOK
  <2>5. DocInv'
    BY <1>1, <2>1, DocsKept DEF Control, Tasks
  <2> QED BY <2>2, <2>4, <2>5 DEF Control
<1> QED BY <1>3, <1>4 DEF Claim, Go

LEMMA SpawnControl ==
    ASSUME Control, NEW t \in Tasks, Spawn(t)
    PROVE  Control'
<1>1. /\ UNCHANGED <<ledger, ok, drop, crashes>> /\ pc[t] = "spawn"
      /\ \/ child' = [child EXCEPT ![t] = "boot"] /\ pc' = [pc EXCEPT ![t] = "attach"]
         \/ UNCHANGED child /\ pc' = [pc EXCEPT ![t] = "reap"]
  BY DEF Spawn, At, Go
<1>2. /\ child[t] = "none" /\ lease[t].pid = "claimed"
      /\ t \in Uploads => lease[t].kind = "upload-parse"
      /\ t \in Tiles => lease[t].kind = "tile"
  BY <1>1 DEF Control, RequestInv, Fits, UploadFits, TileFits, ChildFits, Tasks, TypeOK
<1>3. TypeOK'
  BY <1>1, TypedNext, TypeParts DEF Control, ledger, LeaseTyped, Places, Alive
<1>4. Fits(t)'
  BY <1>1, <1>2
     DEF Control, ledger, Fits, UploadFits, TileFits, ChildFits, Busy, Held, TypeOK, Tasks
<1>5. RequestInv'
  BY <1>1, <1>4, OthersFit DEF Control, ledger, TypeOK
<1>6. DocInv'
  BY <1>1, DocsKept DEF Control, ledger
<1> QED BY <1>3, <1>5, <1>6 DEF Control

LEMMA AttachControl ==
    ASSUME Control, NEW t \in Tasks, Attach(t)
    PROVE  Control'
<1>1. /\ UNCHANGED <<docs, source, created, ok, drop, child, crashes>> /\ pc[t] = "attach"
      /\ lease' = [lease EXCEPT ![t].pid = "attached"] /\ pc' = [pc EXCEPT ![t] = "watch"]
  BY DEF Attach, At, Go
<1>2. /\ t \in Uploads => lease[t].kind = "upload-parse"
      /\ t \in Tiles => lease[t].kind = "tile"
  BY <1>1 DEF Control, RequestInv, Fits, UploadFits, TileFits
<1>3. /\ LeaseTyped'
      /\ lease'[t].kind = lease[t].kind /\ lease'[t].pid = "attached"
      /\ lease'[t].doc = lease[t].doc
      /\ \A x \in Tasks \ {t} : lease'[x] = lease[x]
  BY <1>1, <1>2, PidSet DEF Control, Pid, Tasks
<1>4. TypeOK'
  BY <1>1, <1>3, TypedNext, TypeParts DEF Control, Places
<1>5. Fits(t)'
  BY <1>1, <1>2, <1>3
     DEF Control, Fits, UploadFits, TileFits, ChildFits, Busy, Held, TypeOK, Tasks
<1>6. RequestInv'
  BY <1>1, <1>3, <1>5, OthersFit DEF Control, TypeOK
<1>7. DocInv'
  BY <1>1, <1>3, DocsKept DEF Control, Tasks
<1> QED BY <1>4, <1>6, <1>7 DEF Control

LEMMA WatchControl ==
    ASSUME Control, NEW t \in Tasks, Watch(t)
    PROVE  Control'
<1>1. /\ UNCHANGED <<ledger, drop, child, crashes>> /\ pc[t] = "watch"
      /\ ok' \in {ok, ok \cup Delivered(t)} /\ pc' = [pc EXCEPT ![t] = "reap"]
  BY DEF Watch, At, Go
<1>2. ok' \subseteq Uploads
  BY <1>1 DEF Delivered, Control, TypeOK
<1>3. TypeOK'
  BY <1>1, <1>2, TypedNext, TypeParts DEF Control, ledger, LeaseTyped, Places
<1>4. Fits(t)'
  BY <1>1 DEF Control, ledger, RequestInv, Fits, UploadFits, TileFits, ChildFits, Busy, Held, TypeOK
<1>5. RequestInv'
  BY <1>1, <1>4, OthersFit DEF Control, ledger, TypeOK
<1>6. DocInv'
  BY <1>1, DocsKept DEF Control, ledger
<1> QED BY <1>3, <1>5, <1>6 DEF Control

LEMMA ReapControl ==
    ASSUME Control, NEW t \in Tasks, Reap(t)
    PROVE  Control'
<1>1. /\ UNCHANGED <<ledger, ok, drop, crashes>> /\ pc[t] = "reap"
      /\ child' = [child EXCEPT ![t] = "none"] /\ pc' = [pc EXCEPT ![t] = "clear"]
  BY DEF Reap, At, Go
<1>2. TypeOK'
  BY <1>1, TypedNext, TypeParts DEF Control, ledger, LeaseTyped, Places, Alive
<1>3. Fits(t)'
  BY <1>1 DEF Control, ledger, RequestInv, Fits, UploadFits, TileFits, ChildFits, Busy, Held, TypeOK
<1>4. RequestInv'
  BY <1>1, <1>3, OthersFit DEF Control, ledger, TypeOK
<1>5. DocInv'
  BY <1>1, DocsKept DEF Control, ledger
<1> QED BY <1>2, <1>4, <1>5 DEF Control

LEMMA ClearControl ==
    ASSUME Control, NEW t \in Tasks, Clear(t)
    PROVE  Control'
<1>1. /\ UNCHANGED <<docs, source, created, drop, child, crashes>> /\ pc[t] = "clear"
      /\ lease' = [lease EXCEPT ![t].pid = "null"]
      /\ pc' = [pc EXCEPT ![t] = IF t \in ok THEN "complete" ELSE "release"]
      /\ ok' = ok \ {t}
  BY DEF Clear, At, Go
<1>2. /\ t \in Uploads => lease[t].kind = "upload-parse"
      /\ child[t] = "none"
      /\ t \in Tiles => t \notin ok
  BY <1>1, RequestsAssumption DEF Control, RequestInv, Fits, UploadFits, ChildFits, TypeOK
<1>3. /\ LeaseTyped'
      /\ lease'[t].kind = lease[t].kind /\ lease'[t].pid = "null"
      /\ lease'[t].doc = lease[t].doc
      /\ \A x \in Tasks \ {t} : lease'[x] = lease[x]
  BY <1>1, PidSet DEF Control, Pid
<1>4. TypeOK'
  BY <1>1, <1>3, TypedNext, TypeParts DEF Control, Places
<1>5. Fits(t)'
  BY <1>1, <1>2, <1>3
     DEF Control, Fits, UploadFits, TileFits, ChildFits, Busy, Held, TypeOK
<1>6. RequestInv'
  BY <1>1, <1>3, <1>5, OthersFit DEF Control, TypeOK
<1>7. DocInv'
  BY <1>1, <1>3, DocsKept DEF Control, Tasks
<1> QED BY <1>4, <1>6, <1>7 DEF Control

LEMMA ChildControl ==
    ASSUME Control, NEW t \in Tasks, Child(t)
    PROVE  Control'
<1>1. /\ UNCHANGED <<ledger, pc, ok, drop, crashes>>
      /\ \/ child[t] = "boot" /\ pc[t] = "dead" /\ child' = [child EXCEPT ![t] = "ended"]
         \/ child[t] = "boot" /\ pc[t] # "dead" /\ child' = [child EXCEPT ![t] = "running"]
         \/ child[t] = "running" /\ child' = [child EXCEPT ![t] = "ended"]
  BY DEF Child, ChildBoots, ChildEnds, At
<1>2. TypeOK'
  BY <1>1, TypedNext, TypeParts DEF Control, ledger, LeaseTyped, Alive
<1>3. Fits(t)'
  BY <1>1 DEF Control, ledger, RequestInv, Fits, UploadFits, TileFits, ChildFits, Busy, Held, TypeOK
<1>4. RequestInv'
  BY <1>1, <1>3, OthersFit DEF Control, ledger, TypeOK
<1>5. DocInv'
  BY <1>1, DocsKept DEF Control, ledger
<1> QED BY <1>2, <1>4, <1>5 DEF Control

-----------------------------------------------------------------------------
(* The steps that settle the ledger                                        *)

\* Documents are retired, and no row changes.
LEMMA RetireSettles ==
    ASSUME Control, NEW ds, \A d \in ds : docs[d] = "active" /\ d \in Uploads,
           Settle(Retired(docs, ds), lease, source)
    PROVE  /\ docs' \in [Uploads -> DocTypes]
           /\ source' \subseteq Uploads
           /\ lease' = lease /\ LeaseTyped' /\ DocInv'
           /\ \A d \in Uploads : docs'[d] = "active" <=> docs[d] = "active" /\ d \notin ds
<1>1. /\ docs \in [Uploads -> DocTypes] /\ source \in SUBSET Uploads /\ LeaseTyped
      /\ Sessions \subseteq source
      /\ \A t \in Tiles : lease[t].kind = "tile" => lease[t].doc \in Sessions
  BY TypeParts DEF Control, DocInv
<1>2. \A d \in ds : d \in Sessions
  BY DEF Sessions
<1>3. /\ Retired(docs, ds) \in [Uploads -> DocTypes]
      /\ Kept(Retired(docs, ds)) = Sessions
      /\ \A d \in Uploads :
             Retired(docs, ds)[d] = "active" <=> docs[d] = "active" /\ d \notin ds
  BY <1>1, <1>2, RetiredSessions
<1>4. /\ docs' \in [Uploads -> DocTypes]
      /\ source' \subseteq Uploads
      /\ lease' = lease /\ DocInv'
      /\ \A d \in Uploads : docs'[d] = "active" <=> Retired(docs, ds)[d] = "active"
  BY <1>1, <1>3, Settled, RequestsAssumption DEF LeaseTyped
<1> QED BY <1>1, <1>3, <1>4 DEF LeaseTyped

LEMMA DeleteAllControl ==
    ASSUME Control, NEW u \in Uploads, DeleteAll(u)
    PROVE  Control'
<1>1. /\ pc[u] = "start" /\ pc' = [pc EXCEPT ![u] = "reserve"]
      /\ Settle(Retired(docs, Active(Owner[u])), lease, source)
      /\ drop' = [drop EXCEPT ![u] = Unclaimed(Active(Owner[u]))]
      /\ UNCHANGED <<created, ok, child, crashes>>
  BY DEF DeleteAll, At, Go
<1>2. /\ docs' \in [Uploads -> DocTypes] /\ source' \subseteq Uploads
      /\ lease' = lease /\ LeaseTyped' /\ DocInv'
  BY <1>1, RetireSettles DEF Active, OwnedBy
<1>3. Unclaimed(Active(Owner[u])) \in SUBSET Tiles
  BY DEF Unclaimed
<1>4. TypeOK'
  BY <1>1, <1>2, <1>3, TypedNext, TypeParts DEF Control, Places
<1>5. Fits(u)'
  BY <1>1, <1>2, RequestsAssumption
     DEF Control, RequestInv, Fits, UploadFits, ChildFits, Busy, Held, TypeOK, Tasks
<1>6. RequestInv'
  BY <1>1, <1>2, <1>5, OthersFit DEF Control, TypeOK
<1> QED BY <1>2, <1>4, <1>6 DEF Control

LEMMA CloseControl ==
    ASSUME Control, NEW c \in Closers, NEW d \in Uploads, Close(c, d)
    PROVE  Control'
<1>1. /\ docs[d] = "active" /\ Settle(Retired(docs, {d}), lease, source)
      /\ drop' = [drop EXCEPT ![c] = Unclaimed({d})]
      /\ UNCHANGED <<created, pc, ok, child, crashes>>
  BY DEF Close
<1>2. /\ docs' \in [Uploads -> DocTypes] /\ source' \subseteq Uploads
      /\ lease' = lease /\ LeaseTyped' /\ DocInv'
  BY <1>1, RetireSettles
<1>3. Unclaimed({d}) \in SUBSET Tiles
  BY DEF Unclaimed
<1>4. TypeOK'
  BY <1>1, <1>2, <1>3, TypedNext, TypeParts DEF Control
<1>5. c \notin Tasks
  BY RequestsAssumption
<1>6. RequestInv'
  BY <1>1, <1>2, <1>5, OthersFit DEF Control
<1> QED BY <1>2, <1>4, <1>6 DEF Control

LEMMA ExpireControl ==
    ASSUME Control, NEW d \in Uploads, Expire(d)
    PROVE  Control'
<1>1. /\ docs[d] = "active" /\ Settle(Retired(docs, {d}), lease, source)
      /\ UNCHANGED <<created, pc, ok, drop, child, crashes>>
  BY DEF Expire
<1>2. /\ docs' \in [Uploads -> DocTypes] /\ source' \subseteq Uploads
      /\ lease' = lease /\ LeaseTyped' /\ DocInv'
  BY <1>1, RetireSettles
<1>3. TypeOK'
  BY <1>1, <1>2, TypedNext, TypeParts DEF Control
<1>4. RequestInv'
  <2>1. PICK c : c \notin Tasks
    BY NoSetContainsEverything
  <2> QED BY <1>1, <1>2, <2>1, OthersFit DEF Control
<1> QED BY <1>2, <1>3, <1>4 DEF Control

\* A lease is released: the row goes, and with it documents that waited for
\* it.
LEMMA DropControl ==
    ASSUME Control, NEW a \in Droppers, NEW t \in Tiles, Drop(a, t)
    PROVE  Control'
<1>1. /\ ReleaseLease(t) /\ drop' = [drop EXCEPT ![a] = @ \ {t}]
      /\ UNCHANGED <<created, pc, ok, child, crashes>>
      /\ t \in Tasks /\ t \notin Uploads
  BY RequestsAssumption DEF Drop, Tasks
<1>2. /\ docs' \in [Uploads -> DocTypes] /\ source' \subseteq Uploads
      /\ LeaseTyped' /\ DocInv'
      /\ lease' = lease \/ (MayRelease(t) /\ lease' = [lease EXCEPT ![t] = NoLease])
  BY <1>1, Released, RequestsAssumption DEF Control
<1>3. TypeOK'
  BY <1>1, <1>2, TypedNext, TypeParts DEF Control
<1>4. Fits(t)'
  BY <1>1, <1>2, NoRow
     DEF Control, RequestInv, Fits, TileFits, ChildFits, Busy, Held, MayRelease, Alive, TypeOK
<1>5. RequestInv'
  BY <1>1, <1>2, <1>4, OthersFit DEF Control, TypeOK
<1> QED BY <1>2, <1>3, <1>5 DEF Control

LEMMA ReleaseControl ==
    ASSUME Control, NEW t \in Tasks, Release(t)
    PROVE  Control'
<1>1. /\ ReleaseLease(t) /\ pc[t] = "release" /\ pc' = [pc EXCEPT ![t] = "end"]
      /\ UNCHANGED <<created, ok, drop, child, crashes>>
  BY DEF Release, At, Go
<1>2. /\ docs' \in [Uploads -> DocTypes] /\ source' \subseteq Uploads
      /\ LeaseTyped' /\ DocInv'
      /\ lease' = lease \/ (MayRelease(t) /\ lease' = [lease EXCEPT ![t] = NoLease])
      /\ MayRelease(t) => lease'[t].kind = "none"
  BY <1>1, Released, RequestsAssumption DEF Control
<1>3. /\ lease[t].pid = "null" /\ child[t] = "none"
  BY <1>1 DEF Control, RequestInv, Fits, UploadFits, TileFits, ChildFits, Tasks
<1>4. TypeOK'
  BY <1>1, <1>2, TypedNext, TypeParts DEF Control, Places
<1>5. Fits(t)'
  BY <1>1, <1>2, <1>3
     DEF Control, Fits, UploadFits, TileFits, ChildFits, Busy, Held, MayRelease, TypeOK
<1>6. RequestInv'
  BY <1>1, <1>2, <1>5, OthersFit DEF Control, TypeOK
<1> QED BY <1>2, <1>4, <1>6 DEF Control

LEMMA ReconcileLeaseControl ==
    ASSUME Control, NEW t \in Tasks, ReconcileLease(t)
    PROVE  Control'
<1>1. /\ lease[t].kind # "none" /\ Orphaned(t)
      /\ Settle(docs, [lease EXCEPT ![t] = NoLease], source)
      /\ UNCHANGED <<created, pc, ok, drop, child, crashes>>
  BY DEF ReconcileLease
<1>2. /\ docs' \in [Uploads -> DocTypes] /\ source' \subseteq Uploads
      /\ LeaseTyped' /\ DocInv'
      /\ lease'[t] = NoLease /\ \A x \in Tasks \ {t} : lease'[x] = lease[x]
  BY <1>1, RowGoes DEF Control
<1>3. TypeOK'
  BY <1>1, <1>2, TypedNext, TypeParts DEF Control
<1>4. Fits(t)'
  BY <1>1, <1>2, NoRow
     DEF Control, RequestInv, Fits, UploadFits, TileFits, ChildFits, Busy, Held, Orphaned, At,
         Alive, TypeOK
<1>5. RequestInv'
  BY <1>1, <1>2, <1>4, OthersFit DEF Control
<1> QED BY <1>2, <1>3, <1>5 DEF Control

LEMMA ReconcileFilesControl ==
    ASSUME Control, ReconcileFiles
    PROVE  Control'
<1>1. source' = source \cap Sessions /\ UNCHANGED <<docs, lease, created, pc, ok, drop, child, crashes>>
  BY DEF ReconcileFiles
<1>2. TypeOK'
  BY <1>1, TypedNext, TypeParts DEF Control, LeaseTyped
<1>3. RequestInv'
  BY <1>1 DEF Control, RequestInv, Fits, UploadFits, TileFits, ChildFits, Busy, Held
<1>4. DocInv'
  BY <1>1 DEF Control, DocInv, Sessions
<1> QED BY <1>2, <1>3, <1>4 DEF Control

LEMMA CrashControl ==
    ASSUME Control, Crash
    PROVE  Control'
<1>1. /\ crashes' = crashes + 1
      /\ pc' = [t \in Tasks |-> IF pc[t] \in {"start", "end"} THEN pc[t] ELSE "dead"]
      /\ source \subseteq source' /\ source' \subseteq source \cup Uploads
      /\ ok' = {} /\ drop' = [a \in Droppers |-> {}]
      /\ UNCHANGED <<docs, lease, created, child>>
  BY DEF Crash
<1>2. TypeOK'
  BY <1>1, TypedNext, TypeParts DEF Control, LeaseTyped, Places
<1>3. ASSUME NEW t \in Tasks PROVE Fits(t)'
  <2>1. Fits(t) /\ pc'[t] = IF pc[t] \in {"start", "end"} THEN pc[t] ELSE "dead"
    BY <1>1 DEF Control, RequestInv
  <2> QED BY <1>1, <2>1 DEF Fits, UploadFits, TileFits, ChildFits, Busy, Held
<1>4. DocInv'
  BY <1>1 DEF Control, DocInv, Sessions
<1> QED BY <1>2, <1>3, <1>4 DEF Control, RequestInv

\* What a reservation does to the rows and the order.
LEMMA Reserved ==
    ASSUME Control, NEW u \in Uploads, Reserve(u)
    PROVE  /\ pc[u] = "reserve" /\ pc' = [pc EXCEPT ![u] = "body"]
           /\ UNCHANGED <<ok, drop, child, crashes>>
           /\ lease[u].kind = "none" /\ created[u] = 0
           /\ lease'[u] = NewLease("upload", NoDoc)
           /\ \A x \in Tasks \ {u} :
                  \/ /\ x \in Unfinished \cap OwnedBy(Owner[u])
                     /\ lease'[x] = [lease[x] EXCEPT !.stale = TRUE] /\ lease[x] \in UploadRow
                  \/ x \notin Unfinished \cap OwnedBy(Owner[u]) /\ lease'[x] = lease[x]
           /\ LeaseTyped' /\ DocInv'
           /\ docs' \in [Uploads -> DocTypes] /\ source' \subseteq Uploads
           /\ \A d \in Uploads : docs'[d] = "active" <=> docs[d] = "active"
           /\ created' \in [Uploads -> Nat]
           /\ \A v \in Uploads \ {u} : created'[v] = created[v]
           /\ \A v \in OwnedBy(Owner[u]) : created[v] < created'[u]
<1>1. /\ pc[u] = "reserve" /\ pc' = [pc EXCEPT ![u] = "body"]
      /\ UNCHANGED <<ok, drop, child, crashes>>
      /\ Settle(docs, Supersede(u), source)
      /\ created' = [created EXCEPT ![u] = 1 + Max({created[v] : v \in OwnedBy(Owner[u])})]
  BY DEF Reserve, At, Go
<1>2. lease[u].kind = "none" /\ created[u] = 0 /\ u \in Tasks /\ u \notin Tiles
  BY <1>1, RequestsAssumption DEF Control, RequestInv, Fits, UploadFits, Tasks
<1>3. /\ docs \in [Uploads -> DocTypes] /\ source \in SUBSET Uploads /\ LeaseTyped
      /\ Sessions \subseteq source /\ Kept(docs) = Sessions
      /\ \A x \in Tiles : lease[x].kind = "tile" => lease[x].doc \in Sessions
  BY TypeParts DEF Control, DocInv, Kept, Sessions
<1> DEFINE rows == Supersede(u)
<1>4. /\ DOMAIN rows = Tasks
      /\ rows[u] = NewLease("upload", NoDoc)
      /\ \A x \in Tasks \ {u} :
             rows[x] = IF x \in Unfinished \cap OwnedBy(Owner[u])
                       THEN [lease[x] EXCEPT !.stale = TRUE] ELSE lease[x]
  BY <1>2 DEF Supersede
<1>5. \A x \in Unfinished : x \in Uploads /\ lease[x] \in UploadRow
  BY <1>3, UploadRows, NoRow DEF Unfinished, LeaseTyped
<1> HIDE DEF rows
<1>6. \A x \in Tiles : rows[x] \in TileLease /\ rows[x] = lease[x]
  BY <1>2, <1>3, <1>4, <1>5, RequestsAssumption DEF LeaseTyped, Tasks
<1>7. ASSUME NEW x \in Uploads PROVE rows[x] \in UploadLease
  <2>1. \/ x = u /\ rows[x] = NewLease("upload", NoDoc)
        \/ lease[x] \in UploadRow /\ rows[x] = [lease[x] EXCEPT !.stale = TRUE]
        \/ rows[x] = lease[x]
    BY <1>4, <1>5 DEF Tasks
  <2>2. [lease[x] EXCEPT !.stale = TRUE] \in UploadLease \/ lease[x] \notin UploadRow
    BY SetColumns
  <2> QED BY <1>3, <2>1, <2>2, NewRows DEF LeaseTyped
<1>8. /\ docs' \in [Uploads -> DocTypes] /\ source' \subseteq Uploads
      /\ lease' = rows /\ DocInv'
      /\ \A d \in Uploads : docs'[d] = "active" <=> docs[d] = "active"
  <2>1. Settle(docs, rows, source)
    BY <1>1 DEF rows
  <2> QED BY <1>3, <1>6, <2>1, Settled, RequestsAssumption
<1>9. LeaseTyped'
  BY <1>4, <1>6, <1>7, <1>8 DEF LeaseTyped
<1>10. /\ created' \in [Uploads -> Nat]
       /\ \A v \in Uploads \ {u} : created'[v] = created[v]
       /\ \A v \in OwnedBy(Owner[u]) : created[v] < created'[u]
  <2> DEFINE places == {created[v] : v \in OwnedBy(Owner[u])}
  <2>1. created \in [Uploads -> Nat]
    BY DEF Control, TypeOK
  <2>2. u \in OwnedBy(Owner[u]) /\ OwnedBy(Owner[u]) \in SUBSET Uploads
    BY DEF OwnedBy
  <2>3. IsFiniteSet(places)
    <3>1. IsFiniteSet(OwnedBy(Owner[u]))
      BY <2>2, FS_Subset, RequestsAssumption
    <3> QED BY <3>1, FiniteImage
  <2>4. (\A n \in places : n \in Nat) /\ places # {}
    BY <2>1, <2>2
  <2>5. Max(places) \in places /\ \A n \in places : n <= Max(places)
    <3> HIDE DEF places
    <3> QED BY <2>3, <2>4, GreatestNatural
  <2>6. /\ Max(places) \in Nat
        /\ \A v \in OwnedBy(Owner[u]) : created[v] \in Nat /\ created[v] <= Max(places)
    BY <2>1, <2>2, <2>4, <2>5
  <2>7. created' = [created EXCEPT ![u] = 1 + Max(places)]
    BY <1>1
  <2> HIDE DEF places
  <2>8. created'[u] = 1 + Max(places)
    BY <2>1, <2>7
  <2>9. \A v \in OwnedBy(Owner[u]) : created[v] < created'[u]
    BY <2>6, <2>8
  <2> QED BY <2>1, <2>6, <2>7, <2>9
<1> QED
  <2>1. \A x \in Tasks \ {u} :
            \/ /\ x \in Unfinished \cap OwnedBy(Owner[u])
               /\ lease'[x] = [lease[x] EXCEPT !.stale = TRUE] /\ lease[x] \in UploadRow
            \/ x \notin Unfinished \cap OwnedBy(Owner[u]) /\ lease'[x] = lease[x]
    BY <1>4, <1>5, <1>8
  <2>2. lease'[u] = NewLease("upload", NoDoc)
    BY <1>4, <1>8
  <2> QED BY <1>1, <1>2, <1>8, <1>9, <1>10, <2>1, <2>2

LEMMA ReserveControl ==
    ASSUME Control, NEW u \in Uploads, Reserve(u)
    PROVE  Control'
<1>1. /\ pc[u] = "reserve" /\ pc' = [pc EXCEPT ![u] = "body"]
      /\ UNCHANGED <<ok, drop, child, crashes>>
      /\ lease'[u] = NewLease("upload", NoDoc)
      /\ LeaseTyped' /\ DocInv'
      /\ docs' \in [Uploads -> DocTypes] /\ source' \subseteq Uploads
      /\ created' \in [Uploads -> Nat]
      /\ \A v \in Uploads \ {u} : created'[v] = created[v]
  BY Reserved
<1>2. \A x \in Tasks \ {u} :
          lease'[x].kind = lease[x].kind /\ lease'[x].pid = lease[x].pid
  <2> SUFFICES ASSUME NEW x \in Tasks \ {u}
               PROVE  lease'[x].kind = lease[x].kind /\ lease'[x].pid = lease[x].pid
    OBVIOUS
  <2>1. \/ lease'[x] = [lease[x] EXCEPT !.stale = TRUE] /\ lease[x] \in UploadRow
        \/ lease'[x] = lease[x]
    BY Reserved
  <2> QED BY <2>1 DEF UploadRow
<1>3. TypeOK'
  BY <1>1, TypedNext, TypeParts DEF Control, Places
<1>4. Fits(u)'
  BY <1>1, NewRows, RequestsAssumption
     DEF Control, RequestInv, Fits, UploadFits, ChildFits, Busy, Held, TypeOK, Tasks
<1>5. RequestInv'
  BY <1>1, <1>2, <1>4, OthersFit DEF Control, TypeOK
<1> QED BY <1>1, <1>3, <1>5 DEF Control

\* What a publication does: the other documents are retired.
LEMMA Completed ==
    ASSUME Control, NEW u \in Uploads, Complete(u)
    PROVE  /\ pc[u] = "complete" /\ pc' = [pc EXCEPT ![u] = "release"]
           /\ UNCHANGED <<created, ok, child, crashes>>
           /\ lease[u].kind = "upload-parse" /\ lease[u].pid = "null" /\ child[u] = "none"
           /\ \/ UNCHANGED <<docs, source, lease, drop>>
              \/ /\ ~lease[u].stale
                 /\ lease'[u].kind = "upload_done" /\ lease'[u].pid = "null"
                 /\ \A x \in Tasks \ {u} : lease'[x] = lease[x]
                 /\ drop' \in [Droppers -> SUBSET Tiles]
                 /\ \A d \in Uploads :
                        docs'[d] = "active" <=>
                            d = u \/ (docs[d] = "active" /\ Owner[d] # Owner[u])
           /\ docs' \in [Uploads -> DocTypes] /\ source' \subseteq Uploads
           /\ LeaseTyped' /\ DocInv'
<1> DEFINE others == Active(Owner[u])
           sessions == [Retired(docs, others) EXCEPT ![u] = "active"]
           rows == [lease EXCEPT ![u].kind = "upload_done"]
<1>1. /\ pc[u] = "complete" /\ pc' = [pc EXCEPT ![u] = "release"]
      /\ UNCHANGED <<created, ok, child, crashes>>
  BY DEF Complete, At, Go
<1>2. /\ lease[u].kind = "upload-parse" /\ lease[u].pid = "null" /\ child[u] = "none"
      /\ u \in Tasks /\ u \notin Tiles
  BY <1>1, RequestsAssumption DEF Control, RequestInv, Fits, UploadFits, ChildFits, Tasks
<1>3. /\ docs \in [Uploads -> DocTypes] /\ source \in SUBSET Uploads /\ LeaseTyped
      /\ Sessions \subseteq source
      /\ \A x \in Tiles : lease[x].kind = "tile" => lease[x].doc \in Sessions
  BY TypeParts DEF Control, DocInv
<1>4. CASE UNCHANGED <<docs, source, lease, drop>>
  BY <1>1, <1>2, <1>3, <1>4 DEF Control, DocInv, Sessions, LeaseTyped
<1>5. CASE /\ ~lease[u].stale
           /\ Settle(sessions, rows, source \cup {u})
           /\ drop' = [drop EXCEPT ![u] = Unclaimed(others)]
  <2>1. /\ Retired(docs, others) \in [Uploads -> DocTypes]
        /\ Kept(Retired(docs, others)) = Sessions
        /\ \A d \in Uploads :
               Retired(docs, others)[d] = "active" <=> docs[d] = "active" /\ d \notin others
    BY <1>3, RetiredSessions DEF Active, Sessions, OwnedBy
  <2>2. /\ sessions \in [Uploads -> DocTypes]
        /\ Kept(sessions) = Sessions \cup {u}
        /\ \A d \in Uploads :
               sessions[d] = "active" <=>
                   d = u \/ (docs[d] = "active" /\ Owner[d] # Owner[u])
    BY <2>1 DEF Kept, DocTypes, Active, OwnedBy
  <2>3. \A x \in Tiles : rows[x] = lease[x]
    BY <1>2, <1>3 DEF LeaseTyped, Tasks
  <2>4. /\ docs' \in [Uploads -> DocTypes] /\ source' \subseteq Uploads
        /\ lease' = rows /\ DocInv'
        /\ \A d \in Uploads : docs'[d] = "active" <=> sessions[d] = "active"
    <3>1. /\ Kept(sessions) \subseteq source \cup {u} /\ source \cup {u} \in SUBSET Uploads
          /\ \A x \in Tiles : rows[x] \in TileLease
          /\ \A x \in Tiles : rows[x].kind = "tile" => rows[x].doc \in Kept(sessions)
      BY <1>3, <2>2, <2>3 DEF LeaseTyped
    <3> HIDE DEF rows, sessions
    <3> QED BY <1>5, <2>2, <3>1, Settled, RequestsAssumption
  <2>5. /\ LeaseTyped'
        /\ lease'[u].kind = "upload_done" /\ lease'[u].pid = "null"
        /\ \A x \in Tasks \ {u} : lease'[x] = lease[x]
    BY <1>2, <2>4, KindSet DEF Control
  <2>6. drop' \in [Droppers -> SUBSET Tiles]
    BY <1>5 DEF Unclaimed, Control, TypeOK
  <2> QED BY <1>1, <1>2, <1>5, <2>2, <2>4, <2>5, <2>6
<1>6. \/ /\ ~lease[u].stale
         /\ Settle(sessions, rows, source \cup {u})
         /\ drop' = [drop EXCEPT ![u] = Unclaimed(others)]
      \/ UNCHANGED <<docs, source, lease, drop>>
  BY DEF Complete
<1> QED BY <1>4, <1>5, <1>6

LEMMA CompleteControl ==
    ASSUME Control, NEW u \in Uploads, Complete(u)
    PROVE  Control'
<1>1. /\ pc[u] = "complete" /\ pc' = [pc EXCEPT ![u] = "release"]
      /\ UNCHANGED <<created, ok, child, crashes>>
      /\ lease[u].pid = "null" /\ child[u] = "none"
      /\ docs' \in [Uploads -> DocTypes] /\ source' \subseteq Uploads
      /\ LeaseTyped' /\ DocInv'
      /\ \/ UNCHANGED <<lease, drop>>
         \/ /\ lease'[u].kind = "upload_done" /\ lease'[u].pid = "null"
            /\ \A x \in Tasks \ {u} : lease'[x] = lease[x]
            /\ drop' \in [Droppers -> SUBSET Tiles]
  BY Completed
<1>2. TypeOK'
  BY <1>1, TypedNext, TypeParts DEF Control, Places
<1>3. Fits(u)'
  BY <1>1, RequestsAssumption
     DEF Control, RequestInv, Fits, UploadFits, ChildFits, Busy, Held, TypeOK, Tasks
<1>4. RequestInv'
  BY <1>1, <1>3, OthersFit DEF Control, TypeOK
<1> QED BY <1>1, <1>2, <1>4 DEF Control

LEMMA InitControl == Init => Control
<1> SUFFICES ASSUME Init PROVE Control
  OBVIOUS
<1>1. LeaseTyped
  BY NoRow DEF Init, LeaseTyped, Tasks
<1>2. TypeOK
  BY <1>1, TypeParts DEF Init, DocTypes, Places, Alive
<1>3. RequestInv
  BY NoRow DEF Init, RequestInv, Fits, UploadFits, TileFits, ChildFits, Busy, Held, Tasks
<1>4. DocInv
  BY NoRow DEF Init, DocInv, Sessions, Tasks
<1> QED BY <1>2, <1>3, <1>4 DEF Control

\* Whoever makes the next step.
LEMMA NextControl ==
    ASSUME Control, [Next]_vars
    PROVE  Control'
<1>1. CASE UNCHANGED vars
  BY <1>1 DEF vars, ledger, Control, TypeOK, RequestInv, Fits, UploadFits, TileFits, ChildFits,
              Busy, Held, DocInv, Sessions
<1>2. ASSUME NEW u \in Uploads, Upload(u) PROVE Control'
  BY <1>2, DeleteAllControl, ReserveControl, ReserveRejectedControl, BodyRejectedControl,
     BeginParseControl, CompleteControl DEF Upload
<1>3. ASSUME NEW t \in Tasks, Run(t) \/ Child(t) PROVE Control'
  BY <1>3, ClaimControl, SpawnControl, AttachControl, WatchControl, ReapControl, ClearControl,
     ReleaseControl, ChildControl DEF Run
<1>4. CASE Reconcile
  BY <1>4, ReconcileFilesControl, ReconcileLeaseControl DEF Reconcile
<1> QED BY <1>1, <1>2, <1>3, <1>4, ReserveTileControl, CloseControl, DropControl,
           ExpireControl, CrashControl DEF Next

-----------------------------------------------------------------------------
(* What a step does to the order, the pools and the documents              *)

\* Nothing is reserved or published, and at most one account loses its
\* documents.
Quiet ==
    /\ UNCHANGED created
    /\ \A u \in Uploads : lease'[u].kind \in {"upload", "upload-parse"} =>
           /\ lease[u].kind \in {"upload", "upload-parse"}
           /\ lease'[u].stale = lease[u].stale
    /\ \A d \in Uploads : docs'[d] = "active" => docs[d] = "active"
    /\ \E o : \A d \in Uploads : docs[d] = "active" /\ Owner[d] # o => docs'[d] = "active"

\* No slot of a pool is taken.
FreesSlots ==
    /\ \A u \in Uploads : lease'[u].kind = "upload-parse" => lease[u].kind = "upload-parse"
    /\ \A t \in Tiles : lease'[t].kind = "tile" => lease[t].kind = "tile"

\* Three ways in which a step is quiet.
LEMMA QuietRows ==
    ASSUME UNCHANGED <<docs, created>>,
           \A x \in Tasks : lease'[x] = lease[x] \/ lease'[x].kind = "none"
                           \/ (lease'[x].kind = lease[x].kind /\ lease'[x].stale = lease[x].stale)
    PROVE  Quiet /\ FreesSlots
BY DEF Quiet, FreesSlots, Tasks

LEMMA QuietRelease ==
    ASSUME Control, NEW t \in Tasks, ReleaseLease(t) \/ ReconcileLease(t), UNCHANGED created
    PROVE  Quiet /\ FreesSlots
<1>1. /\ \A d \in Uploads : docs'[d] = "active" <=> docs[d] = "active"
      /\ lease' = lease \/ lease' = [lease EXCEPT ![t] = NoLease]
  BY Released, RowGoes DEF Control, ReconcileLease
<1>2. \A x \in Tasks : lease'[x] = lease[x] \/ lease'[x].kind = "none"
  BY <1>1, NoRow DEF Control, TypeOK
<1> QED BY <1>1, <1>2 DEF Quiet, FreesSlots, Tasks

LEMMA QuietRetire ==
    ASSUME Control, NEW ds, NEW o,
           \A d \in ds : docs[d] = "active" /\ d \in Uploads /\ Owner[d] = o,
           Settle(Retired(docs, ds), lease, source), UNCHANGED created
    PROVE  Quiet /\ FreesSlots
<1>1. /\ lease' = lease
      /\ \A d \in Uploads : docs'[d] = "active" <=> docs[d] = "active" /\ d \notin ds
  BY RetireSettles
<1> QED BY <1>1 DEF Quiet, FreesSlots

Publishes(u) ==
    /\ Complete(u) /\ UNCHANGED created
    /\ lease[u].kind = "upload-parse" /\ ~lease[u].stale
    /\ lease'[u].kind = "upload_done"
    /\ \A x \in Tasks \ {u} : lease'[x] = lease[x]
    /\ \A d \in Uploads :
           docs'[d] = "active" <=> d = u \/ (docs[d] = "active" /\ Owner[d] # Owner[u])

\* Every step is quiet and takes no slot, or is one of four others.
LEMMA Steps ==
    ASSUME Control, [Next]_vars
    PROVE  \/ Quiet /\ FreesSlots
           \/ \E u \in Uploads : BeginParse(u) /\ Quiet
           \/ \E t \in Tiles, d \in Uploads : ReserveTile(t, d) /\ Quiet
           \/ \E u \in Uploads : Reserve(u)
           \/ \E u \in Uploads : Publishes(u)
<1>1. CASE UNCHANGED vars
  BY <1>1, QuietRows DEF vars, ledger
<1>2. ASSUME NEW u \in Uploads, DeleteAll(u) PROVE Quiet /\ FreesSlots
  <2>1. /\ Settle(Retired(docs, Active(Owner[u])), lease, source) /\ UNCHANGED created
        /\ \A d \in Active(Owner[u]) : docs[d] = "active" /\ d \in Uploads /\ Owner[d] = Owner[u]
    BY <1>2 DEF DeleteAll, Active, OwnedBy
  <2> QED BY <2>1, QuietRetire
<1>3. ASSUME NEW u \in Uploads, ReserveRejected(u) \/ BodyRejected(u) PROVE Quiet /\ FreesSlots
  BY <1>3, QuietRows DEF ReserveRejected, BodyRejected, ledger
<1>4. ASSUME NEW u \in Uploads, BeginParse(u) PROVE Quiet
  <2>1. pc[u] = "body" /\ UNCHANGED <<docs, created>>
    BY <1>4 DEF BeginParse, At
  <2>2. lease[u].kind = "upload"
    BY <2>1 DEF Control, RequestInv, Fits, UploadFits, Tasks
  <2>3. CASE UNCHANGED lease
    BY <2>1, <2>3 DEF Quiet
  <2>4. CASE lease' = [lease EXCEPT ![u].kind = "upload-parse"]
    <3>1. /\ lease'[u].stale = lease[u].stale
          /\ \A x \in Tasks \ {u} : lease'[x] = lease[x]
      BY <2>2, <2>4, KindSet DEF Control
    <3> QED BY <2>1, <2>2, <3>1 DEF Quiet, Tasks
  <2> QED BY <1>4, <2>3, <2>4 DEF BeginParse
<1>5. ASSUME NEW u \in Uploads, Complete(u) PROVE (Quiet /\ FreesSlots) \/ Publishes(u)
  <2>1. CASE UNCHANGED <<docs, source, lease, drop>>
    BY <1>5, <2>1, QuietRows DEF Complete
  <2>2. CASE ~UNCHANGED <<docs, source, lease, drop>>
    BY <1>5, <2>2, Completed DEF Publishes
  <2> QED BY <2>1, <2>2
<1>6. ASSUME NEW t \in Tasks, Claim(t) \/ Attach(t) \/ Clear(t) PROVE Quiet /\ FreesSlots
  <2>1. UNCHANGED <<docs, created>>
    BY <1>6 DEF Claim, Attach, Clear
  <2>2. lease' = lease \/ \E p \in Pid : /\ lease[t].kind # "none" \/ p = "null"
                                        /\ lease' = [lease EXCEPT ![t].pid = p]
    <3>1. pc[t] = "attach" => lease[t].kind # "none"
      BY DEF Control, RequestInv, Fits, UploadFits, TileFits, Tasks
    <3> QED BY <1>6, <3>1 DEF Claim, Claimable, Attach, Clear, At, Pid
  <2>3. \A x \in Tasks :
            lease'[x] = lease[x] \/ (lease'[x].kind = lease[x].kind /\ lease'[x].stale = lease[x].stale)
    BY <2>2, PidSet DEF Control
  <2> QED BY <2>1, <2>3, QuietRows
<1>7. ASSUME NEW t \in Tasks, Spawn(t) \/ Watch(t) \/ Reap(t) \/ Child(t) PROVE Quiet /\ FreesSlots
  BY <1>7, QuietRows DEF Spawn, Watch, Reap, Child, ChildBoots, ChildEnds, ledger
<1>8. ASSUME NEW t \in Tasks, Release(t) PROVE Quiet /\ FreesSlots
  BY <1>8, QuietRelease DEF Release
<1>9. ASSUME NEW t \in Tiles, NEW d \in Uploads, ReserveTile(t, d) PROVE Quiet
  <2>1. UNCHANGED <<docs, created>> /\ \A x \in Uploads : lease'[x] = lease[x]
    BY <1>9, RequestsAssumption DEF ReserveTile, Control, TypeOK, Tasks
  <2> QED BY <2>1 DEF Quiet
<1>10. ASSUME NEW d \in Uploads, Expire(d) \/ \E c \in Closers : Close(c, d) PROVE Quiet /\ FreesSlots
  <2>1. /\ Settle(Retired(docs, {d}), lease, source) /\ UNCHANGED created
        /\ docs[d] = "active"
    BY <1>10 DEF Expire, Close
  <2> QED BY <2>1, QuietRetire
<1>11. ASSUME NEW a \in Droppers, NEW t \in Tiles, Drop(a, t) PROVE Quiet /\ FreesSlots
  BY <1>11, QuietRelease DEF Drop, Tasks
<1>12. CASE Reconcile
  <2>1. CASE ReconcileFiles
    BY <2>1, QuietRows DEF ReconcileFiles
  <2>2. ASSUME NEW t \in Tasks, ReconcileLease(t) PROVE Quiet /\ FreesSlots
    BY <2>2, QuietRelease DEF ReconcileLease
  <2> QED BY <1>12, <2>1, <2>2 DEF Reconcile
<1>13. CASE Crash
  BY <1>13, QuietRows DEF Crash
<1> QED
  BY <1>1, <1>2, <1>3, <1>4, <1>5, <1>6, <1>7, <1>8, <1>9, <1>10, <1>11, <1>12, <1>13
     DEF Next, Upload, Run

\* A reservation and a publication take no slot either.
LEMMA OthersFreeSlots ==
    ASSUME Control, NEW u \in Uploads, Reserve(u) \/ Publishes(u)
    PROVE  FreesSlots
<1>1. u \in Tasks /\ u \notin Tiles
  BY RequestsAssumption DEF Tasks
<1>2. CASE Publishes(u)
  BY <1>1, <1>2 DEF Publishes, FreesSlots, Tasks
<1>3. CASE Reserve(u)
  <2>1. lease'[u].kind = "upload"
    BY <1>3, Reserved, NewRows
  <2>2. ASSUME NEW x \in Tasks \ {u} PROVE lease'[x].kind = lease[x].kind
    <3>1. \/ lease'[x] = [lease[x] EXCEPT !.stale = TRUE] /\ lease[x] \in UploadRow
          \/ lease'[x] = lease[x]
      BY <1>3, Reserved
    <3> QED BY <3>1 DEF UploadRow
  <2> QED BY <1>1, <2>1, <2>2 DEF FreesSlots, Tasks
<1> QED BY <1>2, <1>3

\* The rows of an account after a reservation: the newest is the only one
\* that nobody has superseded.
LEMMA ReservedOrder ==
    ASSUME Control, NEW u \in Uploads, Reserve(u)
    PROVE  /\ ~lease'[u].stale
           /\ \A v \in Uploads \ {u} :
                  /\ Owner[v] = Owner[u] =>
                         (v \in Unfinished' => v \in Unfinished /\ lease'[v].stale)
                  /\ Owner[v] # Owner[u] => lease'[v] = lease[v]
<1>1. ~lease'[u].stale
  BY Reserved, NewRows
<1>2. ASSUME NEW v \in Uploads \ {u}, Owner[v] # Owner[u] PROVE lease'[v] = lease[v]
  <2>1. v \notin OwnedBy(Owner[u]) /\ v \in Tasks \ {u}
    BY <1>2 DEF OwnedBy, Tasks
  <2>2. \A x \in Tasks \ {u} : x \in Unfinished \cap OwnedBy(Owner[u]) \/ lease'[x] = lease[x]
    BY Reserved
  <2> QED BY <2>1, <2>2
<1>3. ASSUME NEW v \in Uploads \ {u}, Owner[v] = Owner[u], v \in Unfinished'
      PROVE  v \in Unfinished /\ lease'[v].stale
  <2>1. \/ /\ v \in Unfinished
           /\ lease'[v] = [lease[v] EXCEPT !.stale = TRUE] /\ lease[v] \in UploadRow
        \/ v \notin Unfinished \cap OwnedBy(Owner[u]) /\ lease'[v] = lease[v]
    BY Reserved DEF Tasks
  <2>2. CASE lease'[v] = lease[v] /\ v \notin Unfinished
    BY <1>3, <2>2 DEF Unfinished
  <2>3. CASE v \in Unfinished /\ lease'[v] = [lease[v] EXCEPT !.stale = TRUE] /\ lease[v] \in UploadRow
    <3>1. lease'[v].stale = TRUE
      BY <2>3 DEF UploadRow
    <3> QED BY <2>3, <3>1
  <2> QED BY <1>3, <2>1, <2>2, <2>3 DEF OwnedBy
<1> QED BY <1>1, <1>2, <1>3

LEMMA NextOrder ==
    ASSUME Control, OrderInv, [Next]_vars
    PROVE  OrderInv'
<1>1. created \in [Uploads -> Nat]
  BY DEF Control, TypeOK
<1>2. CASE Quiet
  BY <1>1, <1>2 DEF Quiet, OrderInv, Unfinished, OwnedBy
<1>3. ASSUME NEW u \in Uploads, Reserve(u) PROVE OrderInv'
  <2>1. /\ created[u] = 0 /\ created' \in [Uploads -> Nat]
        /\ \A v \in Uploads \ {u} : created'[v] = created[v]
        /\ \A v \in OwnedBy(Owner[u]) : created[v] < created'[u]
        /\ \A d \in Uploads : docs'[d] = "active" <=> docs[d] = "active"
    BY <1>3, Reserved
  <2>2. created'[u] # 0 /\ \A v \in OwnedBy(Owner[u]) : created'[v] <= created'[u]
    BY <1>1, <2>1 DEF OwnedBy
  <2>3. ASSUME NEW v \in Uploads, NEW w \in Uploads,
               Owner[v] = Owner[w], created'[v] # 0, created'[v] = created'[w]
        PROVE  v = w
    BY <1>1, <2>1, <2>3 DEF OrderInv, OwnedBy
  <2>4. ASSUME NEW v \in Unfinished'
        PROVE  /\ created'[v] # 0
               /\ lease'[v].stale \/ \A w \in OwnedBy(Owner[v]) : created'[w] <= created'[v]
    <3>1. v \in Uploads
      BY DEF Unfinished
    <3>2. CASE v = u
      BY <2>2, <3>2
    <3>3. CASE v # u /\ Owner[v] = Owner[u]
      <4>1. v \in Unfinished /\ lease'[v].stale
        BY <1>3, <3>1, <3>3, ReservedOrder
      <4> QED BY <2>1, <3>1, <3>3, <4>1 DEF OrderInv
    <3>4. CASE v # u /\ Owner[v] # Owner[u]
      <4>1. lease'[v] = lease[v]
        BY <1>3, <3>1, <3>4, ReservedOrder
      <4>2. v \in Unfinished
        BY <3>1, <4>1 DEF Unfinished
      <4> QED BY <2>1, <3>1, <3>4, <4>1, <4>2 DEF OrderInv, OwnedBy
    <3> QED BY <3>2, <3>3, <3>4
  <2>5. \A d, e \in Uploads :
            docs'[d] = "active" /\ docs'[e] = "active" /\ Owner[d] = Owner[e] => d = e
    BY <2>1 DEF OrderInv
  <2> QED BY <2>3, <2>4, <2>5 DEF OrderInv, OwnedBy
<1>4. ASSUME NEW u \in Uploads, Publishes(u) PROVE OrderInv'
  <2>1. \A v \in Unfinished' : v \in Unfinished /\ lease'[v] = lease[v]
    BY <1>4 DEF Publishes, Unfinished, Tasks
  <2> QED BY <1>4, <2>1 DEF Publishes, OrderInv, OwnedBy
<1> QED BY <1>2, <1>3, <1>4, Steps

\* The rows that take slots are finitely many.
LEMMA SlotsFinite ==
    /\ IsFiniteSet(Parsing) /\ IsFiniteSet(Rendering)
    /\ Cardinality(Parsing) \in Nat /\ Cardinality(Rendering) \in Nat
BY RequestsAssumption, FS_Subset, FS_CardinalityType DEF Parsing, Rendering

LEMMA NextPool ==
    ASSUME Control, PoolInv, [Next]_vars
    PROVE  PoolInv'
<1>1. GlobalParsers \in Nat /\ GlobalRenderers \in Nat
  BY PolicyAssumption
<1>2. CASE FreesSlots
  <2>1. Parsing' \subseteq Parsing /\ Rendering' \subseteq Rendering
    BY <1>2 DEF FreesSlots, Parsing, Rendering
  <2>2. /\ Cardinality(Parsing') <= Cardinality(Parsing) /\ Cardinality(Parsing') \in Nat
        /\ Cardinality(Rendering') <= Cardinality(Rendering) /\ Cardinality(Rendering') \in Nat
    BY <2>1, SlotsFinite, FS_Subset, FS_CardinalityType
  <2> QED BY <1>1, <2>2, SlotsFinite DEF PoolInv
<1>3. ASSUME NEW u \in Uploads, BeginParse(u) PROVE PoolInv'
  <2>1. CASE UNCHANGED lease
    BY <2>1 DEF PoolInv, Parsing, Rendering
  <2>2. CASE lease' = [lease EXCEPT ![u].kind = "upload-parse"] /\ ParserFree
    <3>1. pc[u] = "body" /\ u \in Tasks
      BY <1>3 DEF BeginParse, At, Tasks
    <3>2. lease[u].kind = "upload" /\ u \notin Tiles
      BY <3>1, RequestsAssumption DEF Control, RequestInv, Fits, UploadFits
    <3>3. lease'[u].kind = "upload-parse" /\ \A x \in Tasks \ {u} : lease'[x] = lease[x]
      BY <2>2, <3>2, KindSet DEF Control
    <3>4. Parsing' = Parsing \cup {u} /\ Rendering' = Rendering
      BY <3>2, <3>3 DEF Parsing, Rendering, Tasks
    <3>5. /\ Cardinality(Parsing \cup {u}) <= Cardinality(Parsing) + 1
          /\ Cardinality(Parsing \cup {u}) \in Nat
      BY SlotsFinite, OneMore
    <3> QED BY <1>1, <2>2, <3>4, <3>5, SlotsFinite DEF PoolInv, ParserFree
  <2> QED BY <1>3, <2>1, <2>2 DEF BeginParse
<1>4. ASSUME NEW t \in Tiles, NEW d \in Uploads, ReserveTile(t, d) PROVE PoolInv'
  <2>1. /\ lease' = [lease EXCEPT ![t] = NewLease("tile", d)]
        /\ Cardinality(Rendering) < GlobalRenderers
        /\ t \notin Uploads /\ DOMAIN lease = Tasks
    BY <1>4, RequestsAssumption DEF ReserveTile, RendererFree, Control, TypeOK
  <2>2. Rendering' = Rendering \cup {t} /\ Parsing' = Parsing
    BY <2>1, NewRows DEF Parsing, Rendering, Tasks
  <2>3. /\ Cardinality(Rendering \cup {t}) <= Cardinality(Rendering) + 1
        /\ Cardinality(Rendering \cup {t}) \in Nat
    BY SlotsFinite, OneMore
  <2> QED BY <1>1, <2>1, <2>2, <2>3, SlotsFinite DEF PoolInv
<1> QED BY <1>2, <1>3, <1>4, Steps, OthersFreeSlots

\* A reservation adds one upload that unwinds at most: an account has at
\* most one that nobody has superseded yet.
LEMMA NextUnwinding ==
    ASSUME Control, OrderInv, UnwindingBounded, [Next]_vars
    PROVE  UnwindingBounded'
<1>1. OwnerMaxDocuments \in Nat \ {0}
  BY PolicyAssumption
<1> DEFINE Mine(o) == Superseded \cap OwnedBy(o)
<1>2. \A o : IsFiniteSet(Mine(o)) /\ Cardinality(Mine(o)) \in Nat
  BY RequestsAssumption, FS_Subset, FS_CardinalityType DEF Superseded, Unfinished
<1>3. ASSUME NEW o \in Owners, Mine(o)' \subseteq Mine(o)
      PROVE  Cardinality(Mine(o)') <= OwnerMaxDocuments
  <2>1. Cardinality(Mine(o)') <= Cardinality(Mine(o)) /\ Cardinality(Mine(o)') \in Nat
    BY <1>2, <1>3, FS_Subset, FS_CardinalityType
  <2>2. Cardinality(Mine(o)) <= OwnerMaxDocuments
    BY DEF UnwindingBounded
  <2> QED BY <1>1, <1>2, <2>1, <2>2
<1>4. CASE Quiet
  <2>1. \A o : Mine(o)' \subseteq Mine(o)
    BY <1>4 DEF Quiet, Superseded, Unfinished, OwnedBy
  <2> QED BY <1>3, <2>1 DEF UnwindingBounded
<1>5. ASSUME NEW u \in Uploads, Publishes(u) PROVE UnwindingBounded'
  <2>1. \A o : Mine(o)' \subseteq Mine(o)
    BY <1>5 DEF Publishes, Superseded, Unfinished, OwnedBy, Tasks
  <2> QED BY <1>3, <2>1 DEF UnwindingBounded
<1>6. ASSUME NEW u \in Uploads, Reserve(u), NEW o \in Owners
      PROVE  Cardinality(Mine(o)') <= OwnerMaxDocuments
  <2>1. CASE o # Owner[u]
    <3>1. Mine(o)' \subseteq Mine(o)
      BY <1>6, <2>1, ReservedOrder DEF Superseded, Unfinished, OwnedBy
    <3> QED BY <1>3, <3>1
  <2>2. CASE o = Owner[u]
    <3> DEFINE Newest == (Unfinished \ Superseded) \cap OwnedBy(o)
    <3>1. Mine(o)' \subseteq Mine(o) \cup Newest
      BY <1>6, <2>2, ReservedOrder DEF Superseded, Unfinished, OwnedBy
    <3>2. \A v, w \in Newest : v = w
      <4> SUFFICES ASSUME NEW v \in Newest, NEW w \in Newest PROVE v = w
        OBVIOUS
      <4>1. /\ v \in Uploads /\ w \in Uploads /\ Owner[v] = o /\ Owner[w] = o
            /\ v \in Unfinished /\ w \in Unfinished /\ ~lease[v].stale /\ ~lease[w].stale
        BY DEF Superseded, Unfinished, OwnedBy
      <4>2. /\ created[v] # 0 /\ created[v] <= created[w] /\ created[w] <= created[v]
        BY <4>1 DEF OrderInv, OwnedBy
      <4>3. created[v] \in Nat /\ created[w] \in Nat
        BY <4>1 DEF Control, TypeOK
      <4> QED BY <4>1, <4>2, <4>3 DEF OrderInv
    <3>3. \E x : Mine(o)' \subseteq Mine(o) \cup {x}
      BY <3>1, <3>2
    <3>4. PICK x : Mine(o)' \subseteq Mine(o) \cup {x}
      BY <3>3
    <3>5. Cardinality(Mine(o)) < OwnerMaxDocuments
      BY <1>6, <2>2 DEF Reserve, Admits
    <3> HIDE DEF Mine, Newest
    <3>6. /\ IsFiniteSet(Mine(o) \cup {x})
          /\ Cardinality(Mine(o) \cup {x}) <= Cardinality(Mine(o)) + 1
          /\ Cardinality(Mine(o) \cup {x}) \in Nat
      BY <1>2, OneMore
    <3>7. /\ Cardinality(Mine(o)') <= Cardinality(Mine(o) \cup {x})
          /\ Cardinality(Mine(o)') \in Nat
      BY <3>4, <3>6, FS_Subset, FS_CardinalityType
    <3> QED BY <1>1, <1>2, <3>5, <3>6, <3>7
  <2> QED BY <2>1, <2>2
<1> QED BY <1>4, <1>5, <1>6, Steps DEF UnwindingBounded

-----------------------------------------------------------------------------
(* The invariant, and what follows from it                                 *)

LEMMA InitIInv == Init => IInv
<1> SUFFICES ASSUME Init PROVE IInv
  OBVIOUS
<1>1. Control
  BY InitControl
<1>2. Unfinished = {} /\ Parsing = {} /\ Rendering = {} /\ Superseded = {}
  BY NoRow DEF Init, Unfinished, Parsing, Rendering, Superseded, Tasks
<1>3. OrderInv
  BY <1>2 DEF Init, OrderInv
<1>4. PoolInv
  BY <1>2, FS_EmptySet, PolicyAssumption DEF PoolInv
<1>5. UnwindingBounded
  <2>1. \A o : Superseded \cap OwnedBy(o) = {}
    BY <1>2
  <2> QED BY <2>1, FS_EmptySet, PolicyAssumption DEF UnwindingBounded
<1> QED BY <1>1, <1>3, <1>4, <1>5 DEF IInv, Control

LEMMA NextIInv == IInv /\ [Next]_vars => IInv'
BY NextControl, NextOrder, NextPool, NextUnwinding DEF IInv, Control

\* The inductive invariant holds.
THEOREM LedgerInvariance == Spec => []IInv
BY InitIInv, NextIInv, PTL DEF Spec

\* Rows, documents and requests keep their types: nobody writes to a row
\* that was deleted behind its back (ReleaseLease, ReconcileLease).
THEOREM LedgerTypeCorrect == Spec => []TypeOK
<1>1. IInv => TypeOK
  BY DEF IInv
<1> QED BY <1>1, LedgerInvariance, PTL

\* Uploads that were superseded and still unwind are bounded, although a
\* reservation supersedes without looking at how many that makes.
THEOREM LedgerUnwinding == Spec => []UnwindingBounded
<1>1. IInv => UnwindingBounded
  BY DEF IInv
<1> QED BY <1>1, LedgerInvariance, PTL

LEMMA RunningIsHeld ==
    ASSUME Control, NEW t \in Tasks, child[t] = "running"
    PROVE  /\ t \in Uploads => t \in Parsing
           /\ t \in Tiles => t \in Rendering
<1>1. Held(t)
  BY DEF Control, RequestInv, Fits, ChildFits, Busy
<1>2. t \in Uploads => lease[t].kind # "tile"
  BY UploadRows DEF Control, TypeOK
<1>3. t \in Tiles => lease[t].kind # "upload-parse"
  BY TileRows DEF Control, TypeOK
<1> QED BY <1>1, <1>2, <1>3 DEF Held, Parsing, Rendering

\* No more processes work than the pools allow, those of a killed worker
\* included: a process that works has a row that nobody releases.
THEOREM LedgerPools == Spec => []ChildrenWithinPools
<1>1. IInv => ChildrenWithinPools
  <2> SUFFICES ASSUME IInv PROVE ChildrenWithinPools
    OBVIOUS
  <2> DEFINE parsers == {u \in Uploads : child[u] = "running"}
             renderers == {t \in Tiles : child[t] = "running"}
  <2>1. parsers \subseteq Parsing /\ renderers \subseteq Rendering
    BY RunningIsHeld DEF IInv, Control, Tasks
  <2>2. /\ Cardinality(parsers) <= Cardinality(Parsing) /\ Cardinality(parsers) \in Nat
        /\ Cardinality(renderers) <= Cardinality(Rendering) /\ Cardinality(renderers) \in Nat
    BY <2>1, SlotsFinite, FS_Subset, FS_CardinalityType
  <2>3. Cardinality(Parsing) <= GlobalParsers /\ Cardinality(Rendering) <= GlobalRenderers
    BY DEF IInv, PoolInv
  <2>4. GlobalParsers \in Nat /\ GlobalRenderers \in Nat
    BY PolicyAssumption
  <2>5. Cardinality(parsers) <= GlobalParsers /\ Cardinality(renderers) <= GlobalRenderers
    BY <2>2, <2>3, <2>4, SlotsFinite
  <2> QED BY <2>5 DEF ChildrenWithinPools
<1> QED BY <1>1, LedgerInvariance, PTL

\* A process that works has its row, and one that renders its file: the
\* document is not erased while the row names it.
THEOREM LedgerChildren == Spec => []ChildrenAreLeased
<1>1. IInv => ChildrenAreLeased
  <2> SUFFICES ASSUME IInv, NEW t \in Tasks, child[t] = "running"
               PROVE  lease[t].kind # "none" /\ (t \in Tiles => lease[t].doc \in source)
    BY DEF ChildrenAreLeased
  <2>1. Control
    BY DEF IInv, Control
  <2>2. (t \in Uploads => t \in Parsing) /\ (t \in Tiles => t \in Rendering)
    BY <2>1, RunningIsHeld
  <2> QED BY <2>2 DEF Parsing, Rendering, Tasks, IInv, DocInv
<1> QED BY <1>1, LedgerInvariance, PTL

-----------------------------------------------------------------------------
(* LatestDocument                                                          *)

\* The variables of the abstract specification.
LatestOf == [o \in Owners |-> Latest(o)]
CurrentOf == [o \in Owners |-> Active(o)]

LEMMA QuietStep ==
    ASSUME OrderInv, Quiet
    PROVE  /\ UNCHANGED LatestOf
           /\ \/ UNCHANGED CurrentOf
              \/ \E o \in Owners : CurrentOf' = [CurrentOf EXCEPT ![o] = {}]
<1>1. UNCHANGED LatestOf
  BY DEF Quiet, LatestOf, Latest, OwnedBy
<1>2. PICK o : \A d \in Uploads : docs[d] = "active" /\ Owner[d] # o => docs'[d] = "active"
  BY DEF Quiet
<1>3. \A d \in Uploads : docs'[d] = "active" => docs[d] = "active"
  BY DEF Quiet
<1>4. \A p \in Owners : p # o => Active(p)' = Active(p)
  BY <1>2, <1>3 DEF Active, OwnedBy
<1>5. Active(o)' = {} \/ Active(o)' = Active(o)
  BY <1>3 DEF OrderInv, Active, OwnedBy
<1>6. CASE Active(o)' = Active(o) \/ o \notin Owners
  <2>1. \A p \in Owners : Active(p)' = Active(p)
    BY <1>4, <1>6
  <2> QED BY <1>1, <2>1 DEF CurrentOf
<1>7. CASE Active(o)' = {} /\ o \in Owners
  <2>1. CurrentOf' = [CurrentOf EXCEPT ![o] = {}]
    BY <1>4, <1>7 DEF CurrentOf
  <2> QED BY <1>1, <1>7, <2>1
<1> QED BY <1>5, <1>6, <1>7

LEMMA ReserveStep ==
    ASSUME Control, NEW u \in Uploads, Reserve(u)
    PROVE  /\ LatestOf' = [LatestOf EXCEPT ![Owner[u]] = {u}]
           /\ Owner[u] \in Owners /\ u \notin LatestOf[Owner[u]]
           /\ UNCHANGED CurrentOf
<1>1. /\ created[u] = 0 /\ created' \in [Uploads -> Nat]
      /\ \A v \in Uploads \ {u} : created'[v] = created[v]
      /\ \A v \in OwnedBy(Owner[u]) : created[v] < created'[u]
      /\ \A d \in Uploads : docs'[d] = "active" <=> docs[d] = "active"
  BY Reserved
<1>2. created \in [Uploads -> Nat] /\ Owner[u] \in Owners
  BY RequestsAssumption DEF Control, TypeOK
<1>3. Latest(Owner[u])' = {u}
  <2>1. u \in Latest(Owner[u])'
    BY <1>1, <1>2 DEF Latest, OwnedBy
  <2>2. ASSUME NEW v \in Latest(Owner[u])' PROVE v = u
    <3>1. /\ v \in Uploads /\ Owner[v] = Owner[u]
          /\ \A w \in OwnedBy(Owner[u]) : created'[w] <= created'[v]
      BY DEF Latest, OwnedBy
    <3>2. created'[u] <= created'[v]
      BY <3>1 DEF OwnedBy
    <3> QED BY <1>1, <1>2, <3>1, <3>2 DEF OwnedBy
  <2> QED BY <2>1, <2>2
<1>4. \A o \in Owners : o # Owner[u] => Latest(o)' = Latest(o)
  BY <1>1 DEF Latest, OwnedBy
<1>5. LatestOf' = [LatestOf EXCEPT ![Owner[u]] = {u}]
  BY <1>2, <1>3, <1>4 DEF LatestOf
<1>6. u \notin LatestOf[Owner[u]]
  BY <1>1, <1>2 DEF LatestOf, Latest
<1>7. UNCHANGED CurrentOf
  BY <1>1 DEF CurrentOf, Active, OwnedBy
<1> QED BY <1>2, <1>5, <1>6, <1>7

LEMMA PublishStep ==
    ASSUME OrderInv, TypeOK, NEW u \in Uploads, Publishes(u)
    PROVE  /\ UNCHANGED LatestOf
           /\ Owner[u] \in Owners /\ LatestOf[Owner[u]] # {}
           /\ CurrentOf' = [CurrentOf EXCEPT ![Owner[u]] = LatestOf[Owner[u]]]
<1>1. /\ UNCHANGED created /\ u \in Unfinished /\ ~lease[u].stale
      /\ \A d \in Uploads :
             docs'[d] = "active" <=> d = u \/ (docs[d] = "active" /\ Owner[d] # Owner[u])
  BY DEF Publishes, Unfinished
<1>2. Owner[u] \in Owners /\ created \in [Uploads -> Nat]
  BY RequestsAssumption DEF TypeOK
<1>3. Latest(Owner[u]) = {u}
  <2>1. created[u] # 0 /\ \A v \in OwnedBy(Owner[u]) : created[v] <= created[u]
    BY <1>1 DEF OrderInv
  <2>2. u \in Latest(Owner[u])
    BY <2>1 DEF Latest, OwnedBy
  <2>3. ASSUME NEW v \in Latest(Owner[u]) PROVE v = u
    <3>1. v \in Uploads /\ Owner[v] = Owner[u] /\ created[u] <= created[v]
      BY DEF Latest, OwnedBy
    <3>2. created[v] = created[u]
      BY <1>2, <2>1, <3>1 DEF OwnedBy
    <3> QED BY <2>1, <3>1, <3>2 DEF OrderInv
  <2> QED BY <2>2, <2>3
<1>4. Active(Owner[u])' = {u} /\ \A o \in Owners : o # Owner[u] => Active(o)' = Active(o)
  BY <1>1 DEF Active, OwnedBy
<1>5. LatestOf[Owner[u]] = {u}
  BY <1>2, <1>3 DEF LatestOf
<1>6. CurrentOf' = [CurrentOf EXCEPT ![Owner[u]] = LatestOf[Owner[u]]]
  BY <1>2, <1>4, <1>5 DEF CurrentOf
<1>7. UNCHANGED LatestOf
  BY <1>1 DEF LatestOf, Latest, OwnedBy
<1> QED BY <1>2, <1>5, <1>6, <1>7

\* The ledger implements LatestDocument: an account has one document, and
\* only the upload that was reserved last becomes it (complete_upload).
THEOREM LedgerLastUploadWins == Spec => LastUploadWins
<1>1. Init => LatestDocument!Init
  BY DEF Init, LatestDocument!Init, Latest, Active, OwnedBy
<1>2. IInv /\ [Next]_vars => [LatestDocument!Next]_(LatestDocument!vars)
  <2> SUFFICES ASSUME IInv, [Next]_vars PROVE [LatestDocument!Next]_(LatestDocument!vars)
    OBVIOUS
  <2>1. Control /\ OrderInv /\ TypeOK
    BY DEF IInv, Control
  <2>2. \/ UNCHANGED <<LatestOf, CurrentOf>>
        \/ \E o \in Owners, u \in Uploads :
              /\ LatestOf' = [LatestOf EXCEPT ![o] = {u}]
              /\ u \notin LatestOf[o] /\ UNCHANGED CurrentOf
        \/ \E o \in Owners :
              /\ LatestOf[o] # {}
              /\ CurrentOf' = [CurrentOf EXCEPT ![o] = LatestOf[o]] /\ UNCHANGED LatestOf
        \/ \E o \in Owners :
              CurrentOf' = [CurrentOf EXCEPT ![o] = {}] /\ UNCHANGED LatestOf
    <3>1. CASE Quiet
      BY <2>1, <3>1, QuietStep
    <3>2. CASE \E u \in Uploads : Reserve(u)
      BY <2>1, <3>2, ReserveStep
    <3>3. CASE \E u \in Uploads : Publishes(u)
      BY <2>1, <3>3, PublishStep
    <3> QED BY <2>1, <3>1, <3>2, <3>3, Steps
  <2> QED
    BY <2>2 DEF LatestDocument!Next, LatestDocument!Initiate, LatestDocument!Publish,
                LatestDocument!Retire, LatestDocument!vars, LatestOf, CurrentOf
<1> QED BY <1>1, <1>2, LedgerInvariance, PTL DEF Spec, LastUploadWins, LatestDocument!Spec

=============================================================================
