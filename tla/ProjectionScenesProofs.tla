----------------------- MODULE ProjectionScenesProofs -----------------------
(***************************************************************************)
(* Proofs about ProjectionScenes, for every number of requests, views,     *)
(* layouts and crashes and every size of the budget.                       *)
(***************************************************************************)
EXTENDS ProjectionScenes, FiniteFacts

Bundle == [state : {"none", "pending", "ready"}, maker : Makers \cup {NoMaker}, bytes : 0..MaxBundle]
Lease == [kind : {"none", "scene", "download"}, busy : BOOLEAN, reserved : {0, MaxBundle}]

Store ==
    [state : {"active", "deleted", "gone"}, generation : 0..MaxLayouts,
     bundle : [Keys -> Bundle], files : SUBSET Keys, charged : Nat,
     lease : [Callers -> Lease]]

\* The books of a store: what is ready is on disk, nothing else has bytes,
\* the charge is their sum, and the account can afford what is being made.
Books(s) ==
    /\ s \in Store
    /\ \A k \in Keys : s.bundle[k].state = "ready" => k \in s.files
    /\ \A k \in Keys : s.bundle[k].state # "ready" => s.bundle[k].bytes = 0
    /\ s.charged = Charge(s, Keys)
    /\ s.charged + Reserved(s) <= OwnerBytes

\* A request that reads has a lease that nobody releases, and its bundle.
Reads(s, r) ==
    /\ s.lease[r].kind = "download" /\ s.lease[r].busy
    /\ wants[r] \in Keys /\ s.bundle[wants[r]].state = "ready"

\* A request that makes a bundle has reserved the largest one, unless its
\* lease was dropped.
Makes(s, m) == s.lease[m].kind = "none" \/ s.lease[m].reserved = MaxBundle

Fits(s, r) ==
    /\ r \in open => at[r] = "read" /\ Reads(s, r)
    /\ r \in child => at[r] = "child" /\ s.lease[r].kind # "none" /\ s.lease[r].busy
    /\ r \in Makers =>
           /\ at[r] \in {"run", "child", "publish"} => Makes(s, r)
           /\ at[r] \in {"run", "child", "publish", "failed"} => wants[r] \in Keys

ScenePlaces == {"start", "run", "child", "publish", "failed", "giveup", "release", "describe",
           "wait", "read", "close", "end", "dead"}

ScenesTyped ==
    /\ at \in [Callers -> ScenePlaces] /\ wants \in [Callers -> Keys \cup {NoKey}]
    /\ open \subseteq Callers /\ child \subseteq Makers

\* The inductive invariant.
ScenesInv == ScenesTyped /\ Books(store) /\ \A r \in Callers : Fits(store, r)

-----------------------------------------------------------------------------
(* Sums                                                                    *)

Bytes(s) == [k \in Keys |-> s.bundle[k].bytes]
Reservations(s) == [r \in Callers |-> s.lease[r].reserved]

LEMMA KeysFinite == IsFiniteSet(Keys) /\ IsFiniteSet(Callers)
<1>1. IsFiniteSet(0..MaxLayouts)
  BY ScenesAssumption, FS_Interval
<1>2. IsFiniteSet((0..MaxLayouts) \X Views)
  BY <1>1, ScenesAssumption, FS_Product
<1> QED BY <1>2, ScenesAssumption DEF Keys

LEMMA Sums ==
    ASSUME NEW s \in Store
    PROVE  /\ \A k \in Keys : Bytes(s)[k] = s.bundle[k].bytes /\ Bytes(s)[k] \in Nat
           /\ \A r \in Callers : Reservations(s)[r] = s.lease[r].reserved /\ Reservations(s)[r] \in Nat
           /\ \A ks \in SUBSET Keys : Charge(s, ks) = Total(Bytes(s), ks) /\ Charge(s, ks) \in Nat
           /\ Reserved(s) = Total(Reservations(s), Callers) /\ Reserved(s) \in Nat
<1>1. /\ \A k \in Keys : Bytes(s)[k] = s.bundle[k].bytes /\ Bytes(s)[k] \in Nat
  BY DEF Store, Bundle, Bytes
<1>2. \A r \in Callers : Reservations(s)[r] = s.lease[r].reserved /\ Reservations(s)[r] \in Nat
  BY ScenesAssumption DEF Store, Lease, Reservations
<1>3. ASSUME NEW ks \in SUBSET Keys
      PROVE  Charge(s, ks) = Total(Bytes(s), ks) /\ Charge(s, ks) \in Nat
  <2> DEFINE w == Bytes(s)
  <2>1. IsFiniteSet(ks) /\ \A k \in ks : w[k] \in Nat
    BY <1>1, KeysFinite, FS_Subset
  <2>2. Charge(s, ks) = SumFunctionOnSet(w, ks)
    BY DEF Charge, Bytes
  <2> HIDE DEF w
  <2>3. SumFunctionOnSet(w, ks) = Total(w, ks) /\ Total(w, ks) \in Nat
    BY <2>1, SumIsTotal, TotalChosen
  <2> QED BY <2>2, <2>3 DEF w
<1>4. Reserved(s) = Total(Reservations(s), Callers) /\ Reserved(s) \in Nat
  <2> DEFINE w == Reservations(s)
  <2>1. Reserved(s) = SumFunctionOnSet(w, Callers)
    BY DEF Reserved, Reservations, SumFunction
  <2>2. \A r \in Callers : w[r] \in Nat
    BY <1>2
  <2> HIDE DEF w
  <2>3. SumFunctionOnSet(w, Callers) = Total(w, Callers) /\ Total(w, Callers) \in Nat
    BY <2>2, KeysFinite, SumIsTotal, TotalChosen
  <2> QED BY <2>1, <2>3 DEF w
<1> QED BY <1>1, <1>2, <1>3, <1>4

\* Stores with the same bundles have the same charge, and with the same
\* leases the same reservations.
LEMMA SameSums ==
    ASSUME NEW s, NEW t
    PROVE  /\ t.bundle = s.bundle => \A ks \in SUBSET Keys : Charge(t, ks) = Charge(s, ks)
           /\ t.lease = s.lease => Reserved(t) = Reserved(s)
BY DEF Charge, Reserved

-----------------------------------------------------------------------------
(* The store                                                               *)

LEMMA Empty == NoBundle \in Bundle /\ NoBundle.state = "none" /\ NoBundle.bytes = 0
BY ScenesAssumption DEF NoBundle, Bundle

LEMMA NoRow == NoLease \in Lease /\ NoLease.kind = "none" /\ NoLease.reserved = 0
<1>1. NoLease \in Lease
  BY Zenon DEF NoLease, Lease
<1> QED BY <1>1 DEF NoLease

\* Rows of bundles go, with their files and charges.
LEMMA UnlistedBooks ==
    ASSUME NEW s, Books(s), NEW ks \in SUBSET Keys
    PROVE  LET t == Unlisted(s, ks)
           IN  /\ Books(t)
               /\ t.lease = s.lease /\ t.state = s.state /\ t.generation = s.generation
               /\ \A k \in Keys : t.bundle[k] = IF k \in ks THEN NoBundle ELSE s.bundle[k]
<1> DEFINE t == Unlisted(s, ks)
           gone == {k \in ks : s.bundle[k].state = "ready"}
<1>0. s \in Store
  BY DEF Books
<1>1. /\ t.lease = s.lease /\ t.state = s.state /\ t.generation = s.generation
      /\ t.bundle = [k \in Keys |-> IF k \in ks THEN NoBundle ELSE s.bundle[k]]
      /\ t.files = s.files \ gone
      /\ t.charged = s.charged - Charge(s, ks)
  BY <1>0 DEF Unlisted, Store
<1>2. /\ \A k \in Keys : Bytes(t)[k] = IF k \in ks THEN 0 ELSE Bytes(s)[k]
      /\ \A k \in Keys : Bytes(s)[k] \in Nat
  BY <1>0, <1>1, Empty, Sums DEF Bytes
<1>3. Total(Bytes(s), Keys) = Total(Bytes(s), ks) + Total(Bytes(t), Keys)
  <2> DEFINE v == Bytes(t)
             w == Bytes(s)
  <2>1. /\ \A k \in Keys : v[k] = IF k \in ks THEN 0 ELSE w[k]
        /\ \A k \in Keys : w[k] \in Nat
    BY <1>2
  <2> HIDE DEF v, w
  <2>2. Total(w, Keys) = Total(w, ks) + Total(v, Keys)
    BY <2>1, KeysFinite, TotalSplit
  <2> QED BY <2>2 DEF v, w
<1>4. /\ s.charged = Total(Bytes(s), Keys) /\ Charge(s, ks) = Total(Bytes(s), ks)
      /\ Charge(s, ks) \in Nat
  BY <1>0, Sums DEF Books
<1>5. Total(Bytes(t), Keys) \in Nat
  <2> DEFINE v == Bytes(t)
  <2>1. \A k \in Keys : v[k] \in Nat
    BY <1>2
  <2> HIDE DEF v
  <2>2. Total(v, Keys) \in Nat
    BY <2>1, KeysFinite, TotalChosen
  <2> QED BY <2>2 DEF v
<1>6. t.charged = Total(Bytes(t), Keys) /\ t.charged \in Nat /\ t.charged <= s.charged
  BY <1>1, <1>3, <1>4, <1>5
<1>7. t \in Store
  <2>1. t.bundle \in [Keys -> Bundle]
    BY <1>0, <1>1, Empty DEF Store
  <2>2. t.files \in SUBSET Keys
    BY <1>0, <1>1 DEF Store
  <2> QED BY <1>0, <1>1, <1>6, <2>1, <2>2 DEF Unlisted, Store
<1>8. \A k \in Keys : t.bundle[k] = IF k \in ks THEN NoBundle ELSE s.bundle[k]
  BY <1>1
<1>9. Books(t)
  <2> HIDE DEF t
  <2>1. t.charged = Charge(t, Keys)
    BY <1>6, <1>7, Sums
  <2>2. Reserved(t) = Reserved(s) /\ Reserved(s) \in Nat
    BY <1>0, <1>1, SameSums, Sums
  <2>3. t.charged + Reserved(t) <= OwnerBytes
    BY <1>0, <1>6, <2>2, ScenesAssumption DEF Books, Store
  <2>4. \A k \in Keys : t.bundle[k].state = "ready" => k \in t.files
    BY <1>1, <1>8, Empty DEF Books
  <2>5. \A k \in Keys : t.bundle[k].state # "ready" => t.bundle[k].bytes = 0
    BY <1>8, Empty DEF Books
  <2> QED BY <1>7, <2>1, <2>3, <2>4, <2>5 DEF Books
<1> QED BY <1>1, <1>8, <1>9

\* A sweep keeps the books, the leases, and whatever somebody reads.
LEMMA SweptBooks ==
    ASSUME NEW s, Books(s)
    PROVE  LET t == Swept(s)
           IN  /\ Books(t)
               /\ t.lease = s.lease /\ t.generation = s.generation
               /\ t.state = "active" <=> s.state = "active"
               /\ \A r \in Callers : Reads(s, r) => Reads(t, r)
<1> DEFINE u == Unlisted(s, Expired(s))
<1>1. Expired(s) \in SUBSET Keys
  BY DEF Expired
<1>2. /\ Books(u)
      /\ u.lease = s.lease /\ u.state = s.state /\ u.generation = s.generation
      /\ \A k \in Keys : u.bundle[k] = IF k \in Expired(s) THEN NoBundle ELSE s.bundle[k]
  BY <1>1, UnlistedBooks
<1>3. ASSUME NEW r \in Callers, Reads(s, r) PROVE wants[r] \notin Expired(s)
  BY <1>3 DEF Reads, Expired, Downloaded
<1>4. Swept(s) = u \/ (u.state = "deleted" /\ Swept(s) = [u EXCEPT !.state = "gone"])
  BY DEF Swept
<1> HIDE DEF u
<1>5. CASE Swept(s) = u
  BY <1>2, <1>3, <1>5 DEF Reads
<1>6. CASE u.state = "deleted" /\ Swept(s) = [u EXCEPT !.state = "gone"]
  <2>1. u \in Store
    BY <1>2 DEF Books
  <2> DEFINE t == [u EXCEPT !.state = "gone"]
  <2>2. /\ t \in Store /\ t.state = "gone" /\ t.generation = u.generation
        /\ t.bundle = u.bundle /\ t.files = u.files /\ t.charged = u.charged /\ t.lease = u.lease
    BY <2>1 DEF Store
  <2>3. Charge(t, Keys) = Charge(u, Keys) /\ Reserved(t) = Reserved(u)
    BY <2>2, SameSums
  <2> HIDE DEF t
  <2>4. Books(t)
    BY <1>2, <2>2, <2>3 DEF Books
  <2> QED BY <1>2, <1>3, <1>6, <2>2, <2>4 DEF Reads, t
<1> QED BY <1>4, <1>5, <1>6

\* A row of the leases changes: it reserves no more than before, or what the
\* account can afford.
LEMMA RowSet ==
    ASSUME NEW s, Books(s), NEW r \in Callers, NEW row \in Lease,
           row.reserved <= s.lease[r].reserved \/ Affordable(s)
    PROVE  LET t == [s EXCEPT !.lease[r] = row]
           IN  /\ Books(t)
               /\ t.bundle = s.bundle /\ t.state = s.state /\ t.generation = s.generation
               /\ t.files = s.files
               /\ t.lease = [s.lease EXCEPT ![r] = row]
<1> DEFINE t == [s EXCEPT !.lease[r] = row]
<1>0. s \in Store
  BY DEF Books
<1>1. /\ t.bundle = s.bundle /\ t.state = s.state /\ t.generation = s.generation
      /\ t.files = s.files /\ t.charged = s.charged
      /\ t.lease = [s.lease EXCEPT ![r] = row]
  BY <1>0 DEF Store
<1>2. s.lease \in [Callers -> Lease] /\ t.lease \in [Callers -> Lease]
  <2>1. s.lease \in [Callers -> Lease]
    BY <1>0 DEF Store
  <2> QED BY <1>1, <2>1
<1>3. t \in Store
  BY <1>0, <1>2 DEF Store
<1> HIDE DEF t
<1>4. Reserved(t) + s.lease[r].reserved = Reserved(s) + row.reserved
  <2> DEFINE v == Reservations(t)
             w == Reservations(s)
  <2>1. \A q \in Callers : v[q] = t.lease[q].reserved /\ v[q] \in Nat
    BY <1>3, Sums
  <2>2. \A q \in Callers : w[q] = s.lease[q].reserved /\ w[q] \in Nat
    BY <1>0, Sums
  <2>3. t.lease[r] = row /\ \A q \in Callers \ {r} : t.lease[q] = s.lease[q]
    BY <1>1, <1>2
  <2>4. Reserved(t) = Total(v, Callers) /\ Reserved(s) = Total(w, Callers)
    BY <1>0, <1>3, Sums
  <2> HIDE DEF v, w
  <2>5. Total(v, Callers) + w[r] = Total(w, Callers) + v[r]
    BY <2>1, <2>2, <2>3, KeysFinite, TotalUpdate
  <2> QED BY <2>1, <2>2, <2>3, <2>4, <2>5
<1>5. /\ Reserved(t) \in Nat /\ Reserved(s) \in Nat /\ s.charged \in Nat
      /\ s.lease[r].reserved \in {0, MaxBundle} /\ row.reserved \in {0, MaxBundle}
  BY <1>0, <1>2, <1>3, Sums DEF Store, Lease
<1>6. t.charged + Reserved(t) <= OwnerBytes
  <2>1. CASE row.reserved <= s.lease[r].reserved
    BY <1>1, <1>4, <1>5, <2>1, ScenesAssumption DEF Books
  <2>2. CASE Affordable(s)
    BY <1>1, <1>4, <1>5, <2>2, ScenesAssumption DEF Affordable
  <2> QED BY <2>1, <2>2
<1>7. Charge(t, Keys) = Charge(s, Keys)
  BY <1>1, SameSums
<1>8. Books(t)
  BY <1>1, <1>3, <1>6, <1>7 DEF Books
<1> QED BY <1>1, <1>8 DEF t

\* A bundle without bytes takes the place of another.
LEMMA BundleSet ==
    ASSUME NEW s, Books(s), NEW k \in Keys, s.bundle[k].state # "ready",
           NEW b \in Bundle, b.state # "ready", b.bytes = 0
    PROVE  LET t == [s EXCEPT !.bundle[k] = b]
           IN  /\ Books(t)
               /\ t.bundle = [s.bundle EXCEPT ![k] = b]
               /\ t.state = s.state /\ t.generation = s.generation
               /\ t.lease = s.lease
<1> DEFINE t == [s EXCEPT !.bundle[k] = b]
<1>0. s \in Store
  BY DEF Books
<1>1. /\ t.bundle = [s.bundle EXCEPT ![k] = b] /\ t.state = s.state /\ t.generation = s.generation
      /\ t.files = s.files /\ t.charged = s.charged /\ t.lease = s.lease
  BY <1>0 DEF Store
<1>2. s.bundle \in [Keys -> Bundle] /\ t.bundle \in [Keys -> Bundle]
  <2>1. s.bundle \in [Keys -> Bundle]
    BY <1>0 DEF Store
  <2> QED BY <1>1, <2>1
<1>3. t \in Store
  BY <1>0, <1>2 DEF Store
<1> HIDE DEF t
<1>4. t.bundle[k] = b /\ \A j \in Keys \ {k} : t.bundle[j] = s.bundle[j]
  BY <1>1, <1>2
<1>5. \A j \in Keys : t.bundle[j].bytes = s.bundle[j].bytes
  BY <1>4 DEF Books
<1>6. Charge(t, Keys) = Charge(s, Keys)
  BY <1>5 DEF Charge
<1>7. Reserved(t) = Reserved(s)
  BY <1>1, SameSums
<1>8. Books(t)
  BY <1>1, <1>3, <1>4, <1>6, <1>7 DEF Books
<1> QED BY <1>1, <1>8 DEF t

\* What was reserved for a bundle pays for it.
LEMMA PublishedBooks ==
    ASSUME NEW s, Books(s), NEW m \in Makers, wants[m] \in Keys,
           s.bundle[wants[m]].state = "pending", s.lease[m].reserved = MaxBundle,
           NEW bytes \in 1..MaxBundle
    PROVE  LET t == Published(s, m, bytes)
               b == [state |-> "ready", maker |-> m, bytes |-> bytes]
           IN  /\ Books(t)
               /\ t.bundle = [s.bundle EXCEPT ![wants[m]] = b]
               /\ \A q \in Callers \ {m} : t.lease[q] = s.lease[q]
<1> DEFINE b == [state |-> "ready", maker |-> m, bytes |-> bytes]
           t == Published(s, m, bytes)
           k == wants[m]
<1>0. s \in Store /\ m \in Callers
  BY DEF Books, Callers
<1>1. /\ t.bundle = [s.bundle EXCEPT ![k] = b] /\ t.state = s.state /\ t.generation = s.generation
      /\ t.files = s.files \cup {k} /\ t.charged = s.charged + bytes
      /\ t.lease = [s.lease EXCEPT ![m].reserved = 0]
  BY <1>0 DEF Store, Published
<1>2. s.bundle \in [Keys -> Bundle] /\ t.bundle \in [Keys -> Bundle]
  <2>1. s.bundle \in [Keys -> Bundle]
    BY <1>0 DEF Store
  <2>2. b \in Bundle
    BY ScenesAssumption DEF Bundle
  <2> HIDE DEF b
  <2> QED BY <1>1, <2>1, <2>2
<1>3. s.lease \in [Callers -> Lease] /\ t.lease \in [Callers -> Lease]
  <2>1. s.lease \in [Callers -> Lease]
    BY <1>0 DEF Store
  <2>2. t.lease \in [Callers -> Lease]
    BY <1>0, <1>1, <2>1 DEF Lease
  <2> QED BY <2>1, <2>2
<1>4. s.charged \in Nat /\ s.files \in SUBSET Keys
  BY <1>0 DEF Store
<1>5. t \in Store
  <2>1. t.files \in SUBSET Keys /\ t.charged \in Nat
    BY <1>1, <1>4
  <2> DEFINE l == [s.lease EXCEPT ![m].reserved = 0]
             bs == [s.bundle EXCEPT ![k] = b]
  <2>2. l \in [Callers -> Lease] /\ bs \in [Keys -> Bundle]
    BY <1>1, <1>2, <1>3
  <2>3. t = [s EXCEPT !.bundle = bs, !.files = s.files \cup {k}, !.charged = s.charged + bytes,
                      !.lease = l]
    BY DEF Published
  <2> HIDE DEF l, bs
  <2> QED BY <1>0, <1>1, <2>1, <2>2, <2>3 DEF Store
<1> HIDE DEF t
<1>6. t.bundle[k] = b /\ \A j \in Keys \ {k} : t.bundle[j] = s.bundle[j]
  BY <1>1, <1>2
<1>7. t.lease[m].reserved = 0 /\ \A q \in Callers \ {m} : t.lease[q] = s.lease[q]
  BY <1>0, <1>1, <1>3 DEF Lease
<1>8. t.charged = Charge(t, Keys)
  <2> DEFINE v == Bytes(t)
             w == Bytes(s)
  <2>1. \A j \in Keys : v[j] = t.bundle[j].bytes /\ v[j] \in Nat
    BY <1>5, Sums
  <2>2. \A j \in Keys : w[j] = s.bundle[j].bytes /\ w[j] \in Nat
    BY <1>0, Sums
  <2>3. Charge(t, Keys) = Total(v, Keys) /\ Charge(s, Keys) = Total(w, Keys)
    BY <1>0, <1>5, Sums
  <2>4. v[k] = bytes /\ w[k] = 0 /\ \A j \in Keys \ {k} : v[j] = w[j]
    BY <1>6, <2>1, <2>2 DEF Books
  <2>5. s.charged = Total(w, Keys)
    BY <2>3 DEF Books
  <2> HIDE DEF v, w
  <2>6. Total(v, Keys) + w[k] = Total(w, Keys) + v[k]
    BY <2>1, <2>2, <2>4, KeysFinite, TotalUpdate
  <2>7. Total(v, Keys) \in Nat
    BY <2>1, KeysFinite, TotalChosen
  <2> QED BY <1>1, <2>3, <2>4, <2>5, <2>6, <2>7
<1>9. Reserved(t) + MaxBundle = Reserved(s)
  <2> DEFINE v == Reservations(t)
             w == Reservations(s)
  <2>1. \A q \in Callers : v[q] = t.lease[q].reserved /\ v[q] \in Nat
    BY <1>5, Sums
  <2>2. \A q \in Callers : w[q] = s.lease[q].reserved /\ w[q] \in Nat
    BY <1>0, Sums
  <2>3. Reserved(t) = Total(v, Callers) /\ Reserved(s) = Total(w, Callers)
    BY <1>0, <1>5, Sums
  <2>4. v[m] = 0 /\ w[m] = MaxBundle /\ \A q \in Callers \ {m} : v[q] = w[q]
    BY <1>0, <1>7, <2>1, <2>2
  <2> HIDE DEF v, w
  <2>6. Total(v, Callers) + w[m] = Total(w, Callers) + v[m]
    BY <1>0, <2>1, <2>2, <2>4, KeysFinite, TotalUpdate
  <2>7. Total(w, Callers) \in Nat
    BY <2>2, KeysFinite, TotalChosen
  <2> QED BY <2>3, <2>4, <2>6, <2>7
<1>10. t.charged + Reserved(t) <= OwnerBytes
  <2>1. Reserved(t) \in Nat /\ Reserved(s) \in Nat /\ MaxBundle \in Nat /\ OwnerBytes \in Nat
    BY <1>0, <1>5, Sums, ScenesAssumption
  <2>2. s.charged + Reserved(s) <= OwnerBytes
    BY DEF Books
  <2> QED BY <1>1, <1>4, <1>9, <2>1, <2>2
<1>11. \A j \in Keys : /\ t.bundle[j].state = "ready" => j \in t.files
                       /\ t.bundle[j].state # "ready" => t.bundle[j].bytes = 0
  BY <1>1, <1>6 DEF Books
<1>12. Books(t)
  BY <1>5, <1>8, <1>10, <1>11 DEF Books
<1> QED BY <1>1, <1>7, <1>12 DEF t

-----------------------------------------------------------------------------
(* Steps                                                                   *)

\* What a step of a request leaves to the others.
Spares(s, r) ==
    \A q \in Callers \ {r} :
        /\ s.lease[q] = store.lease[q]
        /\ Reads(store, q) => Reads(s, q)

\* A step of one request keeps the invariant, if it keeps the books, spares
\* the others, and the request fits where it goes.
LEMMA OwnStep ==
    ASSUME ScenesInv, NEW r \in Callers, NEW place \in ScenePlaces, NEW key \in Keys \cup {NoKey},
           at' = [at EXCEPT ![r] = place], wants' = [wants EXCEPT ![r] = key],
           Books(store'), Spares(store', r),
           open' \subseteq Callers, open' \ {r} \subseteq open,
           child' \subseteq Makers, child' \ {r} \subseteq child,
           Fits(store, r)'
    PROVE  ScenesInv'
<1>1. ScenesTyped'
  BY DEF ScenesInv, ScenesTyped
<1>2. \A q \in Callers \ {r} : at'[q] = at[q] /\ wants'[q] = wants[q]
  BY DEF ScenesInv, ScenesTyped
<1>3. ASSUME NEW q \in Callers \ {r} PROVE Fits(store, q)'
  <2>1. Fits(store, q)
    BY DEF ScenesInv
  <2>2. /\ at'[q] = at[q] /\ wants'[q] = wants[q] /\ store'.lease[q] = store.lease[q]
        /\ q \in open' => q \in open
        /\ q \in child' => q \in child
    BY <1>2 DEF Spares
  <2>3. Reads(store, q) => Reads(store', q)
    BY DEF Spares
  <2>4. q \in open' => at'[q] = "read" /\ Reads(store, q)'
    BY <2>1, <2>2, <2>3 DEF Fits, Reads
  <2>5. q \in child' => at'[q] = "child" /\ store'.lease[q].kind # "none" /\ store'.lease[q].busy
    BY <2>1, <2>2 DEF Fits
  <2>6. q \in Makers => /\ at'[q] \in {"run", "child", "publish"} => Makes(store', q)
                        /\ at'[q] \in {"run", "child", "publish", "failed"} => wants'[q] \in Keys
    BY <2>1, <2>2 DEF Fits, Makes
  <2> QED BY <2>4, <2>5, <2>6 DEF Fits
<1>4. \A q \in Callers : Fits(store, q)'
  BY <1>3
<1> QED BY <1>1, <1>4 DEF ScenesInv, Books

\* A sweep spares everybody.
LEMMA SweptSpares ==
    ASSUME ScenesInv
    PROVE  /\ Books(Swept(store)) /\ Swept(store) \in Store
           /\ Swept(store).lease = store.lease /\ Swept(store).generation = store.generation
           /\ \A r \in Callers : Spares(Swept(store), r)
<1>1. Books(store)
  BY DEF ScenesInv
<1>2. Books(Swept(store)) /\ Swept(store).lease = store.lease
      /\ Swept(store).generation = store.generation
      /\ \A r \in Callers : Reads(store, r) => Reads(Swept(store), r)
  BY <1>1, SweptBooks
<1> QED BY <1>2 DEF Spares, Books

\* A request that ends, or waits for something, has nothing to fit.
LEMMA AtRest ==
    ASSUME NEW r \in Callers, at'[r] \notin {"run", "child", "publish", "failed"},
           r \notin open', r \notin child'
    PROVE  Fits(store, r)'
BY DEF Fits

\* Where a request is says what it is not.
LEMMA Elsewhere ==
    ASSUME ScenesInv, NEW r \in Callers
    PROVE  /\ at[r] # "read" => r \notin open
           /\ at[r] # "child" => r \notin child
           /\ r \in Makers \/ r \in Readers
           /\ [at EXCEPT ![r] = at[r]] = at /\ [wants EXCEPT ![r] = wants[r]] = wants
           /\ wants[r] \in Keys \cup {NoKey}
           /\ open \subseteq Callers /\ child \subseteq Makers
BY DEF ScenesInv, Fits, ScenesTyped, Callers

\* The row of a request goes, if no child holds it.
LEMMA WithoutSpares ==
    ASSUME ScenesInv, NEW r \in Callers
    PROVE  Books(Without(store, r)) /\ Spares(Without(store, r), r)
<1>1. CASE store.lease[r].kind = "none" \/ r \in child
  BY <1>1 DEF Without, ScenesInv, Spares
<1>2. CASE ~(store.lease[r].kind = "none" \/ r \in child)
  <2> DEFINE t == [store EXCEPT !.lease[r] = NoLease]
  <2>1. Books(store) /\ store.lease[r].reserved \in {0, MaxBundle}
    BY DEF ScenesInv, Books, Store, Lease
  <2>2. NoLease.reserved <= store.lease[r].reserved
    BY <2>1, NoRow, ScenesAssumption
  <2>3. Books(t) /\ t.bundle = store.bundle /\ t.lease = [store.lease EXCEPT ![r] = NoLease]
    BY <2>1, <2>2, NoRow, RowSet
  <2>4. Without(store, r) = Swept(t)
    BY <1>2 DEF Without
  <2>5. store.lease \in [Callers -> Lease]
    BY <2>1 DEF Books, Store
  <2> HIDE DEF t
  <2>6. Books(Swept(t)) /\ Swept(t).lease = t.lease
        /\ \A q \in Callers : Reads(t, q) => Reads(Swept(t), q)
    BY <2>3, SweptBooks
  <2>7. \A q \in Callers \ {r} : t.lease[q] = store.lease[q] /\ (Reads(store, q) => Reads(t, q))
    BY <2>3, <2>5 DEF Reads
  <2> QED BY <2>4, <2>6, <2>7 DEF Spares
<1> QED BY <1>1, <1>2

LEMMA BeginKeeps == ASSUME ScenesInv, NEW m \in Makers, NEW v \in Views, Begin(m, v) PROVE ScenesInv'
<1> DEFINE s == Swept(store)
           k == <<s.generation, v>>
<1>0. m \in Callers
  BY DEF Callers
<1>1. /\ Books(s) /\ s \in Store /\ s.lease = store.lease /\ Spares(s, m)
  BY <1>0, SweptSpares
<1>2. k \in Keys
  BY <1>1 DEF Keys, Store
<1>3. /\ m \notin open /\ m \notin child /\ open \subseteq Callers /\ child \subseteq Makers
  BY <1>0, Elsewhere DEF Begin, At
<1>4. /\ wants' = [wants EXCEPT ![m] = k] /\ open' = open /\ child' = child
      /\ \/ s.bundle[k].state # "none" /\ store' = s /\ Go(m, "wait")
         \/ /\ s.bundle[k].state = "none" /\ Affordable(s)
            /\ store' = [s EXCEPT
                 !.lease[m] = [kind |-> "scene", busy |-> FALSE, reserved |-> MaxBundle],
                 !.bundle[k] = [NoBundle EXCEPT !.state = "pending", !.maker = m]]
            /\ Go(m, "run")
  BY DEF Begin
<1> HIDE DEF s, k
<1>5. CASE s.bundle[k].state # "none" /\ store' = s /\ Go(m, "wait")
  <2>1. at' = [at EXCEPT ![m] = "wait"] /\ at'[m] = "wait"
    BY <1>0, <1>5 DEF Go, ScenesInv, ScenesTyped
  <2>2. Fits(store, m)'
    BY <1>0, <1>3, <1>4, <2>1, AtRest
  <2> QED BY <1>0, <1>1, <1>2, <1>3, <1>4, <1>5, <2>1, <2>2, OwnStep DEF ScenePlaces
<1>6. CASE /\ s.bundle[k].state = "none" /\ Affordable(s)
           /\ store' = [s EXCEPT
                 !.lease[m] = [kind |-> "scene", busy |-> FALSE, reserved |-> MaxBundle],
                 !.bundle[k] = [NoBundle EXCEPT !.state = "pending", !.maker = m]]
           /\ Go(m, "run")
  <2> DEFINE row == [kind |-> "scene", busy |-> FALSE, reserved |-> MaxBundle]
             b == [NoBundle EXCEPT !.state = "pending", !.maker = m]
             u == [s EXCEPT !.lease[m] = row]
  <2>1. row \in Lease /\ row.reserved = MaxBundle
    <3>1. row \in Lease
      BY Zenon DEF Lease
    <3> QED BY <3>1
  <2>2. b \in Bundle /\ b.state = "pending" /\ b.bytes = 0
    BY Empty DEF Bundle
  <2>3. store' = [u EXCEPT !.bundle[k] = b]
    <3> HIDE DEF row, b
    <3> QED BY <1>1, <1>6 DEF Store, row, b
  <2> HIDE DEF row, b
  <2>4. Books(u) /\ u.bundle = s.bundle /\ u.lease = [s.lease EXCEPT ![m] = row]
    BY <1>0, <1>1, <1>6, <2>1, RowSet
  <2> HIDE DEF u
  <2>5. /\ Books(store')
        /\ store'.bundle = [s.bundle EXCEPT ![k] = b]
        /\ store'.lease = [s.lease EXCEPT ![m] = row]
    <3> DEFINE w == [u EXCEPT !.bundle[k] = b]
    <3>1. u.bundle[k].state # "ready" /\ b.state # "ready"
      BY <1>6, <2>2, <2>4
    <3>2. Books(w) /\ w.bundle = [u.bundle EXCEPT ![k] = b] /\ w.lease = u.lease
      BY <1>2, <2>2, <2>4, <3>1, BundleSet
    <3> HIDE DEF w
    <3>3. store' = w
      BY <2>3 DEF w
    <3> QED BY <2>4, <3>2, <3>3
  <2>6. s.lease \in [Callers -> Lease] /\ s.bundle \in [Keys -> Bundle]
    BY <1>1 DEF Store
  <2>7. Spares(store', m)
    BY <1>1, <1>6, <2>5, <2>6 DEF Spares, Reads
  <2>8. store'.lease[m].reserved = MaxBundle
    BY <1>0, <2>1, <2>5, <2>6
  <2>9. at' = [at EXCEPT ![m] = "run"] /\ at'[m] = "run" /\ wants'[m] = k
    BY <1>0, <1>4, <1>6 DEF Go, ScenesInv, ScenesTyped
  <2>10. Fits(store, m)'
    BY <1>2, <1>3, <1>4, <2>8, <2>9 DEF Fits, Makes
  <2> QED BY <1>0, <1>2, <1>3, <1>4, <2>5, <2>7, <2>9, <2>10, OwnStep DEF ScenePlaces
<1> QED BY <1>4, <1>5, <1>6

\* A request goes where nothing is asked of it.
LEMMA Rests ==
    ASSUME ScenesInv, NEW r \in Callers,
           NEW place \in ScenePlaces \ {"run", "child", "publish", "failed"}, NEW key \in Keys \cup {NoKey},
           at' = [at EXCEPT ![r] = place], wants' = [wants EXCEPT ![r] = key],
           Books(store'), Spares(store', r),
           open' \subseteq open \ {r}, child' \subseteq child \ {r}
    PROVE  ScenesInv'
<1>1. at'[r] = place
  BY DEF ScenesInv, ScenesTyped
<1>2. Fits(store, r)'
  BY <1>1, AtRest
<1>3. open' \subseteq Callers /\ child' \subseteq Makers
  BY Elsewhere
<1> QED BY <1>2, <1>3, OwnStep

\* A request gives up after a sweep, or waits for what others do.
LEMMA SweptRests ==
    ASSUME ScenesInv, NEW r \in Callers, at[r] \notin {"read", "child"}, store' = Swept(store),
           UNCHANGED <<open, child>>,
           End(r) \/ (Go(r, "describe") /\ UNCHANGED wants)
    PROVE  ScenesInv'
<1>1. Books(store') /\ Spares(store', r)
  BY SweptSpares
<1>2. r \notin open /\ r \notin child /\ wants = [wants EXCEPT ![r] = wants[r]]
      /\ wants[r] \in Keys \cup {NoKey}
  BY Elsewhere
<1>3. open' \subseteq open \ {r} /\ child' \subseteq child \ {r}
  BY <1>2
<1>4. CASE End(r)
  BY <1>1, <1>3, <1>4, Rests DEF End, ScenePlaces
<1>5. CASE Go(r, "describe") /\ UNCHANGED wants
  <2>1. at' = [at EXCEPT ![r] = "describe"] /\ wants' = [wants EXCEPT ![r] = wants[r]]
    BY <1>2, <1>5 DEF Go
  <2> QED BY <1>1, <1>2, <1>3, <2>1, Rests DEF ScenePlaces
<1> QED BY <1>4, <1>5

LEMMA BeginRefusedKeeps == ASSUME ScenesInv, NEW m \in Makers, BeginRefused(m) PROVE ScenesInv'
<1>1. m \in Callers /\ at[m] = "start"
  BY DEF Callers, BeginRefused, At
<1> QED BY <1>1, SweptRests DEF BeginRefused

LEMMA WaitKeeps == ASSUME ScenesInv, NEW m \in Makers, Wait(m) PROVE ScenesInv'
<1>1. m \in Callers /\ at[m] = "wait"
  BY DEF Callers, Wait, At
<1> QED BY <1>1, SweptRests DEF Wait

LEMMA OpenRefusedKeeps == ASSUME ScenesInv, NEW r \in Callers, OpenRefused(r) PROVE ScenesInv'
<1>1. at[r] = "describe"
  BY DEF OpenRefused, At
<1> QED BY <1>1, SweptRests DEF OpenRefused

LEMMA StartChildKeeps == ASSUME ScenesInv, NEW m \in Makers, StartChild(m) PROVE ScenesInv'
<1>0. m \in Callers /\ at[m] = "run" /\ open' = open /\ wants' = [wants EXCEPT ![m] = wants[m]]
      /\ at \in [Callers -> ScenePlaces]
  BY Elsewhere DEF Callers, StartChild, At, ScenesInv, ScenesTyped
<1>1. /\ m \notin open /\ m \notin child /\ open \subseteq Callers /\ child \subseteq Makers
  BY <1>0, Elsewhere
<1>2. wants[m] \in Keys /\ wants'[m] = wants[m] /\ Makes(store, m)
  BY <1>0 DEF ScenesInv, Fits, StartChild
<1>3. Books(store) /\ store \in Store /\ store.lease \in [Callers -> Lease]
  BY DEF ScenesInv, Books, Store
<1>4. CASE store.lease[m].kind = "none"
  <2>1. /\ at' = [at EXCEPT ![m] = "failed"] /\ at'[m] = "failed" /\ store' = store
        /\ child' = child
    BY <1>0, <1>4 DEF StartChild, Go
  <2>2. Fits(store, m)'
    BY <1>0, <1>1, <1>2, <2>1 DEF Fits
  <2>3. Spares(store', m)
    BY <2>1 DEF Spares
  <2> QED BY <1>0, <1>1, <1>2, <1>3, <2>1, <2>2, <2>3, OwnStep DEF ScenePlaces
<1>5. CASE store.lease[m].kind # "none"
  <2> DEFINE row == [store.lease[m] EXCEPT !.busy = TRUE]
             u == [store EXCEPT !.lease[m] = row]
  <2>1. /\ store' = u /\ child' = child \cup {m}
        /\ at' = [at EXCEPT ![m] = "child"] /\ at'[m] = "child"
    BY <1>0, <1>3, <1>5 DEF StartChild, Go, Store
  <2>2. /\ row \in Lease /\ row.kind = store.lease[m].kind /\ row.busy
        /\ row.reserved = store.lease[m].reserved /\ row.reserved \in {0, MaxBundle}
    BY <1>0, <1>3 DEF Lease
  <2> HIDE DEF row
  <2>3. row.reserved <= store.lease[m].reserved
    BY <2>2, ScenesAssumption
  <2>4. Books(u) /\ u.bundle = store.bundle /\ u.lease = [store.lease EXCEPT ![m] = row]
    BY <1>0, <1>3, <2>2, <2>3, RowSet
  <2> HIDE DEF u
  <2>5. Spares(store', m)
    BY <1>3, <2>1, <2>4 DEF Spares, Reads
  <2>6. store'.lease[m] = row
    BY <1>0, <1>3, <2>1, <2>4
  <2>7. store'.lease[m].reserved = MaxBundle
    BY <1>2, <1>5, <2>2, <2>6 DEF Makes
  <2>8. Fits(store, m)'
    BY <1>0, <1>1, <1>2, <1>5, <2>1, <2>2, <2>6, <2>7 DEF Fits, Makes
  <2> QED BY <1>0, <1>1, <1>2, <2>1, <2>4, <2>5, <2>8, OwnStep DEF ScenePlaces
<1> QED BY <1>4, <1>5

LEMMA ChildEndsKeeps == ASSUME ScenesInv, NEW m \in Makers, ChildEnds(m) PROVE ScenesInv'
<1> DEFINE s == Swept(store)
           row == [s.lease[m] EXCEPT !.busy = FALSE]
           u == [s EXCEPT !.lease[m] = row]
<1>0. m \in Callers /\ at[m] = "child" /\ open' = open /\ wants' = [wants EXCEPT ![m] = wants[m]]
      /\ at \in [Callers -> ScenePlaces]
  BY Elsewhere DEF Callers, ChildEnds, At, ScenesInv, ScenesTyped
<1>1. /\ m \notin open /\ open \subseteq Callers /\ child \subseteq Makers
  BY <1>0, Elsewhere
<1>2. wants[m] \in Keys /\ wants'[m] = wants[m] /\ Makes(store, m)
  BY <1>0 DEF ScenesInv, Fits, ChildEnds
<1>3. Books(s) /\ s \in Store /\ s.lease = store.lease /\ Spares(s, m)
  BY <1>0, SweptSpares
<1>4. s.lease \in [Callers -> Lease]
  BY <1>3 DEF Store
<1>5. /\ child' = child \ {m} /\ store' = u
      /\ \/ at' = [at EXCEPT ![m] = "failed"]
         \/ at' = [at EXCEPT ![m] = "publish"]
  BY <1>3 DEF ChildEnds, Go, Store
<1> HIDE DEF s
<1>6. /\ row \in Lease /\ row.kind = s.lease[m].kind
      /\ row.reserved = s.lease[m].reserved /\ row.reserved \in {0, MaxBundle}
  BY <1>0, <1>4 DEF Lease
<1> HIDE DEF row
<1>7. row.reserved <= s.lease[m].reserved
  BY <1>6, ScenesAssumption
<1>8. Books(u) /\ u.bundle = s.bundle /\ u.lease = [s.lease EXCEPT ![m] = row]
  BY <1>0, <1>3, <1>6, <1>7, RowSet
<1> HIDE DEF u
<1>9. Spares(store', m)
  BY <1>3, <1>4, <1>5, <1>8 DEF Spares, Reads
<1>10. store'.lease[m] = row
  BY <1>0, <1>4, <1>5, <1>8
<1>11. Makes(store', m)
  BY <1>2, <1>3, <1>6, <1>10 DEF Makes
<1>12. at'[m] \in {"failed", "publish"} /\ m \notin open' /\ m \notin child'
  BY <1>0, <1>1, <1>5
<1>13. Fits(store, m)'
  BY <1>2, <1>11, <1>12 DEF Fits, Makes
<1>14. PICK place \in {"failed", "publish"} : at' = [at EXCEPT ![m] = place]
  BY <1>5
<1>15. place \in ScenePlaces
  BY DEF ScenePlaces
<1> QED BY <1>0, <1>1, <1>2, <1>5, <1>8, <1>9, <1>13, <1>14, <1>15, OwnStep

LEMMA PublishKeeps == ASSUME ScenesInv, NEW m \in Makers, Publish(m) PROVE ScenesInv'
<1> DEFINE s == Swept(store)
           mine == s.bundle[wants[m]]
<1>0. /\ m \in Callers /\ at[m] = "publish" /\ wants' = [wants EXCEPT ![m] = wants[m]]
      /\ open' = open /\ child' = child /\ at \in [Callers -> ScenePlaces]
  BY Elsewhere DEF Callers, Publish, At, ScenesInv, ScenesTyped
<1>1. /\ m \notin open /\ m \notin child /\ open \subseteq Callers /\ child \subseteq Makers
  BY <1>0, Elsewhere
<1>2. wants[m] \in Keys /\ wants'[m] = wants[m] /\ Makes(store, m)
  BY <1>0 DEF ScenesInv, Fits, Publish
<1>3. Books(s) /\ s \in Store /\ s.lease = store.lease /\ Spares(s, m)
  BY <1>0, SweptSpares
<1>4. \/ /\ Valid(s, m) /\ mine.state = "pending"
         /\ \E bytes \in 1..MaxBundle : store' = Published(s, m, bytes)
         /\ Go(m, "release")
      \/ store' = s /\ Go(m, "failed")
  BY DEF Publish
<1> HIDE DEF s
<1>5. CASE /\ Valid(s, m) /\ mine.state = "pending"
           /\ \E bytes \in 1..MaxBundle : store' = Published(s, m, bytes)
           /\ Go(m, "release")
  <2>1. PICK bytes \in 1..MaxBundle : store' = Published(s, m, bytes)
    BY <1>5
  <2>2. s.lease[m].reserved = MaxBundle
    BY <1>2, <1>3, <1>5 DEF Valid, Makes
  <2> DEFINE b == [state |-> "ready", maker |-> m, bytes |-> bytes]
             t == Published(s, m, bytes)
  <2>3. /\ Books(t)
        /\ t.bundle = [s.bundle EXCEPT ![wants[m]] = b]
        /\ \A q \in Callers \ {m} : t.lease[q] = s.lease[q]
    BY <1>2, <1>3, <1>5, <2>2, PublishedBooks
  <2>4. b.state = "ready" /\ s.bundle \in [Keys -> Bundle]
    BY <1>3 DEF Store
  <2> HIDE DEF b, t
  <2>5. Spares(t, m)
    BY <1>3, <2>3, <2>4 DEF Spares, Reads
  <2>6. at' = [at EXCEPT ![m] = "release"] /\ store' = t
    BY <1>5, <2>1 DEF Go, t
  <2> QED BY <1>0, <1>1, <1>2, <2>3, <2>5, <2>6, Rests DEF ScenePlaces
<1>6. CASE store' = s /\ Go(m, "failed")
  <2>1. at' = [at EXCEPT ![m] = "failed"] /\ at'[m] = "failed"
    BY <1>0, <1>6 DEF Go
  <2>2. Fits(store, m)'
    BY <1>0, <1>1, <1>2, <2>1 DEF Fits
  <2> QED BY <1>0, <1>1, <1>2, <1>3, <1>6, <2>1, <2>2, OwnStep DEF ScenePlaces
<1> QED BY <1>4, <1>5, <1>6

LEMMA FailKeeps == ASSUME ScenesInv, NEW m \in Makers, Fail(m) PROVE ScenesInv'
<1> DEFINE mine == store.bundle[wants[m]]
           t == [store EXCEPT !.bundle[wants[m]] = NoBundle]
<1>0. /\ m \in Callers /\ at[m] = "failed" /\ wants' = [wants EXCEPT ![m] = wants[m]]
      /\ open' = open /\ child' = child /\ at' = [at EXCEPT ![m] = "giveup"]
  BY Elsewhere DEF Callers, Fail, At, Go
<1>1. /\ m \notin open /\ m \notin child
  BY <1>0, Elsewhere
<1>2. wants[m] \in Keys /\ Books(store) /\ store.bundle \in [Keys -> Bundle]
  BY <1>0 DEF ScenesInv, Fits, Fail, Books, Store
<1>3. Books(store') /\ Spares(store', m)
  <2>1. CASE mine.state = "pending" /\ mine.maker = m
    <3>1. store' = t
      BY <2>1 DEF Fail
    <3>2. Books(t) /\ t.bundle = [store.bundle EXCEPT ![wants[m]] = NoBundle]
          /\ t.lease = store.lease
      BY <1>2, <2>1, Empty, BundleSet
    <3> HIDE DEF t
    <3> QED BY <1>2, <2>1, <3>1, <3>2 DEF Spares, Reads
  <2>2. CASE ~(mine.state = "pending" /\ mine.maker = m)
    BY <1>2, <2>2 DEF Fail, Spares
  <2> QED BY <2>1, <2>2
<1>4. wants[m] \in Keys \cup {NoKey}
  BY <1>2
<1> QED BY <1>0, <1>1, <1>3, <1>4, Rests DEF ScenePlaces

LEMMA ReleaseMakerKeeps == ASSUME ScenesInv, NEW m \in Makers, ReleaseMaker(m) PROVE ScenesInv'
<1>0. /\ m \in Callers /\ at[m] \in {"release", "giveup"} /\ store' = Without(store, m)
      /\ open' = open /\ child' = child
  BY DEF Callers, ReleaseMaker
<1>1. /\ m \notin open /\ m \notin child /\ wants = [wants EXCEPT ![m] = wants[m]]
      /\ wants[m] \in Keys \cup {NoKey} /\ NoKey \in Keys \cup {NoKey}
  BY <1>0, Elsewhere
<1>2. Books(store') /\ Spares(store', m)
  BY <1>0, WithoutSpares
<1>3. PICK place \in {"describe", "end"}, key \in Keys \cup {NoKey} :
          at' = [at EXCEPT ![m] = place] /\ wants' = [wants EXCEPT ![m] = key]
  BY <1>1 DEF ReleaseMaker, Go, End
<1> QED BY <1>0, <1>1, <1>2, <1>3, Rests DEF ScenePlaces

LEMMA OpenKeeps == ASSUME ScenesInv, NEW r \in Callers, NEW k \in Keys, Open(r, k) PROVE ScenesInv'
<1> DEFINE s == Swept(store)
           row == [kind |-> "download", busy |-> TRUE, reserved |-> 0]
           u == [s EXCEPT !.lease[r] = row]
<1>0. /\ at[r] \in {"start", "describe"} /\ at' = [at EXCEPT ![r] = "read"]
      /\ wants' = [wants EXCEPT ![r] = k] /\ at \in [Callers -> ScenePlaces]
      /\ open' = open \cup {r} /\ child' = child /\ wants \in [Callers -> Keys \cup {NoKey}]
  BY DEF Open, At, Go, ScenesInv, ScenesTyped
<1>1. /\ r \notin child /\ open \subseteq Callers /\ child \subseteq Makers
  BY <1>0, Elsewhere
<1>2. Books(s) /\ s \in Store /\ s.lease = store.lease /\ Spares(s, r)
  BY SweptSpares
<1>3. store' = u /\ s.bundle[k].state = "ready"
  BY DEF Open, Opened
<1>4. s.lease \in [Callers -> Lease] /\ s.lease[r].reserved \in {0, MaxBundle}
  BY <1>2 DEF Store, Lease
<1>5. row \in Lease
  BY Zenon DEF Lease
<1>6. row.kind = "download" /\ row.busy /\ row.reserved = 0 /\ row.reserved <= s.lease[r].reserved
  BY <1>4, ScenesAssumption
<1> HIDE DEF row, s
<1>7. Books(u) /\ u.bundle = s.bundle /\ u.lease = [s.lease EXCEPT ![r] = row]
  BY <1>2, <1>5, <1>6, RowSet
<1> HIDE DEF u
<1>8. Spares(store', r)
  BY <1>2, <1>3, <1>4, <1>7 DEF Spares, Reads
<1>9. /\ store'.lease[r] = row /\ at'[r] = "read" /\ wants'[r] = k
      /\ store'.bundle[k].state = "ready"
  BY <1>0, <1>3, <1>4, <1>7
<1>10. Fits(store, r)'
  BY <1>0, <1>1, <1>6, <1>9 DEF Fits, Reads
<1> QED BY <1>0, <1>1, <1>3, <1>7, <1>8, <1>10, OwnStep DEF ScenePlaces

LEMMA CloseFileKeeps == ASSUME ScenesInv, NEW r \in Callers, CloseFile(r) PROVE ScenesInv'
<1>0. /\ at[r] = "read" /\ at' = [at EXCEPT ![r] = "close"] /\ store' = store
      /\ wants' = [wants EXCEPT ![r] = wants[r]]
      /\ open' = open \ {r} /\ child' = child /\ wants[r] \in Keys \cup {NoKey} /\ r \notin child
  BY Elsewhere DEF CloseFile, At, Go
<1>1. Books(store') /\ Spares(store', r)
  BY <1>0 DEF ScenesInv, Spares
<1> QED BY <1>0, <1>1, Rests DEF ScenePlaces

LEMMA RowGoes ==
    ASSUME ScenesInv, NEW r \in Callers, at[r] \in {"close", "dead"}, store' = Without(store, r), End(r),
           UNCHANGED <<open, child>>
    PROVE  ScenesInv'
<1>1. r \notin open /\ r \notin child
  BY Elsewhere
<1>2. Books(store') /\ Spares(store', r)
  BY WithoutSpares
<1> QED BY <1>1, <1>2, Rests DEF End, ScenePlaces

LEMMA CloseLeaseKeeps == ASSUME ScenesInv, NEW r \in Callers, CloseLease(r) PROVE ScenesInv'
BY RowGoes DEF CloseLease, At

LEMMA ReconcileLeaseKeeps == ASSUME ScenesInv, NEW r \in Callers, ReconcileLease(r) PROVE ScenesInv'
BY RowGoes DEF ReconcileLease, At

\* The document changes and no request moves: leases go only when nothing
\* works or reads under them.
LEMMA DocumentStep ==
    ASSUME ScenesInv, Books(store'), UNCHANGED <<at, wants, open, child>>,
           \A q \in Callers :
               /\ \/ store'.lease[q] = store.lease[q]
                  \/ ~store.lease[q].busy /\ store'.lease[q].kind = "none"
               /\ Reads(store, q) => Reads(store', q)
    PROVE  ScenesInv'
<1>1. ScenesTyped'
  BY DEF ScenesInv, ScenesTyped
<1>2. ASSUME NEW q \in Callers PROVE Fits(store, q)'
  <2>1. Fits(store, q)
    BY DEF ScenesInv
  <2>2. q \in open => at[q] = "read" /\ Reads(store, q)'
    BY <2>1 DEF Fits, Reads
  <2>3. q \in child => at[q] = "child" /\ store'.lease[q].kind # "none" /\ store'.lease[q].busy
    BY <2>1 DEF Fits
  <2>4. q \in Makers => /\ at[q] \in {"run", "child", "publish"} => Makes(store', q)
                        /\ at[q] \in {"run", "child", "publish", "failed"} => wants[q] \in Keys
    BY <2>1 DEF Fits, Makes
  <2> QED BY <2>2, <2>3, <2>4 DEF Fits
<1> QED BY <1>1, <1>2 DEF ScenesInv

\* Another generation, or another state of the document, keeps the books.
LEMMA DocumentBooks ==
    ASSUME NEW s, Books(s), NEW t \in Store,
           t.bundle = s.bundle, t.files = s.files, t.charged = s.charged, t.lease = s.lease
    PROVE  Books(t)
<1>1. Charge(t, Keys) = Charge(s, Keys) /\ Reserved(t) = Reserved(s)
  BY SameSums
<1> QED BY <1>1 DEF Books

LEMMA ApplyLayoutKeeps == ASSUME ScenesInv, ApplyLayout PROVE ScenesInv'
<1> DEFINE s == Swept(store)
           t == [s EXCEPT !.generation = @ + 1]
<1>1. Books(s) /\ s \in Store /\ s.lease = store.lease /\ \A r \in Callers : Reads(store, r) => Reads(s, r)
  BY SweptBooks, SweptSpares DEF ScenesInv
<1>2. s.generation < MaxLayouts /\ store' = Swept(t) /\ UNCHANGED <<at, wants, open, child>>
  BY DEF ApplyLayout
<1> HIDE DEF s
<1>3. /\ t \in Store /\ t.bundle = s.bundle /\ t.files = s.files /\ t.charged = s.charged
      /\ t.lease = s.lease
  BY <1>1, <1>2, ScenesAssumption DEF Store
<1> HIDE DEF t
<1>4. Books(t)
  BY <1>1, <1>3, DocumentBooks
<1>5. Books(Swept(t)) /\ Swept(t).lease = t.lease /\ \A r \in Callers : Reads(t, r) => Reads(Swept(t), r)
  BY <1>4, SweptBooks
<1>6. \A r \in Callers : Reads(s, r) => Reads(t, r)
  BY <1>3 DEF Reads
<1> QED BY <1>1, <1>2, <1>3, <1>5, <1>6, DocumentStep

LEMMA DeleteKeeps == ASSUME ScenesInv, Delete PROVE ScenesInv'
<1> DEFINE s == Swept(store)
           unclaimed == {r \in Held(s) : ~s.lease[r].busy}
           l == [r \in Callers |-> IF r \in unclaimed THEN NoLease ELSE s.lease[r]]
           t == [s EXCEPT !.state = "deleted", !.lease = l]
<1>1. Books(s) /\ s \in Store /\ s.lease = store.lease /\ \A r \in Callers : Reads(store, r) => Reads(s, r)
  BY SweptBooks, SweptSpares DEF ScenesInv
<1>2. store' = Swept(t) /\ UNCHANGED <<at, wants, open, child>>
  BY DEF Delete
<1> HIDE DEF s
<1>3. s.lease \in [Callers -> Lease]
  BY <1>1 DEF Store
<1>4. \A r \in Callers : l[r] = s.lease[r] \/ (~s.lease[r].busy /\ l[r] = NoLease)
  OBVIOUS
<1>5. l \in [Callers -> Lease]
  BY <1>3, NoRow
<1> HIDE DEF l
<1>6. /\ t \in Store /\ t.bundle = s.bundle /\ t.files = s.files /\ t.charged = s.charged
      /\ t.lease = l
  BY <1>1, <1>5 DEF Store
<1> HIDE DEF t
<1>7. Reserved(t) <= Reserved(s)
  <2> DEFINE v == Reservations(t)
             w == Reservations(s)
  <2>1. \A q \in Callers : v[q] = t.lease[q].reserved /\ v[q] \in Nat
    BY <1>6, Sums
  <2>2. \A q \in Callers : w[q] = s.lease[q].reserved /\ w[q] \in Nat
    BY <1>1, Sums
  <2>3. Reserved(t) = Total(v, Callers) /\ Reserved(s) = Total(w, Callers)
    BY <1>1, <1>6, Sums
  <2>4. \A q \in Callers : v[q] <= w[q]
    BY <1>4, <1>6, <2>1, <2>2, NoRow
  <2> HIDE DEF v, w
  <2>5. Total(v, Callers) <= Total(w, Callers)
    BY <2>1, <2>2, <2>4, KeysFinite, TotalMonotone
  <2> QED BY <2>3, <2>5
<1>8. Books(t)
  <2>1. Charge(t, Keys) = Charge(s, Keys)
    BY <1>6, SameSums
  <2>2. Reserved(t) \in Nat /\ Reserved(s) \in Nat /\ s.charged \in Nat /\ OwnerBytes \in Nat
    BY <1>1, <1>6, Sums, ScenesAssumption DEF Store
  <2>3. t.charged + Reserved(t) <= OwnerBytes
    BY <1>1, <1>6, <1>7, <2>2 DEF Books
  <2> QED BY <1>1, <1>6, <2>1, <2>3 DEF Books
<1>9. Books(Swept(t)) /\ Swept(t).lease = t.lease /\ \A r \in Callers : Reads(t, r) => Reads(Swept(t), r)
  BY <1>8, SweptBooks
<1>10. \A r \in Callers : Reads(s, r) => Reads(t, r)
  BY <1>4, <1>6 DEF Reads
<1>11. NoLease.kind = "none"
  BY NoRow
<1> QED BY <1>1, <1>2, <1>4, <1>6, <1>9, <1>10, <1>11, DocumentStep

\* Files come and go that no bundle names.
LEMMA FilesBooks ==
    ASSUME NEW s, Books(s), NEW fs \in SUBSET Keys,
           \A k \in Keys : s.bundle[k].state = "ready" => k \in fs
    PROVE  LET t == [s EXCEPT !.files = fs]
           IN  Books(t) /\ t.lease = s.lease /\ t.bundle = s.bundle
<1> DEFINE t == [s EXCEPT !.files = fs]
<1>1. /\ t \in Store /\ t.bundle = s.bundle /\ t.files = fs /\ t.charged = s.charged
      /\ t.lease = s.lease
  BY DEF Books, Store
<1> HIDE DEF t
<1>2. Charge(t, Keys) = Charge(s, Keys) /\ Reserved(t) = Reserved(s)
  BY <1>1, SameSums
<1>3. Books(t)
  BY <1>1, <1>2 DEF Books
<1> QED BY <1>1, <1>3 DEF t

LEMMA ReconcileFilesKeeps == ASSUME ScenesInv, ReconcileFiles PROVE ScenesInv'
<1> DEFINE listed == {k \in Keys : store.bundle[k].state = "ready"}
           fs == store.files \cap listed
           t == [store EXCEPT !.files = fs]
<1>1. store' = t /\ UNCHANGED <<at, wants, open, child>> /\ Books(store)
  BY DEF ReconcileFiles, ScenesInv
<1>2. fs \in SUBSET Keys /\ \A k \in Keys : store.bundle[k].state = "ready" => k \in fs
  BY <1>1 DEF Books
<1> HIDE DEF fs
<1>3. Books(t) /\ t.lease = store.lease /\ t.bundle = store.bundle
  BY <1>1, <1>2, FilesBooks
<1> HIDE DEF t
<1>4. \A q \in Callers : Reads(store, q) => Reads(store', q)
  BY <1>1, <1>3 DEF Reads
<1> QED BY <1>1, <1>3, <1>4, DocumentStep

LEMMA CrashKeeps == ASSUME ScenesInv, Crash PROVE ScenesInv'
<1>1. /\ open' = {} /\ child' = {} /\ wants' = wants
      /\ at' = [r \in Callers |-> IF at[r] \in {"start", "end"} THEN at[r] ELSE "dead"]
  BY DEF Crash
<1>2. PICK moved \in {{}} \cup {{m} : m \in {n \in Makers : At(n, "publish")}} :
          store' = [store EXCEPT !.files = @ \cup {wants[m] : m \in moved}]
  BY DEF Crash
<1> DEFINE fs == store.files \cup {wants[m] : m \in moved}
           t == [store EXCEPT !.files = fs]
<1>3. Books(store) /\ store.files \in SUBSET Keys
  BY DEF ScenesInv, Books, Store
<1>4. \A m \in moved : m \in Callers /\ m \in Makers /\ at[m] = "publish"
  BY <1>2 DEF At, Callers
<1>5. \A m \in moved : wants[m] \in Keys
  BY <1>4 DEF ScenesInv, Fits
<1>6. fs \in SUBSET Keys /\ \A k \in Keys : store.bundle[k].state = "ready" => k \in fs
  BY <1>3, <1>5 DEF Books
<1>7. store' = t
  BY <1>2
<1> HIDE DEF fs
<1>8. Books(t)
  BY <1>3, <1>6, FilesBooks
<1>9. ScenesTyped'
  <2>1. \A r \in Callers : (IF at[r] \in {"start", "end"} THEN at[r] ELSE "dead") \in ScenePlaces
    BY DEF ScenePlaces
  <2> QED BY <1>1, <2>1 DEF ScenesInv, ScenesTyped
<1>10. ASSUME NEW r \in Callers PROVE Fits(store, r)'
  <2>1. at'[r] \notin {"run", "child", "publish", "failed"} /\ r \notin open' /\ r \notin child'
    BY <1>1
  <2> QED BY <2>1 DEF Fits
<1> QED BY <1>7, <1>8, <1>9, <1>10 DEF ScenesInv

-----------------------------------------------------------------------------
(* Theorems                                                                *)

LEMMA InitKeeps == ScenesInit => ScenesInv
<1> SUFFICES ASSUME ScenesInit PROVE ScenesInv
  OBVIOUS
<1>1. /\ store = [state |-> "active", generation |-> 0,
                  bundle |-> [k \in Keys |-> NoBundle], files |-> {}, charged |-> 0,
                  lease |-> [r \in Callers |-> NoLease]]
      /\ at = [r \in Callers |-> "start"] /\ wants = [r \in Callers |-> NoKey]
      /\ open = {} /\ child = {}
  BY DEF ScenesInit
<1>2. store \in Store
  <2> DEFINE bs == [k \in Keys |-> NoBundle]
             ls == [r \in Callers |-> NoLease]
  <2>1. bs \in [Keys -> Bundle] /\ ls \in [Callers -> Lease] /\ 0 \in 0..MaxLayouts
    BY Empty, NoRow, ScenesAssumption
  <2> HIDE DEF bs, ls
  <2> QED BY <1>1, <2>1 DEF Store, bs, ls
<1>3. \A k \in Keys : store.bundle[k] = NoBundle
  BY <1>1
<1>4. \A r \in Callers : store.lease[r] = NoLease
  BY <1>1
<1>5. Charge(store, Keys) = 0
  <2> DEFINE w == Bytes(store)
  <2>1. \A k \in Keys : w[k] = 0
    BY <1>2, <1>3, Empty, Sums
  <2>2. Charge(store, Keys) = Total(w, Keys)
    BY <1>2, Sums
  <2> HIDE DEF w
  <2>3. Total(w, Keys) = 0
    BY <2>1, KeysFinite, TotalZero
  <2> QED BY <2>2, <2>3
<1>6. Reserved(store) = 0
  <2> DEFINE w == Reservations(store)
  <2>1. \A r \in Callers : w[r] = 0
    BY <1>2, <1>4, NoRow, Sums
  <2>2. Reserved(store) = Total(w, Callers)
    BY <1>2, Sums
  <2> HIDE DEF w
  <2>3. Total(w, Callers) = 0
    BY <2>1, KeysFinite, TotalZero
  <2> QED BY <2>2, <2>3
<1>7. Books(store)
  BY <1>1, <1>2, <1>3, <1>5, <1>6, Empty, ScenesAssumption DEF Books
<1>8. ScenesTyped
  BY <1>1 DEF ScenesTyped, ScenePlaces
<1>9. \A r \in Callers : Fits(store, r)
  BY <1>1 DEF Fits
<1> QED BY <1>7, <1>8, <1>9 DEF ScenesInv

LEMMA NextKeeps == ScenesInv /\ [ScenesNext]_scenesVars => ScenesInv'
<1> SUFFICES ASSUME ScenesInv, [ScenesNext]_scenesVars PROVE ScenesInv'
  OBVIOUS
<1>1. ASSUME NEW m \in Makers, Make(m) PROVE ScenesInv'
  <2>1. CASE \E v \in Views : Begin(m, v)
    BY <2>1, BeginKeeps
  <2>2. CASE ~ \E v \in Views : Begin(m, v)
    BY <1>1, <2>2, BeginRefusedKeeps, StartChildKeeps, ChildEndsKeeps, PublishKeeps, FailKeeps,
       ReleaseMakerKeeps, WaitKeeps DEF Make
  <2> QED BY <2>1, <2>2
<1>2. ASSUME NEW r \in Callers, Download(r) PROVE ScenesInv'
  BY <1>2, OpenKeeps, OpenRefusedKeeps, CloseFileKeeps, CloseLeaseKeeps DEF Download
<1>3. ASSUME NEW r \in Callers, ReconcileLease(r) PROVE ScenesInv'
  BY <1>3, ReconcileLeaseKeeps
<1>4. CASE ApplyLayout \/ Delete \/ Crash \/ ReconcileFiles
  BY <1>4, ApplyLayoutKeeps, DeleteKeeps, CrashKeeps, ReconcileFilesKeeps
<1>5. CASE UNCHANGED scenesVars
  <2>1. /\ store' = store /\ UNCHANGED <<at, wants, open, child>>
    BY <1>5 DEF scenesVars
  <2>2. Books(store')
    BY <2>1 DEF ScenesInv
  <2> QED BY <2>1, <2>2, DocumentStep
<1> QED BY <1>1, <1>2, <1>3, <1>4, <1>5 DEF ScenesNext

\* Every request's place agrees with its row, its bundle and its child, and
\* the books of the store are in order, in every reachable state.
THEOREM ScenesInvariance == ScenesSpec => []ScenesInv
BY InitKeeps, NextKeeps, PTL DEF ScenesSpec

\* The state has its shape, and nothing works or reads without a lease.
THEOREM ScenesTypeCorrect == ScenesSpec => []ScenesTypeOK
<1>1. ScenesInv => ScenesTypeOK
  <2> SUFFICES ASSUME ScenesInv PROVE ScenesTypeOK
    OBVIOUS
  <2>1. store \in Store /\ ScenesTyped /\ \A r \in Callers : Fits(store, r)
    BY DEF ScenesInv, Books
  <2>2. /\ store.state \in {"active", "deleted", "gone"}
        /\ store.generation \in 0..MaxLayouts /\ store.charged \in Nat
        /\ store.bundle \in [Keys -> Bundle] /\ store.files \subseteq Keys
        /\ store.lease \in [Callers -> Lease]
    BY <2>1 DEF Store
  <2>3. \A r \in open \cup child : store.lease[r].kind # "none"
    BY <2>1 DEF ScenesTyped, Fits, Reads, Callers
  <2> QED BY <2>1, <2>2, <2>3 DEF ScenesTypeOK, ScenesTyped, Bundle, Lease
<1> QED BY <1>1, ScenesInvariance, PTL

\* A bundle that somebody downloads stays listed, what is listed is on disk
\* and charged exactly, and the charge with what is being made stays within
\* the account's budget: prepare_scene, scene_publish, the sweep, the deletion
\* of the document and a killed worker leave it so.
THEOREM ScenesAccounted == ScenesSpec => []BundlesAreAccounted
<1>1. ScenesInv => BundlesAreAccounted
  <2> SUFFICES ASSUME ScenesInv PROVE BundlesAreAccounted
    OBVIOUS
  <2> DEFINE listed == {k \in Keys : store.bundle[k].state = "ready"}
  <2>1. Books(store) /\ store \in Store /\ listed \in SUBSET Keys
    BY DEF ScenesInv, Books
  <2>2. \A r \in open : wants[r] \in listed
    BY DEF ScenesInv, ScenesTyped, Fits, Reads
  <2>3. listed \subseteq store.files
    BY <2>1 DEF Books
  <2>4. Charge(store, Keys) = Charge(store, listed)
    <3> DEFINE w == Bytes(store)
               v == [k \in Keys |-> IF k \in listed THEN 0 ELSE w[k]]
    <3>1. \A k \in Keys : w[k] = store.bundle[k].bytes /\ w[k] \in Nat
      BY <2>1, Sums
    <3>2. \A k \in Keys : k \notin listed => w[k] = 0
      BY <2>1, <3>1 DEF Books
    <3>3. Charge(store, Keys) = Total(w, Keys) /\ Charge(store, listed) = Total(w, listed)
          /\ Charge(store, listed) \in Nat
      BY <2>1, Sums
    <3> HIDE DEF w, listed
    <3>4. /\ \A k \in Keys : v[k] = IF k \in listed THEN 0 ELSE w[k]
          /\ \A k \in Keys : v[k] = 0
      BY <3>2
    <3> HIDE DEF v
    <3>5. Total(w, Keys) = Total(w, listed) + Total(v, Keys)
      BY <2>1, <3>1, <3>4, KeysFinite, TotalSplit
    <3>6. Total(v, Keys) = 0
      BY <3>4, KeysFinite, TotalZero
    <3> QED BY <3>3, <3>5, <3>6
  <2>5. store.charged = Charge(store, listed) /\ store.charged + Reserved(store) <= OwnerBytes
    BY <2>1, <2>4 DEF Books
  <2> QED BY <2>2, <2>3, <2>5 DEF BundlesAreAccounted
<1> QED BY <1>1, ScenesInvariance, PTL

=============================================================================
