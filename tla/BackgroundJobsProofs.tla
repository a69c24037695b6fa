------------------------ MODULE BackgroundJobsProofs ------------------------
(***************************************************************************)
(* Proofs about the two analyses that RQ workers run, the one of a preview *)
(* (LayoutSuggestion) and the one of a projected document                  *)
(* (ProjectionAnalysis), for every set of requests, every question and     *)
(* every bound on mishaps: their types, that their status tells the truth, *)
(* and that what they show is fresh; and about the jobs that run side by   *)
(* side (MCBackgroundJobs).                                                *)
(***************************************************************************)
EXTENDS MCBackgroundJobs, FiniteSetTheorems, TLAPS

(***************************************************************************)
(* The suggestion of a preview.  An attempt is in at most one place -      *)
(* about to be queued, in the queue, or at work - and what the current one *)
(* has read is the current selection.                                      *)
(***************************************************************************)

Statuses == {"none", "queued", "processing", "done", "failed"}
AttemptRuns == [attempt : 1..attempt, selection : Selections]

TypeInv ==
    /\ {selection, suggestion} \subseteq Selections \cup {NoSelection}
    /\ attempt \in 0..MaxAttempts /\ entering \in 0..attempt
    /\ lost \subseteq 1..attempt /\ orphan \in BOOLEAN /\ deaths \in Nat
    /\ status \in Statuses
    /\ waiting \in Seq(1..attempt) /\ IsInjective(waiting)
    /\ working \subseteq AttemptRuns
    /\ reports \subseteq 1..attempt

\* Attempts are made for a selection, and the one being queued is the last,
\* unheard of, and has the lock.
NumberInv ==
    /\ attempt > 0 => selection \in Selections
    /\ entering # 0 => entering = attempt /\ entering \notin reports /\ ~orphan

\* Only a killed process leaves its lock behind, and only one that ran into
\* such a lock, or was killed itself, leaves the current attempt lost.
LostInv ==
    /\ orphan => deaths > 0
    /\ attempt \in lost => deaths > 0

\* An attempt is in one place.
PlaceInv ==
    /\ \A r \in working : r.attempt \notin ToSet(waiting)
    /\ entering # 0 => /\ entering \notin ToSet(waiting)
                       /\ \A r \in working : r.attempt # entering

\* What the current attempt has read did not change.
ReadInv == \A r \in working : r.attempt = attempt => r.selection = selection

\* What is shown was found for the selection, and nothing may take it back.
ShownInv ==
    suggestion # NoSelection =>
        /\ suggestion = selection
        /\ status = "done"
        /\ entering = 0
        /\ attempt \notin ToSet(waiting)

AttemptAtWork(n) == \E r \in working : r.attempt = n

\* What is reported as under way is on its way somewhere.
UnderWayInv ==
    status \in UnderWay =>
        /\ attempt > 0
        /\ \/ entering = attempt
           \/ attempt \in ToSet(waiting)
           \/ AttemptAtWork(attempt)
           \/ attempt \in reports
           \/ attempt \in lost

SuggestionInv ==
    TypeInv /\ NumberInv /\ LostInv /\ PlaceInv /\ ReadInv /\ ShownInv /\ UnderWayInv

-----------------------------------------------------------------------------
(* The queue                                                               *)

LEMMA AppendFacts ==
    ASSUME NEW S, NEW q \in Seq(S), IsInjective(q), NEW n \in S, n \notin ToSet(q)
    PROVE  /\ Append(q, n) \in Seq(S) /\ IsInjective(Append(q, n))
           /\ ToSet(Append(q, n)) = ToSet(q) \cup {n}
<1>1. /\ Append(q, n) \in Seq(S) /\ Len(Append(q, n)) = Len(q) + 1
      /\ \A i \in 1..Len(q) : Append(q, n)[i] = q[i]
      /\ Append(q, n)[Len(q) + 1] = n
      /\ DOMAIN q = 1..Len(q) /\ DOMAIN Append(q, n) = 1..Len(q) + 1
      /\ Len(q) \in Nat
  OBVIOUS
<1>2. IsInjective(Append(q, n))
  BY <1>1 DEF IsInjective, ToSet
<1>3. ToSet(Append(q, n)) = ToSet(q) \cup {n}
  BY <1>1 DEF ToSet
<1>4. QED
  BY <1>1, <1>2, <1>3

LEMMA TailFacts ==
    ASSUME NEW S, NEW q \in Seq(S), IsInjective(q), q # <<>>
    PROVE  /\ Tail(q) \in Seq(S) /\ IsInjective(Tail(q))
           /\ Head(q) \in ToSet(q) /\ Head(q) \in S
           /\ ToSet(Tail(q)) = ToSet(q) \ {Head(q)}
<1>1. /\ Tail(q) \in Seq(S) /\ Len(q) \in Nat \ {0} /\ Len(Tail(q)) = Len(q) - 1
      /\ \A i \in 1..Len(q) - 1 : Tail(q)[i] = q[i + 1]
      /\ DOMAIN q = 1..Len(q) /\ DOMAIN Tail(q) = 1..Len(q) - 1
      /\ Head(q) = q[1]
  OBVIOUS
<1>2. IsInjective(Tail(q))
  BY <1>1 DEF IsInjective
<1>3. Head(q) \in ToSet(q) /\ Head(q) \in S
  BY <1>1 DEF ToSet
<1>4. ToSet(Tail(q)) \subseteq ToSet(q) \ {Head(q)}
  BY <1>1 DEF ToSet, IsInjective
<1>5. ASSUME NEW i \in 1..Len(q), q[i] # Head(q)
      PROVE  q[i] \in ToSet(Tail(q))
  <2>1. i - 1 \in 1..Len(q) - 1 /\ q[i] = Tail(q)[i - 1]
    BY <1>1, <1>5
  <2>2. QED
    BY <1>1, <2>1 DEF ToSet
<1>6. ToSet(q) \ {Head(q)} \subseteq ToSet(Tail(q))
  BY <1>1, <1>5 DEF ToSet
<1>7. QED
  BY <1>1, <1>2, <1>3, <1>4, <1>6

LEMMA Widening ==
    ASSUME NEW n \in Nat, NEW q \in Seq(1..n)
    PROVE  q \in Seq(1..n + 1) /\ ToSet(q) \subseteq 1..n
<1>1. 1..n \subseteq 1..n + 1
  OBVIOUS
<1>2. /\ Len(q) \in Nat /\ DOMAIN q = 1..Len(q)
      /\ \A i \in 1..Len(q) : q[i] \in 1..n
  OBVIOUS
<1>3. QED
  BY <1>1, <1>2 DEF ToSet

-----------------------------------------------------------------------------
(* The steps                                                               *)

LEMMA SuggestionInitEstablishes == SuggestionInit => SuggestionInv
<1> SUFFICES ASSUME SuggestionInit PROVE SuggestionInv
  OBVIOUS
<1>1. waiting \in Seq(1..attempt) /\ IsInjective(waiting) /\ ToSet(waiting) = {}
  BY DEF SuggestionInit, IsInjective, ToSet
<1>2. TypeInv
  <2>1. /\ attempt \in 0..MaxAttempts /\ entering \in 0..attempt /\ deaths \in Nat
        /\ status \in Statuses
    BY SuggestionAssumption DEF SuggestionInit, Statuses
  <2>2. orphan \in BOOLEAN /\ ~orphan
    BY Zenon DEF SuggestionInit
  <2>3. QED
    BY <1>1, <2>1, <2>2 DEF SuggestionInit, TypeInv
<1>3. NumberInv /\ LostInv /\ PlaceInv
  BY <1>1 DEF SuggestionInit, NumberInv, LostInv, PlaceInv
<1>4. ReadInv /\ ShownInv /\ UnderWayInv
  BY DEF SuggestionInit, ReadInv, ShownInv, UnderWayInv, UnderWay
<1>5. QED
  BY <1>2, <1>3, <1>4 DEF SuggestionInv

\* A new number is ahead of everything that is under way.
LEMMA NextNumber ==
    ASSUME SuggestionInv, attempt < MaxAttempts, attempt' = attempt + 1,
           UNCHANGED <<lost, orphan, waiting, working, reports, deaths>>
    PROVE  /\ attempt' \in 0..MaxAttempts /\ 0..attempt \subseteq 0..attempt'
           /\ lost' \subseteq 1..attempt' /\ attempt' \notin reports /\ LostInv'
           /\ waiting' \in Seq(1..attempt') /\ IsInjective(waiting')
           /\ working' \subseteq AttemptRuns' /\ reports' \subseteq 1..attempt'
           /\ attempt' \notin ToSet(waiting)
           /\ \A r \in working : r.attempt \in 1..attempt
<1>1. attempt \in Nat /\ MaxAttempts \in Nat
  BY SuggestionAssumption DEF SuggestionInv, TypeInv
<1>2. waiting \in Seq(1..attempt + 1) /\ ToSet(waiting) \subseteq 1..attempt
  BY <1>1, Widening DEF SuggestionInv, TypeInv
<1>3. 1..attempt \subseteq 1..attempt + 1
  BY <1>1
<1>4. QED
  BY <1>1, <1>2, <1>3, SuggestionAssumption DEF SuggestionInv, TypeInv, LostInv, AttemptRuns

LEMMA ReselectPreserves ==
    ASSUME SuggestionInv, NEW s \in Selections, Reselect(s)
    PROVE  SuggestionInv'
<1>1. /\ attempt' = attempt + 1 /\ attempt \in Nat /\ entering = 0
      /\ selection' = s /\ status' = "none" /\ suggestion' = NoSelection
      /\ UNCHANGED <<lost, orphan, entering, waiting, working, reports, deaths>>
  BY DEF Reselect, Forget, Unlocked, SuggestionInv, TypeInv
<1>2. TypeInv' /\ LostInv'
  BY <1>1, NextNumber DEF Reselect, SuggestionInv, TypeInv, Statuses
<1>3. NumberInv' /\ ReadInv' /\ ShownInv' /\ UnderWayInv'
  BY <1>1, NextNumber
     DEF Reselect, SuggestionInv, TypeInv, NumberInv, ReadInv, ShownInv, UnderWayInv, UnderWay
<1>4. PlaceInv'
  BY <1>1 DEF SuggestionInv, PlaceInv
<1>5. QED
  BY <1>2, <1>3, <1>4 DEF SuggestionInv

LEMMA PublishAttemptPreserves ==
    ASSUME SuggestionInv, PublishAttempt
    PROVE  SuggestionInv'
<1>1. /\ attempt' = attempt + 1 /\ attempt \in Nat /\ entering' = attempt'
      /\ status' = "queued" /\ suggestion = NoSelection /\ selection \in Selections
      /\ UNCHANGED <<selection, suggestion, lost, orphan, waiting, working, reports, deaths>>
      /\ ~orphan
  BY DEF PublishAttempt, Unlocked, Wanted, SuggestionInv, TypeInv
<1>2. TypeInv' /\ LostInv'
  BY <1>1, NextNumber DEF PublishAttempt, SuggestionInv, TypeInv, Statuses
<1>3. NumberInv' /\ ReadInv' /\ ShownInv' /\ UnderWayInv'
  BY <1>1, NextNumber
     DEF PublishAttempt, SuggestionInv, TypeInv, NumberInv, ReadInv, ShownInv, UnderWayInv
<1>4. PlaceInv'
  BY <1>1, NextNumber DEF PublishAttempt, SuggestionInv, PlaceInv
<1>5. QED
  BY <1>2, <1>3, <1>4 DEF SuggestionInv

\* The end of the GET: the attempt is queued, or lost with its process.
LEMMA EnteringEnds ==
    ASSUME SuggestionInv, entering # 0, entering' = 0,
           UNCHANGED <<selection, attempt, suggestion, working, reports>>,
           status' \in {status, "failed"},
           waiting' \in {waiting, Append(waiting, entering)},
           deaths' \in Nat, deaths' >= deaths, orphan' \in BOOLEAN, orphan' => deaths' > 0,
           \/ lost' = lost
           \/ lost' = lost \cup {entering} /\ deaths' > 0,
           \/ waiting' # waiting \/ status' = "failed" \/ entering \in lost'
    PROVE  SuggestionInv'
<1>1. /\ entering = attempt /\ entering \in 1..attempt
      /\ entering \notin ToSet(waiting)
      /\ suggestion = NoSelection /\ deaths \in Nat
  BY DEF SuggestionInv, TypeInv, NumberInv, PlaceInv, ShownInv
<1>2. /\ waiting' \in Seq(1..attempt) /\ IsInjective(waiting')
      /\ \/ ToSet(waiting') = ToSet(waiting) \cup {entering}
         \/ ToSet(waiting') = ToSet(waiting) /\ waiting' = waiting
  <2>1. waiting \in Seq(1..attempt) /\ IsInjective(waiting)
    BY DEF SuggestionInv, TypeInv
  <2>2. CASE waiting' = waiting
    BY <2>1, <2>2
  <2>3. CASE waiting' = Append(waiting, entering)
    BY <1>1, <2>1, <2>3, AppendFacts
  <2>4. QED
    BY <2>2, <2>3
<1>3. TypeInv'
  <2>1. /\ AttemptRuns' = AttemptRuns /\ attempt' = attempt /\ entering' \in 0..attempt
        /\ {selection', suggestion'} \subseteq Selections \cup {NoSelection}
        /\ attempt \in 0..MaxAttempts /\ working' \subseteq AttemptRuns
        /\ reports' \subseteq 1..attempt
    BY <1>1 DEF SuggestionInv, TypeInv, AttemptRuns
  <2>2. status' \in Statuses
    BY DEF SuggestionInv, TypeInv, Statuses
  <2>3. lost' \subseteq 1..attempt
    BY <1>1 DEF SuggestionInv, TypeInv
  <2>4. QED
    BY <1>2, <2>1, <2>2, <2>3 DEF TypeInv
<1>4. PlaceInv'
  BY <1>1, <1>2 DEF SuggestionInv, PlaceInv
<1>5. NumberInv' /\ ReadInv' /\ ShownInv'
  BY <1>1, <1>2 DEF SuggestionInv, TypeInv, NumberInv, ReadInv, ShownInv
<1>6. UnderWayInv'
  BY <1>1, <1>2 DEF SuggestionInv, TypeInv, UnderWayInv, UnderWay
<1>7. LostInv'
  BY <1>1 DEF SuggestionInv, LostInv
<1>8. QED
  BY <1>3, <1>4, <1>5, <1>6, <1>7 DEF SuggestionInv

LEMMA GetEndPreserves ==
    ASSUME SuggestionInv, EnqueueAttempt \/ EnqueueFailed \/ WebProcessDies
    PROVE  SuggestionInv'
<1>1. /\ deaths \in Nat /\ orphan \in BOOLEAN /\ waiting \in Seq(1..attempt)
      /\ entering \in 0..attempt
      /\ orphan => deaths > 0
  BY DEF SuggestionInv, TypeInv, LostInv
<1>2. entering # 0 => Append(waiting, entering) # waiting
  <2>1. Len(waiting) \in Nat /\ Len(Append(waiting, entering)) = Len(waiting) + 1
    BY <1>1
  <2>2. QED
    BY <2>1
<1>3. CASE EnqueueAttempt
  BY <1>1, <1>2, <1>3, EnteringEnds DEF EnqueueAttempt
<1>4. CASE EnqueueFailed
  BY <1>1, <1>4, EnteringEnds DEF EnqueueFailed
<1>5. CASE WebProcessDies
  BY <1>1, <1>2, <1>5, EnteringEnds DEF WebProcessDies
<1>6. QED
  BY <1>3, <1>4, <1>5

LEMMA OrphanExpiresPreserves ==
    ASSUME SuggestionInv, OrphanExpires
    PROVE  SuggestionInv'
BY DEF OrphanExpires, SuggestionInv, TypeInv, NumberInv, LostInv, PlaceInv, ReadInv, ShownInv,
       UnderWayInv, AttemptAtWork, AttemptRuns

LEMMA StartAttemptPreserves ==
    ASSUME SuggestionInv, StartAttempt
    PROVE  SuggestionInv'
<1>1. /\ waiting # <<>> /\ waiting' = Tail(waiting) /\ entering = 0
      /\ UNCHANGED <<selection, attempt, suggestion, lost, orphan, entering, reports, deaths>>
  BY DEF StartAttempt, Unlocked
<1>2. /\ waiting' \in Seq(1..attempt) /\ IsInjective(waiting')
      /\ Head(waiting) \in ToSet(waiting) /\ Head(waiting) \in 1..attempt
      /\ ToSet(waiting') = ToSet(waiting) \ {Head(waiting)}
  BY <1>1, TailFacts DEF SuggestionInv, TypeInv
<1>3. CASE Head(waiting) # attempt
  <2>1. UNCHANGED <<status, working>>
    BY <1>3 DEF StartAttempt
  <2>2. TypeInv' /\ PlaceInv'
    BY <1>1, <1>2, <2>1 DEF SuggestionInv, TypeInv, PlaceInv, AttemptRuns
  <2>3. NumberInv' /\ LostInv' /\ ReadInv' /\ ShownInv' /\ UnderWayInv'
    BY <1>1, <1>2, <1>3, <2>1
       DEF SuggestionInv, NumberInv, LostInv, ReadInv, ShownInv, UnderWayInv, AttemptAtWork
  <2>4. QED
    BY <2>2, <2>3 DEF SuggestionInv
<1>4. CASE Head(waiting) = attempt
  <2> DEFINE r == [attempt |-> attempt, selection |-> selection]
  <2>1. /\ status' = "processing" /\ working' = working \cup {r}
        /\ attempt \in 1..attempt /\ selection \in Selections /\ suggestion = NoSelection
    BY <1>2, <1>4 DEF StartAttempt, SuggestionInv, TypeInv, NumberInv, ShownInv
  <2>2. r \in AttemptRuns /\ AttemptRuns' = AttemptRuns
    BY <1>1, <2>1 DEF AttemptRuns
  <2>3. TypeInv'
    BY <1>1, <1>2, <2>1, <2>2 DEF SuggestionInv, TypeInv, Statuses
  <2>4. PlaceInv' /\ ReadInv' /\ NumberInv' /\ LostInv' /\ ShownInv'
    BY <1>1, <1>2, <1>4, <2>1 DEF SuggestionInv, PlaceInv, ReadInv, NumberInv, LostInv, ShownInv
  <2>5. r \in working' /\ r.attempt = attempt' /\ attempt' > 0
    BY <1>1, <2>1
  <2>6. UnderWayInv'
    BY <2>5 DEF UnderWayInv, AttemptAtWork
  <2>7. QED
    BY <2>3, <2>4, <2>6 DEF SuggestionInv
<1>5. QED
  BY <1>3, <1>4

\* A process that may be killed with the lock in hand.
KilledOrNot == Killed \/ UNCHANGED <<orphan, deaths>>

LEMMA KilledFacts ==
    ASSUME SuggestionInv, KilledOrNot
    PROVE  /\ orphan' \in BOOLEAN /\ deaths' \in Nat /\ deaths' >= deaths /\ deaths \in Nat
           /\ orphan' => deaths' > 0
           /\ entering # 0 => ~orphan'
<1>1. /\ orphan \in BOOLEAN /\ deaths \in Nat /\ (orphan => deaths > 0)
      /\ entering # 0 => ~orphan
  BY DEF SuggestionInv, TypeInv, NumberInv, LostInv
<1>2. CASE Killed
  <2>1. deaths' = deaths + 1 /\ orphan' \in {orphan, entering = 0}
    BY <1>2 DEF Killed
  <2>2. orphan' \in BOOLEAN /\ (entering # 0 => ~orphan')
    <3>1. CASE orphan' = orphan
      BY <1>1, <3>1
    <3>2. CASE orphan' = (entering = 0)
      BY <3>2, Zenon
    <3>3. QED
      BY <2>1, <3>1, <3>2
  <2>3. QED
    BY <1>1, <2>1, <2>2
<1>3. QED
  BY <1>1, <1>2 DEF KilledOrNot

LEMMA StartFailsPreserves ==
    ASSUME SuggestionInv, StartFails
    PROVE  SuggestionInv'
<1>1. /\ waiting # <<>> /\ waiting' = Tail(waiting)
      /\ reports' = reports \cup {Head(waiting)}
      /\ UNCHANGED <<selection, attempt, status, suggestion, lost, entering, working>>
      /\ KilledOrNot
  BY DEF StartFails, KilledOrNot
<1>2. /\ waiting' \in Seq(1..attempt) /\ IsInjective(waiting')
      /\ Head(waiting) \in ToSet(waiting) /\ Head(waiting) \in 1..attempt
      /\ ToSet(waiting') = ToSet(waiting) \ {Head(waiting)}
  BY <1>1, TailFacts DEF SuggestionInv, TypeInv
<1>3. TypeInv' /\ PlaceInv' /\ LostInv'
  <2>1. /\ AttemptRuns' = AttemptRuns /\ attempt' = attempt /\ entering' \in 0..attempt
        /\ {selection', suggestion'} \subseteq Selections \cup {NoSelection}
        /\ attempt \in 0..MaxAttempts /\ working' \subseteq AttemptRuns
        /\ reports' \subseteq 1..attempt /\ lost' \subseteq 1..attempt
        /\ status' \in Statuses
    BY <1>1, <1>2 DEF SuggestionInv, TypeInv, AttemptRuns
  <2>2. TypeInv'
    BY <1>1, <1>2, <2>1, KilledFacts DEF TypeInv
  <2>3. PlaceInv'
    BY <1>1, <1>2 DEF SuggestionInv, PlaceInv
  <2>4. LostInv'
    BY <1>1, KilledFacts DEF SuggestionInv, LostInv
  <2>5. QED
    BY <2>2, <2>3, <2>4
<1>4. NumberInv' /\ ReadInv' /\ ShownInv'
  BY <1>1, <1>2, KilledFacts DEF SuggestionInv, NumberInv, PlaceInv, ReadInv, ShownInv
<1>5. UnderWayInv'
  BY <1>1, <1>2 DEF SuggestionInv, UnderWayInv, AttemptAtWork
<1>6. QED
  BY <1>3, <1>4, <1>5 DEF SuggestionInv

\* A run that leaves what is shown alone and is reported, if it was the last.
LEMMA EndPreserves ==
    ASSUME SuggestionInv, NEW r \in working,
           working' = working \ {r},
           UNCHANGED <<selection, attempt, lost, entering, waiting>>,
           reports' \in {reports, reports \cup {r.attempt}},
           \/ /\ UNCHANGED <<status, suggestion>>
              /\ \/ r.attempt # attempt \/ status \notin UnderWay
                 \/ reports' = reports \cup {r.attempt}
           \/ /\ r.attempt = attempt /\ status' = "done"
              /\ suggestion' = r.selection /\ entering = 0
           \/ status # "done" /\ status' = "failed" /\ suggestion' = suggestion,
           KilledOrNot
    PROVE  SuggestionInv'
<1>1. r \in AttemptRuns /\ r.attempt \in 1..attempt /\ r.selection \in Selections /\ AttemptRuns' = AttemptRuns
  BY DEF SuggestionInv, TypeInv, AttemptRuns
<1>2. TypeInv'
  <2>1. /\ attempt' = attempt /\ entering' \in 0..attempt
        /\ {selection', suggestion'} \subseteq Selections \cup {NoSelection}
        /\ attempt \in 0..MaxAttempts /\ working' \subseteq AttemptRuns
        /\ reports' \subseteq 1..attempt /\ lost' \subseteq 1..attempt
        /\ waiting' \in Seq(1..attempt) /\ IsInjective(waiting')
    BY <1>1 DEF SuggestionInv, TypeInv
  <2>2. status' \in Statuses
    BY DEF SuggestionInv, TypeInv, Statuses
  <2>3. QED
    BY <1>1, <2>1, <2>2, KilledFacts DEF TypeInv
<1>7. LostInv'
  BY KilledFacts DEF SuggestionInv, LostInv
<1>3. NumberInv' /\ PlaceInv' /\ ReadInv'
  BY KilledFacts DEF SuggestionInv, NumberInv, PlaceInv, ReadInv
<1>4. ShownInv'
  BY <1>1 DEF SuggestionInv, PlaceInv, ReadInv, ShownInv
<1>5. UnderWayInv'
  BY <1>1 DEF SuggestionInv, UnderWayInv, UnderWay, AttemptAtWork
<1>6. QED
  BY <1>2, <1>3, <1>4, <1>5, <1>7 DEF SuggestionInv

LEMMA FoundPreserves ==
    ASSUME SuggestionInv, NEW r \in working, Found(r)
    PROVE  SuggestionInv'
<1>1. \/ r.attempt = attempt /\ status' = "done" /\ suggestion' = r.selection
      \/ r.attempt # attempt /\ UNCHANGED <<status, suggestion>>
  BY DEF Found, Finish, Finishes
<1>2. QED
  BY <1>1, EndPreserves DEF Found, Unlocked, KilledOrNot

LEMMA RaisedPreserves ==
    ASSUME SuggestionInv, NEW r \in working, Raised(r)
    PROVE  SuggestionInv'
<1>1. \/ status # "done" /\ status' = "failed" /\ suggestion' = suggestion
      \/ UNCHANGED <<status, suggestion>>
  BY DEF Raised, Finish, Finishes
<1>2. QED
  BY <1>1, EndPreserves DEF Raised, KilledOrNot

LEMMA DiesPreserves ==
    ASSUME SuggestionInv, NEW r \in working, Dies(r) \/ FinishBusy(r)
    PROVE  SuggestionInv'
BY EndPreserves DEF Dies, FinishBusy, KilledOrNot

LEMMA ReportPreserves ==
    ASSUME SuggestionInv, NEW n \in reports, Report(n)
    PROVE  SuggestionInv'
<1>1. /\ UNCHANGED <<selection, attempt, lost, entering, waiting, working>>
      /\ reports' = reports \ {n} /\ UNCHANGED <<orphan, deaths>>
      /\ \/ status # "done" /\ status' = "failed" /\ suggestion' = suggestion
         \/ UNCHANGED <<status, suggestion>> /\ (n # attempt \/ status = "done")
  BY DEF Report, Finish, Finishes
<1>2. TypeInv'
  BY <1>1 DEF SuggestionInv, TypeInv, Statuses, AttemptRuns
<1>3. NumberInv' /\ LostInv' /\ PlaceInv' /\ ReadInv' /\ ShownInv'
  BY <1>1 DEF SuggestionInv, NumberInv, LostInv, PlaceInv, ReadInv, ShownInv
<1>4. UnderWayInv'
  BY <1>1 DEF SuggestionInv, UnderWayInv, UnderWay, AttemptAtWork
<1>5. QED
  BY <1>2, <1>3, <1>4 DEF SuggestionInv

\* The lock is that of a GET that publishes a newer attempt, or a dead one's.
LEMMA ReportBusyPreserves ==
    ASSUME SuggestionInv, NEW n \in reports, ReportBusy(n)
    PROVE  SuggestionInv'
<1>1. /\ UNCHANGED <<selection, attempt, status, suggestion, orphan, entering, waiting, working, deaths>>
      /\ reports' = reports \ {n} /\ lost' = lost \cup {n}
      /\ entering # 0 \/ orphan
  BY DEF ReportBusy, Unlocked
<1>2. n \in 1..attempt /\ (n = attempt => deaths > 0)
  BY <1>1 DEF SuggestionInv, TypeInv, NumberInv, LostInv
<1>3. TypeInv' /\ LostInv'
  BY <1>1, <1>2 DEF SuggestionInv, TypeInv, LostInv, AttemptRuns
<1>4. NumberInv' /\ PlaceInv' /\ ReadInv' /\ ShownInv'
  BY <1>1 DEF SuggestionInv, NumberInv, PlaceInv, ReadInv, ShownInv
<1>5. UnderWayInv'
  BY <1>1 DEF SuggestionInv, UnderWayInv, AttemptAtWork
<1>6. QED
  BY <1>3, <1>4, <1>5 DEF SuggestionInv

LEMMA SuggestionStepPreserves == SuggestionInv /\ [SuggestionNext]_suggestionVars => SuggestionInv'
<1> SUFFICES ASSUME SuggestionInv, [SuggestionNext]_suggestionVars PROVE SuggestionInv'
  OBVIOUS
<1>1. ASSUME NEW s \in Selections, Reselect(s) PROVE SuggestionInv'
  BY <1>1, ReselectPreserves
<1>2. CASE PublishAttempt
  BY <1>2, PublishAttemptPreserves
<1>3. CASE WebStep \/ WebProcessDies
  BY <1>3, GetEndPreserves DEF WebStep
<1>4. CASE OrphanExpires
  BY <1>4, OrphanExpiresPreserves
<1>5. CASE AttemptStep
  BY <1>5, StartAttemptPreserves, StartFailsPreserves, FoundPreserves, RaisedPreserves,
     DiesPreserves, ReportPreserves, ReportBusyPreserves DEF AttemptStep
<1>6. ASSUME NEW r \in working, Dies(r) PROVE SuggestionInv'
  BY <1>6, DiesPreserves
<1>7. CASE UNCHANGED suggestionVars
  BY <1>7 DEF suggestionVars, SuggestionInv, TypeInv, NumberInv, LostInv, PlaceInv, ReadInv, ShownInv,
              UnderWayInv, AttemptAtWork, AttemptRuns
<1>8. QED
  BY <1>1, <1>2, <1>3, <1>4, <1>5, <1>6, <1>7 DEF SuggestionNext

-----------------------------------------------------------------------------
(* Theorems                                                                *)

\* The conjunction is an invariant: an attempt is in one place, and what is
\* shown belongs to the current selection.
THEOREM SuggestionInvariance == SuggestionSpec => []SuggestionInv
<1>1. SuggestionInit => SuggestionInv
  BY SuggestionInitEstablishes
<1>2. SuggestionInv /\ [SuggestionNext]_suggestionVars => SuggestionInv'
  BY SuggestionStepPreserves
<1>3. QED
  BY <1>1, <1>2, PTL DEF SuggestionSpec

\* The state of a preview's analysis (enqueue_pdf_layout_suggestion and its
\* attempts) has the types of the code, and the queue holds no attempt twice.
THEOREM SuggestionTypeCorrect == SuggestionSpec => []SuggestionTypeOK
<1>1. SuggestionInv => SuggestionTypeOK
  <2> SUFFICES ASSUME SuggestionInv PROVE SuggestionTypeOK
    OBVIOUS
  <2>1. attempt \in Nat /\ ToSet(waiting) \subseteq 1..attempt
    BY SuggestionAssumption, Widening DEF SuggestionInv, TypeInv
  <2>2. QED
    BY <2>1 DEF SuggestionInv, TypeInv, SuggestionTypeOK, AttemptRuns, Statuses
<1>2. QED
  BY <1>1, SuggestionInvariance, PTL

LEMMA OneRun ==
    ASSUME SuggestionInv
    PROVE  LET current == {r \in working : r.attempt = attempt} IN
           IF AttemptAtWork(attempt) THEN Cardinality(current) = 1 ELSE Cardinality(current) = 0
<1> DEFINE current == {r \in working : r.attempt = attempt}
<1>1. CASE ~AttemptAtWork(attempt)
  <2>1. current = {}
    BY <1>1 DEF AttemptAtWork
  <2>2. QED
    BY <1>1, <2>1, FS_EmptySet
<1>2. CASE AttemptAtWork(attempt)
  <2>1. PICK r \in working : r.attempt = attempt
    BY <1>2 DEF AttemptAtWork
  <2>2. ASSUME NEW s \in current PROVE s = r
    BY <2>1 DEF SuggestionInv, TypeInv, ReadInv, AttemptRuns
  <2>3. current = {r}
    BY <2>1, <2>2
  <2>4. QED
    BY <1>2, <2>3, FS_Singleton
<1>3. QED
  BY <1>1, <1>2

\* The status of a preview's analysis tells the truth: a success is not taken
\* back by the late callback of a failure, and what is reported as under way
\* is, in one attempt, however many were queued, killed, kept out by the lock
\* of a dead process or reported late; an attempt is lost only to a kill.
THEOREM StatusTellsTheTruth == SuggestionSpec => []StatusIsTrue
<1>1. SuggestionInv => StatusIsTrue
  <2> SUFFICES ASSUME SuggestionInv PROVE StatusIsTrue
    OBVIOUS
  <2> DEFINE queued == IF attempt \in ToSet(waiting) THEN 1 ELSE 0
             atWork == Cardinality({r \in working : r.attempt = attempt})
             arriving == IF entering = attempt THEN 1 ELSE 0
  <2>1. atWork \in Nat /\ IF AttemptAtWork(attempt) THEN atWork = 1 ELSE atWork = 0
    BY OneRun
  <2>2. suggestion # NoSelection => status = "done"
    BY DEF SuggestionInv, ShownInv
  <2>3. attempt > 0 => queued + atWork + arriving <= 1
    BY <2>1 DEF SuggestionInv, PlaceInv, AttemptAtWork
  <2>4. status \in UnderWay => \/ queued + atWork + arriving = 1
                               \/ attempt \in reports
                               \/ attempt \in lost
    BY <2>1, <2>3 DEF SuggestionInv, UnderWayInv
  <2>5. attempt \in lost => deaths > 0
    BY DEF SuggestionInv, LostInv
  <2>6. QED
    BY <2>2, <2>3, <2>4, <2>5 DEF StatusIsTrue
<1>2. QED
  BY <1>1, SuggestionInvariance, PTL

\* A preview never shows what was computed for other pages or another way of
\* using metadata than those it was asked for last: every step is a step of
\* FreshAnswer or changes neither question nor answer.
THEOREM SuggestionsAreFresh == SuggestionSpec => SuggestionIsFresh
<1>1. SuggestionInit => FreshSuggestion!Init
  BY DEF SuggestionInit, FreshSuggestion!Init
<1>2. SuggestionInv /\ [SuggestionNext]_suggestionVars => [FreshSuggestion!Next]_FreshSuggestion!vars
  <2> SUFFICES ASSUME SuggestionInv, [SuggestionNext]_suggestionVars
               PROVE  [FreshSuggestion!Next]_FreshSuggestion!vars
    OBVIOUS
  <2> USE DEF FreshSuggestion!Next, FreshSuggestion!vars
  <2>1. ASSUME NEW s \in Selections, Reselect(s) PROVE FreshSuggestion!Ask(s)
    BY <2>1 DEF Reselect, Forget, FreshSuggestion!Ask
  <2>2. ASSUME NEW r \in working, Found(r)
        PROVE  FreshSuggestion!Answer \/ UNCHANGED <<selection, suggestion>>
    <3>1. CASE r.attempt = attempt
      <4>1. suggestion' = selection /\ UNCHANGED selection
        BY <2>2, <3>1 DEF Found, Finish, Finishes, SuggestionInv, ReadInv
      <4>2. QED
        BY <4>1 DEF SuggestionInv, ShownInv, FreshSuggestion!Answer
    <3>2. CASE r.attempt # attempt
      BY <2>2, <3>2 DEF Found, Finish, Finishes
    <3>3. QED
      BY <3>1, <3>2
  <2>3. ASSUME NEW r \in working, Raised(r) \/ FinishBusy(r) \/ Dies(r)
        PROVE  UNCHANGED <<selection, suggestion>>
    BY <2>3 DEF Raised, FinishBusy, Dies, Finish, Finishes
  <2>4. ASSUME NEW n \in reports, Report(n) \/ ReportBusy(n)
        PROVE  UNCHANGED <<selection, suggestion>>
    BY <2>4 DEF Report, ReportBusy, Finish, Finishes
  <2>5. ASSUME PublishAttempt \/ WebStep \/ WebProcessDies \/ OrphanExpires \/ StartAttempt
               \/ StartFails \/ UNCHANGED suggestionVars
        PROVE  UNCHANGED <<selection, suggestion>>
    BY <2>5 DEF PublishAttempt, WebStep, EnqueueAttempt, EnqueueFailed, WebProcessDies,
                OrphanExpires, StartAttempt, StartFails, suggestionVars
  <2>6. QED
    BY <2>1, <2>2, <2>3, <2>4, <2>5 DEF SuggestionNext, AttemptStep
<1>3. QED
  BY <1>1, <1>2, SuggestionInvariance, PTL DEF SuggestionSpec, SuggestionIsFresh, FreshSuggestion!Spec

-----------------------------------------------------------------------------
(***************************************************************************)
(* The analysis of a projected document is published once, and one that    *)
(* was replaced never comes back, so a request that compares its id        *)
(* compares everything it has read.                                        *)
(***************************************************************************)

Metas == [generation : Nat, analysis : Analyses]
Leases == [held : BOOLEAN, busy : BOOLEAN, generation : Nat \cup {Revoked}]
JobStates == {"none", "queued", "started", "finished", "failed", "canceled"}
RunStates == {"none", "loaded", "child", "publish", "end", "dead"}
Runs == [at : RunStates, generation : Nat, asked : Questions \cup {NoQuestion},
         result : {"ready", "failed"}]
Early == {"start", "fetch", "settle", "lock", "publish"}
Places == Early \cup {"enqueue", "update", "end", "dead"}

ShapeInv ==
    /\ active \in BOOLEAN /\ generation \in Nat /\ analysis \in Analyses
    /\ lease \in [Askers -> Leases]
    /\ job \in [Askers -> JobStates]
    /\ run \in [Askers -> Runs]
    /\ request \in [Requests -> [at : Places, seen : Metas]]
    /\ asks \in [Askers -> Questions]
    /\ holder \in Askers \cup {NoPost}

\* What is on record was asked by its request; a suggestion answers it.
AnswerInv ==
    /\ analysis.id # NoPost => analysis.question = asks[analysis.id]
    /\ (analysis.suggestion # NoQuestion) = (analysis.status = "ready")
    /\ analysis.suggestion # NoQuestion => analysis.suggestion = analysis.question

\* A request that finds the id it has read again finds the same question, and
\* an analysis that was over as it was.
SeenInv ==
    \A r \in Requests :
        Seen(r).analysis.id = analysis.id =>
            /\ Seen(r).analysis.question = analysis.question
            /\ Seen(r).analysis.status # "analyzing" => Seen(r).analysis = analysis

\* A request that has not published is unknown, and its job is not there yet.
EarlyInv ==
    \A p \in Askers :
        /\ request[p].at \in Early =>
              /\ analysis.id # p
              /\ \A r \in Requests : Seen(r).analysis.id # p
        /\ request[p].at \in Early \cup {"enqueue"} => job[p] = "none" /\ run[p].at = "none"
        /\ job[p] = "queued" => run[p].at = "none"

\* What a request has replaced does not come back.
ReplacedInv ==
    \A p \in Askers :
        request[p].at = "enqueue" =>
            \/ Seen(p).analysis.id = NoPost
            \/ Seen(p).analysis.id # analysis.id

\* A job works on the question of its request.
JobInv ==
    \A n \in Askers :
        /\ run[n].at \in {"loaded", "child", "publish"} => run[n].asked = asks[n]
        /\ run[n].generation <= generation
        /\ run[n].at = "loaded" /\ Concerns(n, run[n].generation) => lease[n].held

\* A child is at work under a lease, and no lease is ahead of its document.
LeaseInv ==
    \A n \in Askers :
        /\ lease[n].generation <= generation
        /\ lease[n].busy => lease[n].held /\ run[n].at = "child"

AnalysisInv ==
    /\ ShapeInv /\ AnswerInv /\ SeenInv /\ EarlyInv
    /\ ReplacedInv /\ JobInv /\ LeaseInv /\ OneAnalysisWorks

-----------------------------------------------------------------------------
(* Values                                                                  *)

LEMMA AnalysisFacts ==
    /\ NoAnalysis \in Analyses /\ NoAnalysis.id = NoPost /\ NoAnalysis.status = "none"
    /\ NoAnalysis.suggestion = NoQuestion /\ NoAnalysis.question = NoQuestion
    /\ \A a \in Analyses : a.id = NoPost => a = NoAnalysis
    /\ \A a \in Analyses : a.id \in Askers \cup {NoPost}
    /\ \A a \in Analyses : a.status = "analyzing" => a.id \in Askers
    /\ \A a \in Analyses : a.id \in Askers => [a EXCEPT !.status = "failed"] \in Analyses
BY AnalysisAssumption DEF Analyses, NoAnalysis

LEMMA ReleasedFacts ==
    ASSUME ShapeInv, NEW m \in Askers \cup {NoPost}
    PROVE  /\ Released(m) \in [Askers -> Leases]
           /\ \A n \in Askers : \/ Released(m)[n] = lease[n]
                                \/ n = m /\ ~lease[n].busy /\ Released(m)[n] = NoLease
           /\ NoLease \in Leases /\ NoLease.generation = 0 /\ ~NoLease.busy /\ ~NoLease.held
BY AnalysisAssumption DEF ShapeInv, Released, NoLease, Leases

LEMMA RequestFacts ==
    ASSUME ShapeInv, NEW r \in Requests, NEW place \in Places
    PROVE  /\ Move(r, place) => request' = [request EXCEPT ![r] = [at |-> place, seen |-> Seen(r)]]
           /\ Metadata \in Metas /\ Seen(r) \in Metas
           /\ Request("end").seen.analysis = NoAnalysis /\ Request("end").at = "end"
           /\ Request("end").seen \in Metas
           /\ Request("start").seen.analysis = NoAnalysis /\ Request("start").at = "start"
           /\ Request("start").seen \in Metas
           /\ Request("dead").seen.analysis = NoAnalysis /\ Request("dead").at = "dead"
           /\ Request("dead").seen \in Metas
BY AnalysisFacts DEF ShapeInv, Move, Seen, Metadata, Metas, Request

LEMMA RunFacts ==
    ASSUME ShapeInv, NEW place \in RunStates
    PROVE  /\ Run(place) \in Runs /\ Run(place).at = place /\ Run(place).generation = 0
BY DEF Run, Runs

LEMMA DiscardedFacts ==
    ASSUME ShapeInv, NEW m \in Metas, NEW jobs \in Discarded(m)
    PROVE  /\ jobs \in [Askers -> JobStates]
           /\ \A n \in Askers : \/ jobs[n] = job[n]
                                \/ job[n] \in {"queued", "started"} /\ jobs[n] = "canceled"
<1>1. m.analysis \in Analyses
  BY DEF Metas
<1>2. CASE Analyzing(m)
  <2>1. m.analysis.id \in Askers
    BY <1>1, <1>2, AnalysisFacts DEF Analyzing
  <2>2. QED
    BY <2>1 DEF Discarded, ShapeInv, JobStates
<1>3. CASE ~Analyzing(m)
  BY <1>3 DEF Discarded, ShapeInv
<1>4. QED
  BY <1>2, <1>3

-----------------------------------------------------------------------------
(* Frames: what holds on because little changes                            *)

\* The analysis on record stays, or fails.
Fails == analysis.status = "analyzing" /\ analysis' = [analysis EXCEPT !.status = "failed"]

LEMMA FailsFacts ==
    ASSUME ShapeInv, analysis' = analysis \/ Fails
    PROVE  /\ analysis' \in Analyses /\ analysis'.id = analysis.id
           /\ analysis'.question = analysis.question
           /\ analysis'.suggestion = analysis.suggestion
           /\ analysis'.status \in {"ready", "analyzing"} => analysis' = analysis
<1>1. CASE Fails
  BY <1>1, AnalysisFacts DEF ShapeInv, Fails, Analyses
<1>2. QED
  BY <1>1 DEF ShapeInv

\* A request goes on: it remembers what it had read, or nothing, or what is
\* on record.
Goes(r, place, meta) == request' = [request EXCEPT ![r] = [at |-> place, seen |-> meta]]

\* No request becomes unpublished, and what is unpublished stays unknown.
EarlyStays ==
    \A p \in Askers :
        /\ request'[p].at \in Early =>
              /\ request[p].at \in Early /\ analysis'.id # p
              /\ \A q \in Requests : Seen(q)'.analysis.id # p
        /\ request'[p].at = "enqueue" => request[p].at = "enqueue"

RequestsHold == SeenInv /\ ReplacedInv /\ request \in [Requests -> [at : Places, seen : Metas]]

LEMMA RequestPreserves ==
    ASSUME AnalysisInv, NEW r \in Requests, NEW place \in Places, NEW meta \in Metas,
           Goes(r, place, meta),
           meta = Seen(r) \/ meta = Metadata \/ meta.analysis = NoAnalysis,
           place # "enqueue",
           r \in Askers /\ place \in Early => request[r].at \in Early,
           analysis' = analysis \/ Fails
    PROVE  RequestsHold' /\ EarlyStays
<1>1. request' \in [Requests -> [at : Places, seen : Metas]]
  BY DEF AnalysisInv, ShapeInv, Goes
<1>2. \A q \in Requests : Seen(q)' = IF q = r THEN meta ELSE Seen(q)
  BY DEF AnalysisInv, ShapeInv, Seen, Goes
<1>3. \A q \in Requests : request'[q].at = IF q = r THEN place ELSE request[q].at
  BY DEF AnalysisInv, ShapeInv, Goes
<1>4. Askers \subseteq Requests
  BY DEF Requests
<1>5. /\ analysis'.id = analysis.id /\ analysis'.question = analysis.question
      /\ analysis'.status \in {"ready", "analyzing"} => analysis' = analysis
      /\ analysis' = analysis \/ analysis.status = "analyzing"
  BY FailsFacts DEF AnalysisInv, Fails
<1>6. SeenInv'
  <2>1. analysis.id = NoPost => analysis = NoAnalysis /\ analysis' = analysis
    BY <1>5, AnalysisFacts DEF AnalysisInv, ShapeInv
  <2>2. \A q \in Requests : q # r \/ meta = Seen(r) =>
           (Seen(q)'.analysis.id = analysis'.id =>
              /\ Seen(q)'.analysis.question = analysis'.question
              /\ Seen(q)'.analysis.status # "analyzing" => Seen(q)'.analysis = analysis')
    BY <1>2, <1>5 DEF AnalysisInv, SeenInv
  <2>3. CASE meta.analysis \in {analysis, NoAnalysis}
    BY <1>2, <1>5, <2>1, <2>2, <2>3, AnalysisFacts DEF SeenInv
  <2>4. QED
    BY <2>2, <2>3 DEF SeenInv, Metadata
<1>7. ReplacedInv'
  BY <1>2, <1>3, <1>4, <1>5 DEF AnalysisInv, ReplacedInv
<1>8. \A p \in Askers : request'[p].at \in Early =>
         /\ request[p].at \in Early /\ analysis'.id # p
         /\ \A q \in Requests : Seen(q)'.analysis.id # p
  BY <1>2, <1>3, <1>4, <1>5, AnalysisFacts, AnalysisAssumption DEF AnalysisInv, EarlyInv, Metadata
<1>9. QED
  BY <1>1, <1>3, <1>4, <1>6, <1>7, <1>8 DEF RequestsHold, EarlyStays

LEMMA RequestsRest ==
    ASSUME AnalysisInv, UNCHANGED request, analysis' = analysis \/ Fails
    PROVE  RequestsHold' /\ EarlyStays
<1>1. /\ analysis'.id = analysis.id /\ analysis'.question = analysis.question
      /\ analysis'.status \in {"ready", "analyzing"} => analysis' = analysis
      /\ analysis' = analysis \/ analysis.status = "analyzing"
  BY FailsFacts DEF AnalysisInv, Fails
<1>2. SeenInv' /\ ReplacedInv'
  BY <1>1 DEF AnalysisInv, SeenInv, ReplacedInv, Seen
<1>3. QED
  BY <1>1, <1>2 DEF AnalysisInv, ShapeInv, EarlyInv, RequestsHold, EarlyStays, Seen

\* No child starts or ends, and no job begins: leases under which nobody
\* works come and go, and jobs are cancelled or given up.
Quiet ==
    /\ UNCHANGED <<active, generation, run, asks>>
    /\ lease' \in [Askers -> Leases] /\ job' \in [Askers -> JobStates]
    /\ holder' \in Askers \cup {NoPost}
    /\ \A n \in Askers :
          \/ lease'[n] = lease[n]
          \/ /\ ~lease[n].busy /\ ~lease'[n].busy /\ lease'[n].generation <= generation
             /\ \/ lease'[n].held
                \/ run[n].at = "loaded" => ~Concerns(n, run[n].generation)'
    /\ \A n \in Askers :
          \/ job'[n] = job[n]
          \/ job[n] \in {"queued", "started"} /\ job'[n] # "queued"
          \/ run[n].at = "none" /\ request'[n].at \notin Early \cup {"enqueue"}

LEMMA QuietPreserves ==
    ASSUME AnalysisInv, Quiet, analysis' = analysis \/ Fails,
           RequestsHold', EarlyStays
    PROVE  AnalysisInv'
<1>1. /\ analysis' \in Analyses /\ analysis'.id = analysis.id
      /\ analysis'.status \in {"ready", "analyzing"} => analysis' = analysis
  BY FailsFacts DEF AnalysisInv
<1>2. ShapeInv'
  BY <1>1 DEF AnalysisInv, ShapeInv, Quiet, RequestsHold
<1>3. AnswerInv'
  BY <1>1, AnalysisFacts DEF AnalysisInv, ShapeInv, AnswerInv, Fails, Quiet, Analyses
<1>4. \A n \in Askers : Concerns(n, run[n].generation)' => Concerns(n, run[n].generation)
  BY <1>1 DEF AnalysisInv, ShapeInv, Concerns, Current, Quiet
<1>5. JobInv'
  BY <1>4 DEF AnalysisInv, ShapeInv, JobInv, Quiet
<1>6. LeaseInv'
  BY DEF AnalysisInv, ShapeInv, LeaseInv, Quiet
<1>7. OneAnalysisWorks'
  BY <1>1 DEF AnalysisInv, OneAnalysisWorks, Quiet, Valid
<1>8. EarlyInv'
  BY DEF AnalysisInv, EarlyInv, EarlyStays, Quiet
<1>9. QED
  BY <1>2, <1>3, <1>5, <1>6, <1>7, <1>8 DEF AnalysisInv, RequestsHold

\* One lease that nobody works under goes.
LEMMA QuietRelease ==
    ASSUME AnalysisInv, NEW m \in Askers \cup {NoPost}, lease' \in {lease, Released(m)},
           m \in Askers /\ run[m].at = "loaded" => ~Concerns(m, run[m].generation)',
           UNCHANGED <<active, generation, run, asks>>,
           holder' \in Askers \cup {NoPost},
           job' \in [Askers -> JobStates],
           \A n \in Askers : \/ job'[n] = job[n]
                             \/ job[n] \in {"queued", "started"} /\ job'[n] # "queued"
    PROVE  Quiet
<1>1. lease' \in [Askers -> Leases]
  BY ReleasedFacts DEF AnalysisInv, ShapeInv
<1>2. \A n \in Askers : \/ lease'[n] = lease[n]
                        \/ n = m /\ ~lease[n].busy /\ ~lease'[n].busy /\ lease'[n].generation = 0
  BY ReleasedFacts DEF AnalysisInv
<1>3. generation \in Nat
  BY DEF AnalysisInv, ShapeInv
<1>4. QED
  BY <1>1, <1>2, <1>3 DEF Quiet

LEMMA MoveGoes ==
    ASSUME ShapeInv, NEW r \in Requests, NEW place \in Places
    PROVE  /\ Move(r, place) => Goes(r, place, Seen(r))
           /\ See(r, place) => Goes(r, place, Metadata)
           /\ End(r) => Goes(r, "end", Request("end").seen)
           /\ request' = [request EXCEPT ![r] = Request("start")] =>
                 Goes(r, "start", Request("start").seen)
           /\ request' = [request EXCEPT ![r] = Request("dead")] =>
                 Goes(r, "dead", Request("dead").seen)
BY DEF ShapeInv, Move, See, End, Goes, Seen, Request, Metadata

-----------------------------------------------------------------------------
(* Steps that start and end no child                                       *)

LEMMA AnalysisInitEstablishes == AnalysisInit => AnalysisInv
<1> SUFFICES ASSUME AnalysisInit PROVE AnalysisInv
  OBVIOUS
<1>1. /\ \A n \in Askers : /\ lease[n] = NoLease /\ job[n] = "none" /\ run[n] = Run("none")
      /\ \A r \in Requests : request[r].at = "start" /\ Seen(r).analysis = NoAnalysis
      /\ Askers \subseteq Requests
  BY DEF AnalysisInit, Request, Seen, Requests
<1>2. ShapeInv
  BY AnalysisFacts DEF AnalysisInit, ShapeInv, Leases, NoLease, JobStates, Runs, RunStates, Run,
                       Request, Places, Early, Metas
<1>3. AnswerInv /\ SeenInv /\ EarlyInv /\ ReplacedInv /\ JobInv
  BY <1>1, AnalysisFacts, AnalysisAssumption
     DEF AnalysisInit, AnswerInv, SeenInv, EarlyInv, ReplacedInv, JobInv, Run
<1>4. LeaseInv /\ OneAnalysisWorks
  BY <1>1 DEF AnalysisInit, LeaseInv, OneAnalysisWorks, NoLease
<1>5. QED
  BY <1>2, <1>3, <1>4 DEF AnalysisInv

\* A request goes on, and nothing but leases and jobs of nobody changes.
LEMMA QuietStep ==
    ASSUME AnalysisInv, Quiet, NEW r \in Requests, NEW place \in Places, NEW meta \in Metas,
           Goes(r, place, meta),
           meta = Seen(r) \/ meta = Metadata \/ meta.analysis = NoAnalysis,
           place # "enqueue",
           r \in Askers /\ place \in Early => request[r].at \in Early,
           analysis' = analysis \/ Fails
    PROVE  AnalysisInv'
BY RequestPreserves, QuietPreserves

LEMMA Untouched ==
    ASSUME AnalysisInv, UNCHANGED <<active, generation, lease, run, asks>>,
           holder' \in Askers \cup {NoPost},
           job' \in [Askers -> JobStates],
           \A n \in Askers : \/ job'[n] = job[n]
                             \/ job[n] \in {"queued", "started"} /\ job'[n] # "queued"
    PROVE  Quiet
BY DEF AnalysisInv, ShapeInv, Quiet

LEMMA PolledGoes ==
    ASSUME ShapeInv, NEW r \in Requests, Polled(r)
    PROVE  \/ r \notin Askers /\ Goes(r, "start", Request("start").seen)
           \/ r \in Askers /\ Goes(r, "lock", Metadata)
           \/ Goes(r, "end", Request("end").seen)
<1>1. "start" \in Places /\ "lock" \in Places /\ "end" \in Places
  BY DEF Places, Early
<1>2. QED
  BY <1>1, MoveGoes DEF Polled

LEMMA ReadPreserves ==
    ASSUME AnalysisInv, NEW r \in Requests, Read(r)
    PROVE  AnalysisInv'
<1>1. Quiet
  BY Untouched DEF Read, AnalysisInv, ShapeInv, storeVars
<1>2. /\ {"end", "update", "fetch", "lock"} \subseteq Places /\ "start" \in Early
      /\ Metadata \in Metas
      /\ Request("end").seen \in Metas /\ Request("end").seen.analysis = NoAnalysis
  BY RequestFacts DEF Places, Early, AnalysisInv
<1>3. \/ Goes(r, "end", Request("end").seen)
      \/ r \notin Askers /\ Goes(r, "update", Metadata)
      \/ Goes(r, "fetch", Metadata)
      \/ Goes(r, "lock", Metadata)
  BY <1>2, MoveGoes, AnalysisAssumption DEF Read, AnalysisInv
<1>4. analysis' = analysis /\ request[r].at \in Early
  BY <1>2 DEF Read, At, storeVars
<1>5. QED
  BY <1>1, <1>2, <1>3, <1>4, QuietStep DEF Early

LEMMA FetchPreserves ==
    ASSUME AnalysisInv, NEW r \in Requests, Fetch(r)
    PROVE  AnalysisInv'
<1>1. /\ job' \in [Askers -> JobStates]
      /\ \A n \in Askers : \/ job'[n] = job[n]
                           \/ job[n] \in {"queued", "started"} /\ job'[n] # "queued"
  BY DEF Fetch, AnalysisInv, ShapeInv, JobStates
<1>2. Quiet
  BY <1>1, Untouched DEF Fetch, AnalysisInv, ShapeInv, storeVars
<1>3. /\ {"end", "settle", "start", "lock"} \subseteq Places /\ "fetch" \in Early
      /\ Metadata \in Metas /\ Seen(r) \in Metas
      /\ Request("end").seen \in Metas /\ Request("end").seen.analysis = NoAnalysis
      /\ Request("start").seen \in Metas /\ Request("start").seen.analysis = NoAnalysis
  BY RequestFacts DEF Places, Early, AnalysisInv
<1>4. \/ Goes(r, "settle", Seen(r))
      \/ r \notin Askers /\ Goes(r, "start", Request("start").seen)
      \/ r \in Askers /\ Goes(r, "lock", Metadata)
      \/ Goes(r, "end", Request("end").seen)
  BY <1>3, MoveGoes, PolledGoes DEF Fetch, AnalysisInv
<1>5. analysis' = analysis /\ request[r].at \in Early
  BY <1>3 DEF Fetch, At, storeVars
<1>6. QED
  BY <1>2, <1>3, <1>4, <1>5, QuietStep DEF Early

LEMMA FailedConcernsNobody ==
    ASSUME ShapeInv, Fails
    PROVE  \A n \in Askers : ~Concerns(n, run[n].generation)'
<1>1. analysis'.status = "failed"
  BY AnalysisFacts DEF ShapeInv, Fails, Analyses
<1>2. QED
  BY <1>1 DEF Concerns

LEMMA SettlePreserves ==
    ASSUME AnalysisInv, NEW r \in Requests, Settle(r)
    PROVE  AnalysisInv'
<1> DEFINE n == Seen(r).analysis.id
<1>1. n \in Askers \cup {NoPost}
  <2>1. "end" \in Places
    BY DEF Places
  <2>2. QED
    BY <2>1, RequestFacts, AnalysisFacts DEF AnalysisInv, Metas
<1>2. \/ UNCHANGED <<analysis, lease>>
      \/ Fails /\ lease' = Released(n)
  BY DEF Settle, Concerns, Fails
<1>3. /\ UNCHANGED <<active, generation, run, asks, job>>
      /\ job' \in [Askers -> JobStates] /\ holder' \in Askers \cup {NoPost}
  BY DEF Settle, AnalysisInv, ShapeInv
<1>4. Quiet
  <2>1. CASE UNCHANGED <<analysis, lease>>
    BY <1>3, <2>1, Untouched
  <2>2. CASE Fails /\ lease' = Released(n)
    BY <1>1, <1>3, <2>2, FailedConcernsNobody, QuietRelease DEF AnalysisInv
  <2>3. QED
    BY <1>2, <2>1, <2>2
<1>5. /\ {"end", "start", "lock"} \subseteq Places /\ "settle" \in Early
      /\ Metadata \in Metas
      /\ Request("end").seen \in Metas /\ Request("end").seen.analysis = NoAnalysis
      /\ Request("start").seen \in Metas /\ Request("start").seen.analysis = NoAnalysis
  BY RequestFacts DEF Places, Early, AnalysisInv
<1>6. \/ r \notin Askers /\ Goes(r, "start", Request("start").seen)
      \/ r \in Askers /\ Goes(r, "lock", Metadata)
      \/ Goes(r, "end", Request("end").seen)
  BY PolledGoes DEF Settle, AnalysisInv
<1>7. request[r].at \in Early
  BY <1>5 DEF Settle, At
<1>8. QED
  BY <1>2, <1>4, <1>5, <1>6, <1>7, QuietStep DEF Early

\* What leaves a request behind.
LEMMA EndStep ==
    ASSUME AnalysisInv, Quiet, NEW r \in Requests, End(r) \/ request' = [request EXCEPT ![r] = Request("dead")],
           analysis' = analysis \/ Fails
    PROVE  AnalysisInv'
<1>1. /\ {"end", "dead"} \subseteq Places \ (Early \cup {"enqueue"})
      /\ Request("end").seen \in Metas /\ Request("end").seen.analysis = NoAnalysis
      /\ Request("dead").seen \in Metas /\ Request("dead").seen.analysis = NoAnalysis
  BY RequestFacts DEF Places, Early, AnalysisInv
<1>2. \/ Goes(r, "end", Request("end").seen)
      \/ Goes(r, "dead", Request("dead").seen)
  BY <1>1, MoveGoes DEF AnalysisInv
<1>3. QED
  BY <1>1, <1>2, QuietStep

LEMMA RefusedPreserves ==
    ASSUME AnalysisInv, NEW p \in Askers, Refused(p) \/ AskerDies(p)
    PROVE  AnalysisInv'
<1>1. Quiet /\ p \in Requests /\ analysis' = analysis
  BY Untouched DEF Refused, AskerDies, AnalysisInv, ShapeInv, storeVars, Requests
<1>2. QED
  BY <1>1, EndStep DEF Refused, AskerDies

LEMMA ReservePreserves ==
    ASSUME AnalysisInv, NEW p \in Askers, Reserve(p)
    PROVE  AnalysisInv'
<1> DEFINE l == [held |-> TRUE, busy |-> FALSE, generation |-> generation]
<1>1. /\ UNCHANGED <<active, generation, analysis, job, run, asks>>
      /\ lease' = [lease EXCEPT ![p] = l] /\ holder' = p
      /\ request[p].at = "lock" /\ See(p, "publish")
  BY DEF Reserve, storeVars, At
<1>2. l \in Leases /\ generation \in Nat
  BY DEF AnalysisInv, ShapeInv, Leases
<1>3. ~lease[p].busy
  BY <1>1 DEF AnalysisInv, EarlyInv, LeaseInv, Early
<1>4. Quiet
  BY <1>1, <1>2, <1>3 DEF AnalysisInv, ShapeInv, Quiet
<1>5. "publish" \in Places /\ "lock" \in Early /\ "publish" # "enqueue" /\ Metadata \in Metas
      /\ p \in Requests
  BY RequestFacts DEF Places, Early, AnalysisInv, Requests
<1>6. Goes(p, "publish", Metadata)
  BY <1>1, <1>5, MoveGoes DEF AnalysisInv
<1>7. QED
  BY <1>1, <1>4, <1>5, <1>6, QuietStep

LEMMA EnqueueRaisesPreserves ==
    ASSUME AnalysisInv, NEW p \in Askers, EnqueueRaises(p)
    PROVE  AnalysisInv'
<1>1. /\ UNCHANGED <<active, generation, job, run, asks>>
      /\ request[p].at = "enqueue" /\ run[p].at = "none"
      /\ lease' = Released(p) /\ End(p) /\ holder' \in Askers \cup {NoPost}
      /\ job' \in [Askers -> JobStates]
  BY DEF EnqueueRaises, Leave, At, AnalysisInv, ShapeInv, EarlyInv
<1>2. analysis' = analysis \/ Fails
  BY DEF EnqueueRaises, Concerns, Fails
<1>3. Quiet
  BY <1>1, QuietRelease
<1>4. p \in Requests
  BY DEF Requests
<1>5. QED
  BY <1>1, <1>2, <1>3, <1>4, EndStep

LEMMA LooseEndsPreserve ==
    ASSUME AnalysisInv, SubmitLockExpires \/ \E n \in Askers : JobAbandoned(n) \/ ReconcileLease(n)
    PROVE  AnalysisInv'
<1>1. /\ UNCHANGED <<active, generation, analysis, run, asks, request>>
      /\ holder' \in Askers \cup {NoPost}
  BY DEF SubmitLockExpires, JobAbandoned, ReconcileLease, storeVars, requestVars, AnalysisInv, ShapeInv
<1>2. ASSUME NEW n \in Askers, JobAbandoned(n) PROVE Quiet
  BY <1>1, <1>2, Untouched DEF JobAbandoned, AnalysisInv, ShapeInv, JobStates
<1>3. ASSUME NEW n \in Askers, ReconcileLease(n) PROVE Quiet
  BY <1>1, <1>3, QuietRelease DEF ReconcileLease, AnalysisInv, ShapeInv
<1>4. Quiet
  <2>1. CASE SubmitLockExpires
    BY <1>1, <2>1, Untouched DEF SubmitLockExpires, AnalysisInv, ShapeInv
  <2>2. QED
    BY <1>2, <1>3, <2>1
<1>5. QED
  BY <1>1, <1>4, RequestsRest, QuietPreserves

LEMMA EnqueuePreserves ==
    ASSUME AnalysisInv, NEW p \in Askers, Enqueue(p)
    PROVE  AnalysisInv'
<1> DEFINE m == Seen(p).analysis.id
<1>1. /\ UNCHANGED <<active, generation, analysis, run, asks>>
      /\ request[p].at = "enqueue" /\ run[p].at = "none"
      /\ lease' = Released(m) /\ End(p) /\ holder' \in Askers \cup {NoPost}
      /\ p \in Requests
  BY DEF Enqueue, Leave, At, storeVars, AnalysisInv, ShapeInv, EarlyInv, Requests
<1>2. Seen(p) \in Metas /\ m \in Askers \cup {NoPost} /\ (m \in Askers => m # analysis.id)
  <2>1. "end" \in Places
    BY DEF Places
  <2>2. Seen(p) \in Metas
    BY <1>1, <2>1, RequestFacts DEF AnalysisInv
  <2>3. QED
    BY <1>1, <2>2, AnalysisFacts, AnalysisAssumption DEF AnalysisInv, Metas, ReplacedInv
<1>3. PICK jobs \in Discarded(Seen(p)) : job' = [jobs EXCEPT ![p] = "queued"]
  BY DEF Enqueue
<1>4. /\ jobs \in [Askers -> JobStates]
      /\ \A n \in Askers : \/ jobs[n] = job[n]
                           \/ job[n] \in {"queued", "started"} /\ jobs[n] = "canceled"
  BY <1>2, <1>3, DiscardedFacts DEF AnalysisInv
<1>5. request' = [request EXCEPT ![p] = Request("end")] /\ request'[p].at = "end"
  BY <1>1 DEF End, AnalysisInv, ShapeInv, Request
<1>6. /\ job' \in [Askers -> JobStates]
      /\ \A n \in Askers :
            \/ job'[n] = job[n]
            \/ job[n] \in {"queued", "started"} /\ job'[n] # "queued"
            \/ run[n].at = "none" /\ request'[n].at \notin Early \cup {"enqueue"}
  BY <1>1, <1>3, <1>4, <1>5 DEF JobStates, Early
<1>7. /\ lease' \in [Askers -> Leases]
      /\ \A n \in Askers : \/ lease'[n] = lease[n]
                           \/ n = m /\ ~lease[n].busy /\ ~lease'[n].busy
                              /\ lease'[n].generation = 0
  BY <1>1, <1>2, ReleasedFacts DEF AnalysisInv
<1>8. generation \in Nat /\ \A n \in Askers : n = m => ~Concerns(n, run[n].generation)'
  BY <1>1, <1>2 DEF AnalysisInv, ShapeInv, Concerns
<1>9. Quiet
  BY <1>1, <1>6, <1>7, <1>8 DEF Quiet
<1>10. QED
  BY <1>1, <1>9, EndStep

-----------------------------------------------------------------------------
(* Steps that change the record                                            *)

LEMMA PublishPreserves ==
    ASSUME AnalysisInv, NEW p \in Askers, PublishAnalysis(p)
    PROVE  AnalysisInv'
<1> DEFINE prior == Seen(p).analysis.id
<1>1. /\ UNCHANGED <<active, generation, job, run, asks>>
      /\ request[p].at = "publish" /\ run[p].at = "none" /\ job[p] = "none"
      /\ analysis.id # p /\ \A q \in Requests : Seen(q).analysis.id # p
      /\ p \in Requests /\ p # NoPost
  BY AnalysisAssumption DEF PublishAnalysis, At, AnalysisInv, EarlyInv, Early, Requests
<1>2. CASE Current(Seen(p).generation) /\ analysis.id = prior
  <2>1. /\ analysis' = [NoAnalysis EXCEPT !.id = p, !.question = asks[p], !.status = "analyzing"]
        /\ lease' = Revoke(prior, lease)
        /\ Move(p, "enqueue") /\ holder' = holder
    BY <1>2 DEF PublishAnalysis
  <2>2. /\ analysis' \in Analyses /\ analysis'.id = p /\ analysis'.question = asks[p]
        /\ analysis'.status = "analyzing" /\ analysis'.suggestion = NoQuestion
    BY <2>1 DEF NoAnalysis, Analyses, AnalysisInv, ShapeInv
  <2>3. /\ request' \in [Requests -> [at : Places, seen : Metas]]
        /\ \A q \in Requests : /\ Seen(q)' = Seen(q)
                               /\ request'[q].at = IF q = p THEN "enqueue" ELSE request[q].at
    BY <1>1, <2>1 DEF Move, Seen, AnalysisInv, ShapeInv, Places
  <2>4. /\ lease' \in [Askers -> Leases]
        /\ \A n \in Askers : /\ lease'[n].busy = lease[n].busy /\ lease'[n].held = lease[n].held
                             /\ \/ lease'[n].generation = lease[n].generation
                                \/ lease'[n].generation = Revoked
        /\ \A n \in Askers : n = analysis.id /\ lease[n].held => lease'[n].generation = Revoked
    <3>1. lease \in [Askers -> Leases] /\ Revoked \in Nat \cup {Revoked}
      BY DEF AnalysisInv, ShapeInv
    <3>2. CASE ~(prior # NoPost /\ lease[prior].held)
      <4>1. lease' = lease
        BY <2>1, <3>2 DEF Revoke
      <4> QED BY <1>2, <3>1, <3>2, <4>1, AnalysisAssumption
    <3>3. CASE prior # NoPost /\ lease[prior].held
      <4>1. lease' = [lease EXCEPT ![prior].generation = Revoked]
        BY <2>1, <3>3 DEF Revoke
      <4> HIDE DEF prior
      <4>2. \A n \in Askers : lease'[n] = IF n = prior THEN [lease[n] EXCEPT !.generation = Revoked]
                                          ELSE lease[n]
        BY <3>1, <4>1
      <4>3. \A n \in Askers : [lease[n] EXCEPT !.generation = Revoked] \in Leases
        BY <3>1 DEF Leases
      <4> QED BY <1>2, <3>1, <4>1, <4>2, <4>3 DEF Leases
    <3> QED BY <3>2, <3>3
  <2>5. Askers \subseteq Requests /\ generation \in Nat /\ Revoked = -1
    BY DEF Requests, AnalysisInv, ShapeInv, Revoked
  <2>6. ShapeInv'
    BY <1>1, <2>1, <2>2, <2>3, <2>4 DEF AnalysisInv, ShapeInv
  <2>7. AnswerInv' /\ SeenInv'
    BY <1>1, <2>2, <2>3 DEF AnswerInv, SeenInv
  <2>8. EarlyInv' /\ ReplacedInv'
    BY <1>1, <2>2, <2>3, <2>5 DEF AnalysisInv, EarlyInv, ReplacedInv, Early
  <2>9. JobInv'
    BY <1>1, <2>2, <2>4 DEF AnalysisInv, JobInv, Concerns
  <2>10. LeaseInv'
    BY <1>1, <2>4, <2>5 DEF AnalysisInv, LeaseInv
  <2>11. OneAnalysisWorks'
    BY <1>1, <2>4, <2>5 DEF AnalysisInv, OneAnalysisWorks, Valid
  <2>12. QED
    BY <2>6, <2>7, <2>8, <2>9, <2>10, <2>11 DEF AnalysisInv
<1>3. CASE ~(Current(Seen(p).generation) /\ analysis.id = prior)
  <2>1. lease' = Released(p) /\ End(p) /\ analysis' = analysis
        /\ holder' \in Askers \cup {NoPost} /\ job' \in [Askers -> JobStates]
    BY <1>1, <1>3 DEF PublishAnalysis, Leave, AnalysisInv, ShapeInv
  <2>2. Quiet
    BY <1>1, <2>1, QuietRelease
  <2>3. QED
    BY <1>1, <2>1, <2>2, EndStep
<1>4. QED
  BY <1>2, <1>3

\* The document moves on to another generation: whoever works for an older
\* one works in vain.
LEMMA MovingOnPreserves ==
    ASSUME AnalysisInv, UNCHANGED <<run, asks, holder>>, active' \in BOOLEAN,
           generation' = generation + 1, analysis' \in {analysis, NoAnalysis},
           lease' \in [Askers -> Leases], job' \in [Askers -> JobStates],
           \A n \in Askers : \/ lease'[n] = lease[n]
                             \/ ~lease[n].busy /\ lease'[n] = NoLease,
           \A n \in Askers : \/ job'[n] = job[n]
                             \/ job[n] \in {"queued", "started"} /\ job'[n] # "queued",
           UNCHANGED request \/ \E r \in Requests : End(r)
    PROVE  AnalysisInv'
<1>1. /\ request' \in [Requests -> [at : Places, seen : Metas]]
      /\ \A q \in Requests : \/ request'[q] = request[q] /\ Seen(q)' = Seen(q)
                             \/ request'[q].at = "end" /\ Seen(q)'.analysis = NoAnalysis
  <2>1. "end" \in Places
    BY DEF Places
  <2>2. CASE UNCHANGED request
    BY <2>2 DEF Seen, AnalysisInv, ShapeInv
  <2>3. ASSUME NEW r \in Requests, End(r)
        PROVE  \A q \in Requests : request'[q] = IF q = r THEN Request("end") ELSE request[q]
    BY <2>3 DEF End, AnalysisInv, ShapeInv
  <2>4. CASE \E r \in Requests : End(r)
    <3>1. /\ Request("end") \in [at : Places, seen : Metas]
          /\ Request("end").at = "end" /\ Request("end").seen.analysis = NoAnalysis
      BY <2>1, AnalysisFacts DEF Request, Metas
    <3>2. request' \in [Requests -> [at : Places, seen : Metas]]
      BY <2>4, <3>1 DEF End, AnalysisInv, ShapeInv
    <3>3. QED
      BY <2>3, <2>4, <3>1, <3>2 DEF Seen
  <2>5. QED
    BY <2>2, <2>4
<1>2. /\ Askers \subseteq Requests /\ generation \in Nat
      /\ NoLease.generation = 0 /\ ~NoLease.busy
      /\ \A n \in Askers : lease[n].generation \in Int /\ run[n].generation \in Nat
  BY DEF Requests, AnalysisInv, ShapeInv, NoLease, Leases, Runs, Revoked
<1>3. ShapeInv'
  BY <1>1, <1>2, AnalysisFacts DEF AnalysisInv, ShapeInv
<1>4. AnswerInv'
  BY AnalysisFacts DEF AnalysisInv, AnswerInv
<1>5. \A q \in Requests : Seen(q)'.analysis \in Analyses
  BY <1>1 DEF Metas, Seen
<1>6. SeenInv'
  <2>1. \A a \in Analyses : a.id = NoPost => a = NoAnalysis
    BY AnalysisFacts
  <2>2. analysis \in Analyses /\ NoAnalysis.id = NoPost
    BY AnalysisFacts DEF AnalysisInv, ShapeInv
  <2>3. CASE analysis' = NoAnalysis
    BY <1>5, <2>1, <2>2, <2>3 DEF SeenInv
  <2>4. CASE analysis' = analysis
    BY <1>1, <2>1, <2>2, <2>4 DEF AnalysisInv, SeenInv
  <2>5. QED
    BY <2>3, <2>4
<1>7. EarlyInv' /\ ReplacedInv'
  <2>1. NoAnalysis.id = NoPost /\ NoPost \notin Askers
    BY AnalysisFacts, AnalysisAssumption
  <2>2. EarlyInv'
    BY <1>1, <1>2, <2>1 DEF AnalysisInv, EarlyInv, Early
  <2>3. ReplacedInv'
    BY <1>1, <1>2, <2>1 DEF AnalysisInv, ReplacedInv
  <2>4. QED
    BY <2>2, <2>3
<1>8. \A n \in Askers : run[n].generation < generation' /\ lease[n].generation < generation'
  BY <1>2 DEF AnalysisInv, JobInv, LeaseInv
<1>9. JobInv'
  BY <1>2, <1>8 DEF AnalysisInv, JobInv, Concerns, Current
<1>10. LeaseInv'
  BY <1>2, <1>8 DEF AnalysisInv, LeaseInv
<1>11. OneAnalysisWorks'
  BY <1>2, <1>8 DEF OneAnalysisWorks, Valid
<1>12. QED
  BY <1>3, <1>4, <1>6, <1>7, <1>9, <1>10, <1>11 DEF AnalysisInv

LEMMA LayoutDrops ==
    ASSUME AnalysisInv, NEW r \in Layouts, ApplyLayout(r)
    PROVE  analysis' \in {analysis, NoAnalysis}
BY DEF ApplyLayout, Unmoved, AnalysisInv, SeenInv, Requests

LEMMA ApplyLayoutPreserves ==
    ASSUME AnalysisInv, NEW r \in Layouts, ApplyLayout(r)
    PROVE  AnalysisInv'
<1>1. /\ UNCHANGED <<active, run, asks, holder>> /\ End(r) /\ r \in Requests
      /\ active' \in BOOLEAN /\ holder' \in Askers \cup {NoPost}
  BY DEF ApplyLayout, Requests, AnalysisInv, ShapeInv
<1>2. Seen(r) \in Metas /\ Seen(r).analysis.id \in Askers \cup {NoPost}
  <2>1. "end" \in Places
    BY DEF Places
  <2>2. QED
    BY <1>1, <2>1, RequestFacts, AnalysisFacts DEF AnalysisInv, Metas
<1>3. CASE UNCHANGED <<generation, analysis, job, lease>>
  <2>1. Quiet
    BY <1>1, <1>3, Untouched DEF AnalysisInv, ShapeInv
  <2>2. QED
    BY <1>1, <1>3, <2>1, EndStep
<1>4. CASE /\ Unmoved(r) /\ generation' = generation + 1
           /\ \/ /\ Seen(r).analysis.status = "ready"
                 /\ analysis' = Seen(r).analysis
                 /\ UNCHANGED <<job, lease>>
              \/ /\ analysis' = NoAnalysis
                 /\ job' \in Discarded(Seen(r))
                 /\ lease' \in {lease, Released(Seen(r).analysis.id)}
  <2>1. analysis' \in {analysis, NoAnalysis}
    BY LayoutDrops
  <2>2. /\ job' \in [Askers -> JobStates]
        /\ \A n \in Askers : \/ job'[n] = job[n]
                             \/ job[n] \in {"queued", "started"} /\ job'[n] # "queued"
    BY <1>2, <1>4, DiscardedFacts DEF AnalysisInv, ShapeInv
  <2>3. /\ lease' \in [Askers -> Leases]
        /\ \A n \in Askers : \/ lease'[n] = lease[n]
                             \/ ~lease[n].busy /\ lease'[n] = NoLease
    BY <1>2, <1>4, ReleasedFacts DEF AnalysisInv, ShapeInv
  <2>4. QED
    BY <1>1, <1>4, <2>1, <2>2, <2>3, MovingOnPreserves
<1>5. QED
  BY <1>3, <1>4 DEF ApplyLayout

LEMMA DeletePreserves ==
    ASSUME AnalysisInv, DeleteDocument
    PROVE  AnalysisInv'
<1>1. /\ UNCHANGED <<run, asks, holder, request>> /\ active' \in BOOLEAN
      /\ generation' = generation + 1 /\ analysis' = NoAnalysis
  BY DEF DeleteDocument, requestVars
<1>2. /\ job' \in [Askers -> JobStates]
      /\ \A n \in Askers : \/ job'[n] = job[n]
                           \/ job[n] \in {"queued", "started"} /\ job'[n] # "queued"
  <2>1. Metadata \in Metas
    BY DEF Metadata, Metas, AnalysisInv, ShapeInv
  <2>2. QED
    BY <2>1, DiscardedFacts DEF DeleteDocument, AnalysisInv
<1>3. /\ lease' \in [Askers -> Leases]
      /\ \A n \in Askers : \/ lease'[n] = lease[n]
                           \/ ~lease[n].busy /\ lease'[n] = NoLease
  <2>1. \A n \in Askers : /\ Released(n)[n] \in Leases
                          /\ \/ Released(n)[n] = lease[n]
                             \/ ~lease[n].busy /\ Released(n)[n] = NoLease
    BY ReleasedFacts DEF AnalysisInv
  <2>2. CASE lease' = lease
    BY <2>2 DEF AnalysisInv, ShapeInv
  <2>3. CASE lease' = [n \in Askers |-> Released(n)[n]]
    BY <2>1, <2>3
  <2>4. QED
    BY <2>2, <2>3 DEF DeleteDocument
<1>4. QED
  BY <1>1, <1>2, <1>3, MovingOnPreserves

-----------------------------------------------------------------------------
(* Steps of the worker                                                     *)

\* The analysis on record gets its answer, or fails.
Answers ==
    /\ analysis.status = "analyzing" /\ analysis' \in Analyses
    /\ analysis'.id = analysis.id /\ analysis'.question = analysis.question
    /\ \/ analysis'.status = "ready" /\ analysis'.suggestion = analysis.question
       \/ analysis'.status = "failed" /\ analysis'.suggestion = NoQuestion

\* What a step of the worker leaves of one job.
Becomes(n, new, l, x) ==
    /\ run' = [run EXCEPT ![n] = new]
    /\ lease' = [lease EXCEPT ![n] = l]
    /\ job' = [job EXCEPT ![n] = x]

LEMMA JobStepPreserves ==
    ASSUME AnalysisInv, NEW n \in Askers, NEW new \in Runs, NEW l \in Leases, NEW x \in JobStates,
           Becomes(n, new, l, x),
           UNCHANGED <<active, generation, request, asks, holder>>,
           request[n].at \notin Early \cup {"enqueue"}, x # "queued",
           new.generation <= generation, l.generation <= generation,
           new.at \in {"loaded", "child", "publish"} => new.asked = asks[n],
           new.at = "loaded" => l.held,
           l.busy => l.held /\ new.at = "child" /\ analysis.id = n,
           analysis' = analysis \/ Answers
    PROVE  AnalysisInv'
<1>1. /\ \A q \in Requests : Seen(q)' = Seen(q)
      /\ analysis' \in Analyses /\ analysis'.id = analysis.id
      /\ analysis'.status = "analyzing" => analysis.status = "analyzing"
  BY DEF Seen, Answers, AnalysisInv, ShapeInv
<1>2. \A k \in Askers : /\ run'[k] = IF k = n THEN new ELSE run[k]
                        /\ lease'[k] = IF k = n THEN l ELSE lease[k]
                        /\ job'[k] = IF k = n THEN x ELSE job[k]
  BY DEF AnalysisInv, ShapeInv, Becomes
<1>3. ShapeInv'
  BY <1>1 DEF AnalysisInv, ShapeInv, Becomes
<1>4. AnswerInv'
  BY AnalysisFacts, AnalysisAssumption DEF AnalysisInv, ShapeInv, AnswerInv, Answers, Analyses
<1>5. SeenInv'
  BY <1>1 DEF AnalysisInv, SeenInv, Answers
<1>6. EarlyInv'
  BY <1>1, <1>2 DEF AnalysisInv, EarlyInv
<1>7. ReplacedInv'
  BY <1>1 DEF AnalysisInv, ReplacedInv, Requests
<1>8. \A k \in Askers : k # n => (Concerns(k, run[k].generation)' =>
                                      Concerns(k, run[k].generation))
  BY <1>1, <1>2 DEF Concerns, Current
<1>9. JobInv'
  BY <1>2, <1>8 DEF AnalysisInv, JobInv
<1>10. LeaseInv'
  BY <1>2 DEF AnalysisInv, LeaseInv
<1>11. OneAnalysisWorks'
  BY <1>1, <1>2 DEF AnalysisInv, OneAnalysisWorks, Valid
<1>12. QED
  BY <1>3, <1>4, <1>5, <1>6, <1>7, <1>9, <1>10, <1>11 DEF AnalysisInv

\* A job at work belongs to a request that has published.
LEMMA AtWork ==
    ASSUME AnalysisInv, NEW n \in Askers, run[n].at # "none" \/ job[n] = "queued"
    PROVE  /\ request[n].at \notin Early \cup {"enqueue"}
           /\ run[n] \in Runs /\ lease[n] \in Leases /\ job[n] \in JobStates
           /\ generation \in Nat /\ run[n].generation <= generation
           /\ lease[n].generation <= generation
           /\ lease[n].busy => lease[n].held /\ run[n].at = "child"
BY DEF AnalysisInv, ShapeInv, EarlyInv, JobInv, LeaseInv

LEMMA EndedRuns ==
    /\ Run("end") \in Runs /\ Run("end").at = "end" /\ Run("end").generation = 0
    /\ Run("dead") \in Runs /\ Run("dead").at = "dead" /\ Run("dead").generation = 0
    /\ "finished" \in JobStates
    /\ NoLease \in Leases /\ ~NoLease.busy /\ NoLease.generation = 0
BY DEF Run, Runs, RunStates, JobStates, NoLease, Leases

LEMMA StalePreserves ==
    ASSUME AnalysisInv, NEW n \in Askers, run[n].at = "loaded" \/ job[n] = "queued", Stale(n),
           UNCHANGED <<active, generation, analysis, request, asks, holder>>
    PROVE  AnalysisInv'
<1>1. /\ request[n].at \notin Early \cup {"enqueue"}
      /\ generation \in Nat /\ ~lease[n].busy
  BY AtWork DEF AnalysisInv, EarlyInv
<1>2. lease' = [lease EXCEPT ![n] = NoLease]
  BY <1>1, AnalysisAssumption DEF Stale, Released
<1>3. Becomes(n, Run("end"), NoLease, "finished")
  BY <1>2 DEF Stale, JobEnds, Becomes
<1>4. QED
  BY <1>1, <1>3, EndedRuns, JobStepPreserves

LEMMA BeginPreserves ==
    ASSUME AnalysisInv, NEW n \in Askers, BeginAnalysis(n)
    PROVE  AnalysisInv'
<1>1. /\ UNCHANGED <<active, generation, analysis, request, asks, holder>>
      /\ job[n] = "queued"
  BY DEF BeginAnalysis, storeVars, requestVars
<1>2. CASE active /\ analysis.id = n /\ Valid(n)
  <2> DEFINE new == [Run("loaded") EXCEPT !.generation = generation,
                                          !.asked = analysis.question]
  <2>1. /\ job' = [job EXCEPT ![n] = "started"] /\ run' = [run EXCEPT ![n] = new]
        /\ lease' = lease
    BY <1>2 DEF BeginAnalysis
  <2>2. analysis.question = asks[n]
    BY <1>2, AnalysisAssumption DEF AnalysisInv, AnswerInv
  <2>3. /\ new \in Runs /\ new.at = "loaded" /\ new.generation = generation
        /\ new.asked = asks[n]
    BY <2>2 DEF Run, Runs, RunStates, AnalysisInv, ShapeInv
  <2>4. Becomes(n, new, lease[n], "started")
    BY <2>1 DEF AnalysisInv, ShapeInv, Becomes
  <2>5. /\ lease[n].held /\ ~lease[n].busy
    BY <1>1, <1>2, AtWork DEF Valid, AnalysisInv, EarlyInv
  <2>6. "started" \in JobStates
    BY DEF JobStates
  <2> HIDE DEF new
  <2>7. QED
    BY <1>1, <2>3, <2>4, <2>5, <2>6, AtWork, JobStepPreserves
<1>3. CASE ~(active /\ analysis.id = n /\ Valid(n))
  BY <1>1, <1>3, StalePreserves DEF BeginAnalysis
<1>4. QED
  BY <1>2, <1>3

LEMMA StartPreserves ==
    ASSUME AnalysisInv, NEW n \in Askers, StartChild(n)
    PROVE  AnalysisInv'
<1>1. /\ UNCHANGED <<active, generation, analysis, request, asks, holder>>
      /\ run[n].at = "loaded"
  BY DEF StartChild, storeVars, requestVars
<1>2. CASE Concerns(n, run[n].generation)
  <2> DEFINE new == [run[n] EXCEPT !.at = "child"]
             l == [lease[n] EXCEPT !.busy = TRUE]
  <2>1. Becomes(n, new, l, job[n])
    BY <1>1, <1>2 DEF StartChild, Proceed, AnalysisInv, ShapeInv, Becomes
  <2>2. /\ new \in Runs /\ new.at = "child" /\ new.generation = run[n].generation
        /\ new.asked = run[n].asked /\ run[n].asked = asks[n]
    BY <1>1 DEF AnalysisInv, ShapeInv, JobInv, Runs, RunStates
  <2>3. /\ l \in Leases /\ l.held /\ l.generation = lease[n].generation
        /\ analysis.id = n
    <3>1. lease[n] \in Leases
      BY DEF AnalysisInv, ShapeInv
    <3>2. lease[n].held /\ analysis.id = n
      BY <1>1, <1>2 DEF AnalysisInv, JobInv, Concerns
    <3>3. l \in Leases /\ l.held = lease[n].held /\ l.generation = lease[n].generation
      BY <3>1 DEF Leases
    <3>4. QED
      BY <3>2, <3>3
  <2>4. job[n] # "queued"
    BY <1>1 DEF AnalysisInv, EarlyInv
  <2> HIDE DEF new, l
  <2>5. QED
    BY <1>1, <2>1, <2>2, <2>3, <2>4, AtWork, JobStepPreserves
<1>3. CASE ~Concerns(n, run[n].generation)
  BY <1>1, <1>3, StalePreserves DEF StartChild
<1>4. QED
  BY <1>2, <1>3

LEMMA ChildEndsPreserves ==
    ASSUME AnalysisInv, NEW n \in Askers, ChildEnds(n)
    PROVE  AnalysisInv'
<1>1. /\ UNCHANGED <<active, generation, analysis, request, asks, holder>>
      /\ run[n].at = "child" /\ lease' = [lease EXCEPT ![n] = NoLease]
      /\ job' = [job EXCEPT ![n] = job[n]]
  BY DEF ChildEnds, storeVars, requestVars, AnalysisInv, ShapeInv
<1>2. PICK result \in {"ready", "failed"} :
         run' = [run EXCEPT ![n].at = "publish", ![n].result = result]
  BY DEF ChildEnds
<1> DEFINE new == [run[n] EXCEPT !.at = "publish", !.result = result]
<1>3. Becomes(n, new, NoLease, job[n])
  BY <1>1, <1>2 DEF AnalysisInv, ShapeInv, Becomes
<1>4. /\ new \in Runs /\ new.at = "publish" /\ new.generation = run[n].generation
      /\ new.asked = run[n].asked /\ run[n].asked = asks[n]
  <2>1. run[n] \in Runs /\ run[n].asked = asks[n]
    BY <1>1 DEF AnalysisInv, ShapeInv, JobInv
  <2>2. "publish" \in RunStates
    BY DEF RunStates
  <2>3. /\ new \in Runs /\ new.at = "publish" /\ new.generation = run[n].generation
        /\ new.asked = run[n].asked
    BY <2>1, <2>2 DEF Runs
  <2>4. QED
    BY <2>1, <2>3
<1>5. job[n] # "queued"
  BY <1>1 DEF AnalysisInv, EarlyInv
<1> HIDE DEF new
<1>6. QED
  BY <1>1, <1>3, <1>4, <1>5, AtWork, EndedRuns, JobStepPreserves

LEMMA ResultAnswers ==
    ASSUME AnalysisInv, NEW n \in Askers, PublishResult(n)
    PROVE  analysis' = analysis \/ Answers
<1>1. CASE Concerns(n, run[n].generation)
  <2>1. /\ analysis \in Analyses /\ analysis.status = "analyzing"
        /\ analysis.id \in Askers /\ analysis.suggestion = NoQuestion
        /\ analysis.question = asks[n] /\ run[n].asked = asks[n]
        /\ run[n].result \in {"ready", "failed"}
    BY <1>1, AnalysisAssumption
       DEF PublishResult, Concerns, AnalysisInv, ShapeInv, AnswerInv, JobInv, Runs
  <2>2. analysis' = [analysis EXCEPT !.status = run[n].result,
                        !.suggestion = IF run[n].result = "ready" THEN run[n].asked
                                       ELSE analysis.suggestion]
    BY <1>1 DEF PublishResult
  <2>3. QED
    BY <2>1, <2>2, AnalysisFacts DEF Answers, Analyses
<1>2. QED
  BY <1>1 DEF PublishResult

LEMMA PublishResultPreserves ==
    ASSUME AnalysisInv, NEW n \in Askers, PublishResult(n)
    PROVE  AnalysisInv'
<1>1. /\ UNCHANGED <<active, generation, request, asks, holder>>
      /\ run[n].at = "publish" /\ Becomes(n, Run("end"), lease[n], "finished")
  BY DEF PublishResult, JobEnds, requestVars, AnalysisInv, ShapeInv, Becomes
<1>2. ~lease[n].busy
  BY <1>1, AtWork
<1>3. QED
  BY <1>1, <1>2, ResultAnswers, AtWork, EndedRuns, JobStepPreserves

LEMMA HorseDiesPreserves ==
    ASSUME AnalysisInv, NEW n \in Askers, HorseDies(n)
    PROVE  AnalysisInv'
<1> DEFINE l == [lease[n] EXCEPT !.busy = FALSE]
<1>1. /\ UNCHANGED <<active, generation, analysis, request, asks, holder>>
      /\ run[n].at # "none" /\ Becomes(n, Run("dead"), l, job[n])
  BY DEF HorseDies, storeVars, requestVars, AnalysisInv, ShapeInv, Becomes
<1>2. l \in Leases /\ ~l.busy /\ l.generation = lease[n].generation
  BY DEF AnalysisInv, ShapeInv, Leases
<1>3. job[n] # "queued"
  BY <1>1 DEF AnalysisInv, EarlyInv
<1> HIDE DEF l
<1>4. QED
  BY <1>1, <1>2, <1>3, AtWork, EndedRuns, JobStepPreserves

-----------------------------------------------------------------------------
(* Results                                                                 *)

LEMMA AnalysisStepPreserves == AnalysisInv /\ [AnalysisNext]_analysisVars => AnalysisInv'
<1> SUFFICES ASSUME AnalysisInv, [AnalysisNext]_analysisVars PROVE AnalysisInv'
  OBVIOUS
<1>1. ASSUME NEW r \in Requests, Refresh(r) PROVE AnalysisInv'
  BY <1>1, ReadPreserves, FetchPreserves, SettlePreserves DEF Refresh
<1>2. ASSUME NEW p \in Askers, Post(p) \/ EnqueueRaises(p) \/ AskerDies(p) PROVE AnalysisInv'
  BY <1>2, RefusedPreserves, ReservePreserves, PublishPreserves, EnqueuePreserves,
     EnqueueRaisesPreserves DEF Post
<1>3. ASSUME NEW r \in Layouts, ApplyLayout(r) PROVE AnalysisInv'
  BY <1>3, ApplyLayoutPreserves
<1>4. ASSUME NEW n \in Askers, JobStep(n) \/ HorseDies(n) \/ ReconcileLease(n) PROVE AnalysisInv'
  BY <1>4, BeginPreserves, StartPreserves, ChildEndsPreserves, PublishResultPreserves,
     HorseDiesPreserves, LooseEndsPreserve DEF JobStep
<1>5. CASE SubmitLockExpires
  BY <1>5, LooseEndsPreserve
<1>6. CASE DeleteDocument
  BY <1>6, DeletePreserves
<1>7. CASE UNCHANGED analysisVars
  <2>1. UNCHANGED <<active, generation, analysis, lease, job, run, request, asks, holder>>
    BY <1>7 DEF analysisVars, storeVars, requestVars
  <2>2. Quiet
    BY <2>1, Untouched DEF AnalysisInv, ShapeInv
  <2>3. QED
    BY <2>1, <2>2, RequestsRest, QuietPreserves
<1>8. QED
  BY <1>1, <1>2, <1>3, <1>4, <1>5, <1>6, <1>7 DEF AnalysisNext

\* The state of every instance has the shape the model gives it.
THEOREM AnalysisInvariance == AnalysisSpec => []AnalysisInv
<1>1. QED
  BY AnalysisInitEstablishes, AnalysisStepPreserves, PTL DEF AnalysisSpec

\* Every reachable state is well typed; a child that works holds its lease,
\* and a suggestion comes with the status that announces it.
THEOREM AnalysisTypeCorrect == AnalysisSpec => []AnalysisTypeOK
<1>1. AnalysisInv => AnalysisTypeOK
  <2> SUFFICES ASSUME AnalysisInv PROVE AnalysisTypeOK
    OBVIOUS
  <2>1. \A r \in Requests : Seen(r).analysis \in Analyses /\ Seen(r).generation \in Nat
    BY DEF AnalysisInv, ShapeInv, Seen, Metas
  <2>2. QED
    BY <2>1 DEF AnalysisInv, ShapeInv, AnswerInv, LeaseInv, AnalysisTypeOK, Leases, JobStates
<1>2. QED
  BY <1>1, AnalysisInvariance, PTL

\* However submissions, polls, layouts, jobs and deletions of one document
\* interleave, no analysis but the one on record works under a valid lease.
THEOREM OnlyRecordedWorks == AnalysisSpec => []OneAnalysisWorks
<1>1. AnalysisInv => OneAnalysisWorks
  BY DEF AnalysisInv
<1>2. QED
  BY <1>1, AnalysisInvariance, PTL

-----------------------------------------------------------------------------
(* What a document shows is fresh                                          *)

\* What a request is about to publish was neither asked nor answered when it
\* took its lease.
UnansweredInv ==
    \A p \in Askers :
        request[p].at = "publish" =>
            ~(/\ Seen(p).analysis.question = asks[p]
              /\ Seen(p).analysis.status \in {"analyzing", "ready"})

LEMMA UnansweredPreserved ==
    ASSUME AnalysisInv, UnansweredInv, [AnalysisNext]_analysisVars
    PROVE  UnansweredInv'
<1> DEFINE Others == /\ UNCHANGED asks
                     /\ \A p \in Askers : \/ request'[p] = request[p]
                                          \/ request'[p].at # "publish"
<1>1. request \in [Requests -> [at : Places, seen : Metas]] /\ Askers \subseteq Requests
  BY DEF AnalysisInv, ShapeInv, Requests
<1>2. ASSUME Others PROVE UnansweredInv'
  BY <1>2 DEF UnansweredInv, Seen
<1>3. ASSUME NEW r \in Requests, NEW place, place # "publish", UNCHANGED asks,
             Move(r, place) \/ See(r, place) \/ request' = [request EXCEPT ![r] = Request(place)]
      PROVE  Others
  BY <1>1, <1>3 DEF Move, See, Request
<1>4. ASSUME NEW r \in Requests, UNCHANGED asks, Polled(r) PROVE Others
  BY <1>3, <1>4 DEF Polled, End
<1>5. ASSUME NEW r \in Requests, Refresh(r) PROVE Others
  <2>1. UNCHANGED asks
    BY <1>5 DEF Refresh, Read, Fetch, Settle
  <2>2. QED
    BY <1>3, <1>4, <1>5, <2>1 DEF Refresh, Read, Fetch, Settle, End
<1>6. ASSUME NEW p \in Askers, \/ Refused(p) \/ PublishAnalysis(p) \/ Enqueue(p)
                               \/ EnqueueRaises(p) \/ AskerDies(p)
      PROVE  Others
  <2>1. UNCHANGED asks /\ p \in Requests
    BY <1>1, <1>6 DEF Refused, PublishAnalysis, Enqueue, EnqueueRaises, AskerDies
  <2>2. Move(p, "enqueue") \/ End(p) \/ request' = [request EXCEPT ![p] = Request("dead")]
    BY <1>6 DEF Refused, PublishAnalysis, Enqueue, EnqueueRaises, AskerDies, Leave
  <2>3. QED
    BY <1>3, <2>1, <2>2 DEF End
<1>7. ASSUME NEW p \in Askers, Reserve(p) PROVE UnansweredInv'
  <2>1. /\ UNCHANGED asks /\ ~Answered(p)
        /\ request' = [request EXCEPT ![p] = [at |-> "publish", seen |-> Metadata]]
    BY <1>7 DEF Reserve, See
  <2>2. \A q \in Askers : request'[q] = IF q = p THEN [at |-> "publish", seen |-> Metadata]
                                        ELSE request[q]
    BY <1>1, <2>1
  <2>3. QED
    BY <2>1, <2>2 DEF UnansweredInv, Seen, Answered, Metadata
<1>8. ASSUME NEW r \in Layouts, ApplyLayout(r) PROVE Others
  BY <1>3, <1>8 DEF ApplyLayout, End, Requests
<1>9. CASE \/ SubmitLockExpires \/ DeleteDocument \/ UNCHANGED analysisVars
           \/ \E n \in Askers : JobStep(n) \/ HorseDies(n) \/ ReconcileLease(n)
  <2>1. UNCHANGED <<request, asks>>
    BY <1>9 DEF SubmitLockExpires, DeleteDocument, JobStep, BeginAnalysis, StartChild, ChildEnds,
       PublishResult, JobAbandoned, HorseDies, ReconcileLease, analysisVars, requestVars
  <2>2. QED
    BY <1>2, <2>1
<1>10. QED
  BY <1>2, <1>5, <1>6, <1>7, <1>8, <1>9 DEF AnalysisNext, Post

\* What a step can do to the analysis on record.
Recorded ==
    \/ analysis' = analysis
    \/ Fails
    \/ Answers
    \/ analysis' = NoAnalysis
    \/ \E p \in Askers : PublishAnalysis(p) /\ Current(Seen(p).generation)
                            /\ analysis.id = Seen(p).analysis.id

LEMMA StepRecords == AnalysisInv /\ [AnalysisNext]_analysisVars => Recorded
<1> SUFFICES ASSUME AnalysisInv, [AnalysisNext]_analysisVars PROVE Recorded
  OBVIOUS
<1>1. ASSUME NEW r \in Requests, Refresh(r) PROVE Recorded
  BY <1>1 DEF Refresh, Read, Fetch, Settle, storeVars, Concerns, Fails, Recorded
<1>2. ASSUME NEW p \in Askers, Post(p) \/ EnqueueRaises(p) \/ AskerDies(p) PROVE Recorded
  <2>1. CASE PublishAnalysis(p)
    BY <2>1 DEF PublishAnalysis, Recorded
  <2>2. QED
    BY <1>2, <2>1 DEF Post, Refused, Reserve, Enqueue, EnqueueRaises, AskerDies, storeVars,
       Concerns, Fails, Recorded
<1>3. ASSUME NEW r \in Layouts, ApplyLayout(r) PROVE Recorded
  BY <1>3, LayoutDrops DEF Recorded
<1>4. ASSUME NEW n \in Askers, JobStep(n) \/ HorseDies(n) \/ ReconcileLease(n) PROVE Recorded
  BY <1>4, ResultAnswers DEF JobStep, BeginAnalysis, StartChild, ChildEnds, JobAbandoned,
     HorseDies, ReconcileLease, storeVars, Recorded
<1>5. CASE SubmitLockExpires \/ DeleteDocument \/ UNCHANGED analysisVars
  BY <1>5 DEF SubmitLockExpires, DeleteDocument, analysisVars, storeVars, Recorded
<1>6. QED
  BY <1>1, <1>2, <1>3, <1>4, <1>5 DEF AnalysisNext

LEMMA FreshSteps ==
    ASSUME AnalysisInv, UnansweredInv, [AnalysisNext]_analysisVars
    PROVE  [FreshAnalysis!Next]_FreshAnalysis!vars
<1> USE DEF FreshAnalysis!Next, FreshAnalysis!vars, FreshAnalysis!Ask, FreshAnalysis!Answer
<1>1. analysis \in Analyses
  BY DEF AnalysisInv, ShapeInv
<1>2. CASE analysis' = analysis \/ Fails
  BY <1>2, FailsFacts DEF AnalysisInv
<1>3. CASE Answers
  BY <1>3 DEF Answers, AnalysisInv, AnswerInv
<1>4. CASE analysis' = NoAnalysis
  <2>1. analysis.question = NoQuestion => analysis = NoAnalysis
    BY <1>1, AnalysisAssumption DEF Analyses
  <2>2. QED
    BY <1>4, <2>1, AnalysisFacts
<1>5. ASSUME NEW p \in Askers, PublishAnalysis(p), Current(Seen(p).generation),
             analysis.id = Seen(p).analysis.id
      PROVE  [FreshAnalysis!Next]_FreshAnalysis!vars
  <2>1. /\ analysis'.question = asks[p] /\ analysis'.suggestion = NoQuestion
        /\ asks[p] \in Questions /\ request[p].at = "publish" /\ p \in Requests
    BY <1>5 DEF PublishAnalysis, At, NoAnalysis, AnalysisInv, ShapeInv, Requests
  <2>2. analysis.question = asks[p] => analysis.suggestion = NoQuestion
    BY <1>5, <2>1 DEF AnalysisInv, SeenInv, AnswerInv, UnansweredInv
  <2>3. QED
    BY <2>1, <2>2
<1>6. QED
  BY <1>2, <1>3, <1>4, <1>5, StepRecords DEF Recorded

\* For any number of requests, the suggestion a document shows belongs to the
\* question it shows, and is withdrawn only by another question or a layout.
THEOREM AnalysesAreFresh == AnalysisSpec => AnalysisIsFresh
<1>1. AnalysisInit => FreshAnalysis!Init /\ UnansweredInv
  BY DEF AnalysisInit, FreshAnalysis!Init, NoAnalysis, UnansweredInv, Requests, Request
<1>2. AnalysisInv /\ UnansweredInv /\ [AnalysisNext]_analysisVars =>
         UnansweredInv' /\ [FreshAnalysis!Next]_FreshAnalysis!vars
  BY UnansweredPreserved, FreshSteps
<1>3. QED
  BY <1>1, <1>2, AnalysisInvariance, PTL DEF AnalysisSpec, AnalysisIsFresh, FreshAnalysis!Spec

-----------------------------------------------------------------------------
(* The jobs side by side                                                   *)

\* A step of the jobs is a step of each analysis, or leaves it alone.
LEMMA JobsSteps ==
    [JobsNext]_jobsVars =>
        [SuggestionNext]_suggestionVars /\ [AnalysisNext]_analysisVars
BY DEF JobsNext, jobsVars

LEMMA JobsBehaviours == JobsSpec => SuggestionSpec /\ AnalysisSpec
<1>1. JobsInit => SuggestionInit /\ AnalysisInit
  BY DEF JobsInit
<1> QED BY <1>1, JobsSteps, PTL DEF JobsSpec, SuggestionSpec, AnalysisSpec

\* Both analyses have their types, whatever job the workers run.
THEOREM JobsTypeCorrect == JobsSpec => []AnalysesTypeOK
<1>1. SuggestionTypeOK /\ AnalysisTypeOK => AnalysesTypeOK
  BY DEF AnalysesTypeOK
<1> QED BY <1>1, JobsBehaviours, SuggestionTypeCorrect, AnalysisTypeCorrect, PTL

\* Neither a preview nor a projected document shows what was found for
\* another question than the one that was asked last.
THEOREM JobsAreFresh == JobsSpec => AnswersAreFresh
BY JobsBehaviours, SuggestionsAreFresh, AnalysesAreFresh DEF AnswersAreFresh

=============================================================================
