------------------------- MODULE JobAdmissionProofs -------------------------
(***************************************************************************)
(* For any number of POSTs, users, requests and workers: a POST is answered*)
(* with a job that was asked for in its words, and a request id is worked  *)
(* on once.  Who has the submit lock has looked its request id up: until   *)
(* it writes the index there is no other job of that request that works    *)
(* and whose maker got to its end.                                         *)
(*                                                                         *)
(* Then WithinCapacity.  What a POST compares is a bound on the state at   *)
(* that moment, and until the POST is through, only its own steps can add  *)
(* to it: others wait for the submit lock, and what workers, cancellations *)
(* and expiries do meanwhile takes jobs and attempts away or moves them.   *)
(***************************************************************************)
EXTENDS JobAdmission, SequenceTheorems, FiniteSetTheorems, TLAPS

RequestKeys == Users \X (Requests \cup {NoRequest})
ContentKeys == Users \X Contents
Records == [state : {"none", "working", "done", "failed"}, result : BOOLEAN]

\* Before a record is saved, and between the look-up and the index.
Unsaved == {"arrive", "request", "content", "quota", "backlog", "room", "save"}
Seeking == {"content", "quota", "backlog", "room", "save", "index", "join", "enqueue",
            "indexrequest"}
Locked == Seeking \cup {"request", "release"}

ShapeInv ==
    /\ want \in [Posts -> Wishes] /\ stage \in [Posts -> Places]
    /\ answer \in [Posts -> Posts \cup {NoPost}] /\ holder \in Posts \cup {NoPost}
    /\ jobs \in [Posts -> Records]
    /\ byRequest \in [RequestKeys -> Posts \cup {NoPost}]
    /\ byContent \in [ContentKeys -> Posts \cup {NoPost}]

\* One POST at a time is in the locked region.
MutexInv == \A p \in Posts : stage[p] \in Locked => holder = p

\* An index names jobs of its key.
IndexInv ==
    /\ \A k \in RequestKeys : byRequest[k] # NoPost => RequestKey(byRequest[k]) = k
    /\ \A k \in ContentKeys : byContent[k] # NoPost => ContentKey(byContent[k]) = k

UnsavedInv == \A p \in Posts : stage[p] \in Unsaved => ~Working(p)

\* The index knows the job of a maker that got to its end.
KnownInv ==
    \A p \in Posts : Working(p) /\ Billed(p) /\ stage[p] \in {"release", "gone"} =>
        byRequest[RequestKey(p)] = p

\* Whoever is about to write the index has found nothing there.
ClearInv ==
    \A p \in Posts : Billed(p) /\ stage[p] \in Seeking => byRequest[RequestKey(p)] = NoPost

AdmissionInv ==
    /\ ShapeInv /\ MutexInv /\ IndexInv /\ UnsavedInv
    /\ KnownInv /\ ClearInv /\ AnswersAgree

-----------------------------------------------------------------------------
LEMMA KeyFacts ==
    ASSUME ShapeInv
    PROVE  /\ NoPost \notin Posts
           /\ \A p \in Posts : RequestKey(p) \in RequestKeys /\ ContentKey(p) \in ContentKeys
           /\ \A i, j \in Posts : /\ RequestKey(i) = RequestKey(j) => (Billed(i) <=> Billed(j))
                                  /\ RequestKey(i) = RequestKey(j) /\ SameWork(i, j) =>
                                        want[i] = want[j]
                                  /\ ContentKey(i) = ContentKey(j) =>
                                        \/ Billed(i) /\ Billed(j)
                                        \/ want[i] = want[j]
                                  /\ ContentKey(i) = ContentKey(j)
                                        /\ want[i].request = want[j].request =>
                                           want[i] = want[j] /\ RequestKey(i) = RequestKey(j)
BY AdmissionAssumption
   DEF ShapeInv, Wishes, RequestKeys, ContentKeys, RequestKey, ContentKey, Billed, SameWork, Contents

\* What stays the same about the others when one POST goes on.
LEMMA Stages ==
    ASSUME ShapeInv, NEW p \in Posts, NEW place \in Places, GoOn(p, place)
    PROVE  /\ stage' \in [Posts -> Places]
           /\ \A q \in Posts : stage'[q] = IF q = p THEN place ELSE stage[q]
BY DEF ShapeInv, GoOn

LEMMA Alone ==
    ASSUME AdmissionInv, NEW p \in Posts, stage[p] \in Locked
    PROVE  holder = p /\ \A q \in Posts : stage[q] \in Locked => q = p
BY DEF AdmissionInv, MutexInv

LEMMA InitEstablishes == AdmissionInit => AdmissionInv
<1> SUFFICES ASSUME AdmissionInit PROVE AdmissionInv
  OBVIOUS
<1>1. ShapeInv
  BY DEF AdmissionInit, ShapeInv, RequestKeys, ContentKeys, Records, NoRecord, Places
<1>2. \A p \in Posts : stage[p] = "arrive" /\ ~Working(p) /\ answer[p] = NoPost
  BY DEF AdmissionInit, Working, NoRecord
<1>3. /\ \A k \in RequestKeys : byRequest[k] = NoPost
      /\ \A k \in ContentKeys : byContent[k] = NoPost
  BY DEF AdmissionInit, RequestKeys, ContentKeys
<1>4. QED
  BY <1>1, <1>2, <1>3 DEF AdmissionInv, MutexInv, IndexInv, UnsavedInv, KnownInv, ClearInv, AnswersAgree,
     Locked, Seeking

-----------------------------------------------------------------------------
(* Steps outside the lock                                                  *)

\* No record starts to work.
Idle ==
    /\ UNCHANGED <<want, stage, answer, holder, byRequest, byContent>>
    /\ jobs' \in [Posts -> Records]
    /\ \A j \in Posts : Working(j)' => Working(j)

LEMMA IdlePreserves == ASSUME AdmissionInv, Idle PROVE AdmissionInv'
<1>1. \A p, j \in Posts : /\ RequestKey(p)' = RequestKey(p) /\ ContentKey(p)' = ContentKey(p)
                          /\ Billed(p)' = Billed(p)
  BY DEF Idle, RequestKey, ContentKey, Billed
<1>2. ShapeInv'
  BY DEF Idle, AdmissionInv, ShapeInv
<1>3. MutexInv' /\ UnsavedInv'
  BY DEF Idle, AdmissionInv, MutexInv, UnsavedInv
<1>4. IndexInv'
  BY DEF Idle, AdmissionInv, IndexInv, RequestKey, ContentKey
<1>5. KnownInv' /\ ClearInv'
  BY <1>1 DEF Idle, AdmissionInv, KnownInv, ClearInv
<1>6. AnswersAgree'
  BY DEF Idle, AdmissionInv, AnswersAgree
<1>7. QED
  BY <1>2, <1>3, <1>4, <1>5, <1>6 DEF AdmissionInv

LEMMA RecordEnds ==
    ASSUME jobs \in [Posts -> Records], NEW j \in Posts, NEW x \in Records,
           x.state # "working", jobs' = [jobs EXCEPT ![j] = x]
    PROVE  /\ jobs' \in [Posts -> Records]
           /\ \A i \in Posts : Working(i)' => Working(i)
BY DEF Working

LEMMA WorkersPreserve ==
    ASSUME AdmissionInv,
           \/ Take \/ UNCHANGED admissionVars
           \/ \E j \in Posts : \/ Register(j) \/ Retry(j) \/ Cancel(j)
                               \/ ExpireRecord(j) \/ LoseResult(j)
                               \/ \E state \in {"done", "failed"} : EndAttempt(j, state)
    PROVE  AdmissionInv'
<1>1. jobs \in [Posts -> Records]
  BY DEF AdmissionInv, ShapeInv
<1>2. CASE \/ Take \/ UNCHANGED admissionVars \/ \E j \in Posts : Register(j) \/ Retry(j)
  <2>1. UNCHANGED <<want, stage, answer, holder, jobs, byRequest, byContent>>
    BY <1>2 DEF Take, Register, Retry, admissionVars, submissionVars, recordVars
  <2>2. QED
    BY <1>1, <2>1, IdlePreserves DEF Idle, Working
<1>3. ASSUME NEW j \in Posts,
             \/ Cancel(j) \/ ExpireRecord(j) \/ LoseResult(j)
             \/ \E state \in {"done", "failed"} : EndAttempt(j, state)
      PROVE  AdmissionInv'
  <2>1. UNCHANGED <<want, stage, answer, holder, byRequest, byContent>>
    BY <1>3 DEF Cancel, ExpireRecord, LoseResult, EndAttempt, submissionVars
  <2>2. /\ jobs' \in [Posts -> Records]
        /\ \A i \in Posts : Working(i)' => Working(i)
    <3>1. CASE Cancel(j) \/ ExpireRecord(j)
      <4>1. /\ NoRecord \in Records /\ NoRecord.state # "working"
            /\ [state |-> "failed", result |-> FALSE] \in Records
        BY DEF NoRecord, Records
      <4>2. jobs' = [jobs EXCEPT ![j] = NoRecord]
              \/ jobs' = [jobs EXCEPT ![j] = [state |-> "failed", result |-> FALSE]]
        BY <3>1 DEF Cancel, ExpireRecord
      <4>3. QED
        BY <1>1, <4>1, <4>2, RecordEnds
    <3>2. CASE LoseResult(j)
      BY <1>1, <3>2 DEF LoseResult, Records, Working
    <3>3. ASSUME NEW state \in {"done", "failed"}, EndAttempt(j, state)
          PROVE  /\ jobs' \in [Posts -> Records]
                 /\ \A i \in Posts : Working(i)' => Working(i)
      <4> DEFINE x == [state |-> state, result |-> state = "done"]
      <4>1. x \in Records /\ x.state # "working"
        BY DEF Records
      <4>2. jobs' = jobs \/ jobs' = [jobs EXCEPT ![j] = x]
        BY <3>3 DEF EndAttempt
      <4> HIDE DEF x
      <4>3. QED
        BY <1>1, <4>1, <4>2, RecordEnds DEF Working
    <3>4. QED
      BY <1>3, <3>1, <3>2, <3>3
  <2>3. QED
    BY <2>1, <2>2, IdlePreserves DEF Idle
<1>4. QED
  BY <1>2, <1>3

-----------------------------------------------------------------------------
(* Steps of a POST that leave the index of the requests alone              *)

LEMMA MutexStays ==
    ASSUME AdmissionInv, NEW p \in Posts, NEW place \in Places, GoOn(p, place),
           UNCHANGED holder, stage[p] \in Locked \/ place \notin Locked
    PROVE  MutexInv'
BY Stages DEF AdmissionInv, MutexInv

LEMMA Walks ==
    ASSUME AdmissionInv, NEW p \in Posts, NEW place \in Places, GoOn(p, place),
           UNCHANGED <<want, byRequest>>,
           answer' = answer \/ answer' = [answer EXCEPT ![p] = NoPost],
           byContent' = byContent \/ byContent' = [byContent EXCEPT ![ContentKey(p)] = p],
           jobs' \in [Posts -> Records],
           \A q \in Posts : Working(q)' => Working(q) \/ (q = p /\ place \in Seeking \ Unsaved),
           holder' \in Posts \cup {NoPost}, MutexInv',
           place \in Seeking => stage[p] \in Seeking,
           place \in Unsaved => stage[p] \in Unsaved,
           place \in {"release", "gone"} => ~Working(p)' \/ stage[p] = "release"
    PROVE  AdmissionInv'
<1>1. /\ stage' \in [Posts -> Places]
      /\ \A q \in Posts : stage'[q] = IF q = p THEN place ELSE stage[q]
  BY Stages DEF AdmissionInv
<1>2. \A q \in Posts : /\ RequestKey(q)' = RequestKey(q) /\ ContentKey(q)' = ContentKey(q)
                       /\ Billed(q)' = Billed(q)
  BY DEF RequestKey, ContentKey, Billed
<1>3. ShapeInv'
  BY <1>1 DEF AdmissionInv, ShapeInv
<1>4. IndexInv'
  <2>1. \A k \in RequestKeys : byRequest'[k] # NoPost => RequestKey(byRequest'[k]) = k
    BY DEF AdmissionInv, IndexInv
  <2>2. \A k \in ContentKeys : byContent'[k] # NoPost => ContentKey(byContent'[k]) = k
    <3>1. \A k \in ContentKeys : \/ byContent'[k] = byContent[k]
                                 \/ k = ContentKey(p) /\ byContent'[k] = p
      BY DEF AdmissionInv, ShapeInv
    <3>2. QED
      BY <3>1 DEF AdmissionInv, IndexInv
  <2>3. QED
    BY <2>1, <2>2 DEF IndexInv, RequestKey, ContentKey
<1>5. UnsavedInv'
  BY <1>1 DEF AdmissionInv, UnsavedInv
<1>6. KnownInv'
  BY <1>1, <1>2 DEF AdmissionInv, KnownInv, Seeking
<1>7. ClearInv'
  BY <1>1, <1>2 DEF AdmissionInv, ClearInv
<1>8. AnswersAgree'
  BY DEF AdmissionInv, ShapeInv, AnswersAgree
<1>9. QED
  BY <1>3, <1>4, <1>5, <1>6, <1>7, <1>8 DEF AdmissionInv

LEMMA LockPreserves ==
    ASSUME AdmissionInv, NEW p \in Posts, \/ Acquire(p) \/ GiveUp(p) \/ Release(p) \/ Kill(p)
    PROVE  AdmissionInv'
<1>1. /\ UNCHANGED <<want, answer, jobs, byRequest, byContent>>
      /\ holder' \in Posts \cup {NoPost} /\ jobs' \in [Posts -> Records]
      /\ \A q \in Posts : Working(q)' => Working(q)
  BY DEF Acquire, GiveUp, Release, Kill, recordVars, AdmissionInv, ShapeInv, Working
<1>2. PICK place \in {"request", "gone", "killed"} : GoOn(p, place)
  BY DEF Acquire, GiveUp, Release, Kill
<1>3. place \in Places /\ place \notin Seeking /\ (place \in Unsaved => place = "request")
  BY DEF Places, Seeking, Unsaved
<1>4. \A q \in Posts : stage'[q] = IF q = p THEN place ELSE stage[q]
  BY <1>2, <1>3, Stages DEF AdmissionInv
<1>5. MutexInv'
  <2>1. place \in Locked => place = "request"
    BY DEF Locked, Seeking
  <2>2. CASE Acquire(p)
    BY <1>4, <2>2, KeyFacts DEF Acquire, AdmissionInv, MutexInv
  <2>3. CASE GiveUp(p) \/ Kill(p)
    <3>1. UNCHANGED holder /\ place # "request"
      BY <1>2, <1>4, <2>3 DEF GiveUp, Kill, GoOn, AdmissionInv, ShapeInv
    <3>2. QED
      BY <1>4, <2>1, <3>1 DEF AdmissionInv, MutexInv
  <2>4. CASE Release(p)
    <3>1. stage[p] \in Locked /\ place # "request"
      BY <1>2, <1>4, <2>4 DEF Release, AtStage, GoOn, AdmissionInv, ShapeInv, Locked
    <3>2. QED
      BY <1>4, <2>1, <3>1, Alone DEF MutexInv
  <2>5. QED
    BY <2>2, <2>3, <2>4
<1>6. /\ place \in Unsaved => stage[p] \in Unsaved
      /\ place \in {"release", "gone"} => ~Working(p)' \/ stage[p] = "release"
  BY <1>1, <1>2, <1>4 DEF Acquire, GiveUp, Release, Kill, AtStage, GoOn, AdmissionInv, ShapeInv, UnsavedInv,
                          Unsaved
<1>7. QED
  BY <1>1, <1>2, <1>3, <1>5, <1>6, Walks

LEMMA ExpiryPreserves ==
    ASSUME AdmissionInv, LockExpires
    PROVE  AdmissionInv'
<1>1. UNCHANGED <<want, stage, answer, jobs, byRequest, byContent>> /\ holder' = NoPost
  BY DEF LockExpires, recordVars
<1>2. \A q \in Posts : stage[q] \notin Locked
  BY DEF LockExpires, AtStage, AdmissionInv, MutexInv, Locked, Seeking
<1>3. ShapeInv' /\ MutexInv'
  BY <1>1, <1>2 DEF AdmissionInv, ShapeInv, MutexInv
<1>4. IndexInv' /\ UnsavedInv' /\ KnownInv' /\ ClearInv' /\ AnswersAgree'
  BY <1>1 DEF AdmissionInv, IndexInv, UnsavedInv, KnownInv, ClearInv, AnswersAgree, RequestKey, ContentKey,
     Billed, Working
<1>5. QED
  BY <1>3, <1>4 DEF AdmissionInv

\* The limits, the record and the queue.
LEMMA AdmittingPreserves ==
    ASSUME AdmissionInv, NEW p \in Posts,
           \/ CheckUser(p) \/ CountQueued(p) \/ CheckRoom(p) \/ SaveRecord(p)
           \/ IndexContent(p) \/ JoinUser(p) \/ Enqueue(p) \/ EnqueueRaises(p)
    PROVE  AdmissionInv'
<1>1. UNCHANGED <<want, holder, byRequest>> /\ stage[p] \in Seeking
  BY DEF CheckUser, CountQueued, CheckRoom, SaveRecord, IndexContent, JoinUser, Enqueue,
     EnqueueRaises, recordVars, AtStage, Seeking
<1>2. /\ answer' = answer \/ answer' = [answer EXCEPT ![p] = NoPost]
      /\ byContent' = byContent \/ byContent' = [byContent EXCEPT ![ContentKey(p)] = p]
  BY DEF CheckUser, CountQueued, CheckRoom, SaveRecord, IndexContent, JoinUser, Enqueue,
     EnqueueRaises, recordVars, Leave
<1>3. CASE SaveRecord(p)
  <2>1. jobs' = [jobs EXCEPT ![p] = [state |-> "working", result |-> FALSE]] /\ GoOn(p, "index")
    BY <1>3 DEF SaveRecord
  <2>2. /\ "index" \in Places /\ "index" \in Seeking /\ "index" \notin Unsaved
    BY DEF Places, Seeking, Unsaved
  <2>3. /\ jobs' \in [Posts -> Records]
        /\ \A q \in Posts : Working(q)' => Working(q) \/ q = p
    BY <2>1 DEF AdmissionInv, ShapeInv, Records, Working
  <2>4. MutexInv' /\ holder' \in Posts \cup {NoPost}
    BY <1>1, <2>1, <2>2, MutexStays DEF Locked, AdmissionInv, ShapeInv
  <2>5. QED
    BY <1>1, <1>2, <2>1, <2>2, <2>3, <2>4, Walks
<1>4. CASE EnqueueRaises(p)
  <2>1. /\ jobs' = [jobs EXCEPT ![p] = [state |-> "failed", result |-> FALSE]]
        /\ GoOn(p, "release")
    BY <1>4 DEF EnqueueRaises, Abandon, Leave
  <2>2. /\ "release" \in Places /\ "release" \notin Seeking /\ "release" \notin Unsaved
        /\ "release" \in Locked
    BY DEF Places, Seeking, Unsaved, Locked
  <2>3. /\ jobs' \in [Posts -> Records] /\ ~Working(p)'
        /\ \A q \in Posts : Working(q)' => Working(q)
    BY <2>1 DEF AdmissionInv, ShapeInv, Records, Working
  <2>4. MutexInv' /\ holder' \in Posts \cup {NoPost}
    BY <1>1, <2>1, <2>2, MutexStays DEF Locked, AdmissionInv, ShapeInv
  <2>5. QED
    BY <1>1, <1>2, <2>1, <2>2, <2>3, <2>4, Walks
<1>5. CASE \/ CheckUser(p) \/ CountQueued(p) \/ CheckRoom(p)
           \/ IndexContent(p) \/ JoinUser(p) \/ Enqueue(p)
  <2>1. PICK place \in {"backlog", "room", "save", "join", "enqueue", "indexrequest", "release"} :
           /\ GoOn(p, place) /\ UNCHANGED jobs
           /\ place \in Unsaved \cup {"release"} => stage[p] \in Unsaved
    BY <1>5 DEF CheckUser, CountQueued, CheckRoom, IndexContent, JoinUser, Enqueue, recordVars,
       Leave, AtStage, Unsaved
  <2>2. place \in Places /\ place \in Locked
    BY DEF Places, Locked, Seeking
  <2>3. /\ jobs' \in [Posts -> Records]
        /\ \A q \in Posts : Working(q)' => Working(q)
        /\ place \in {"release", "gone"} => ~Working(p)'
    BY <2>1 DEF AdmissionInv, ShapeInv, Working, UnsavedInv
  <2>4. MutexInv' /\ holder' \in Posts \cup {NoPost}
    BY <1>1, <2>1, <2>2, MutexStays DEF Locked, AdmissionInv, ShapeInv
  <2>5. QED
    BY <1>1, <1>2, <2>1, <2>2, <2>3, <2>4, Walks
<1>6. QED
  BY <1>3, <1>4, <1>5

-----------------------------------------------------------------------------
(* Steps that read and write the index of the requests                     *)

\* A POST under the lock writes what it knows of its request and goes on.
LEMMA IndexesPreserve ==
    ASSUME AdmissionInv, NEW p \in Posts, NEW place \in Places, GoOn(p, place),
           NEW x \in Posts \cup {NoPost}, NEW j \in Posts \cup {NoPost},
           UNCHANGED <<want, holder, jobs, byContent>>,
           stage[p] \in Locked, place \in Locked,
           place \in Unsaved \cup Seeking => ~Working(p),
           answer' = answer \/ answer' = [answer EXCEPT ![p] = j],
           j # NoPost => want[j] = want[p],
           byRequest' = byRequest \/ byRequest' = [byRequest EXCEPT ![RequestKey(p)] = x],
           x # NoPost => RequestKey(x) = RequestKey(p),
           \A q \in Posts : q # p /\ Working(q) /\ Billed(q) /\ RequestKey(q) = RequestKey(p)
                               /\ stage[q] = "gone" => UNCHANGED byRequest,
           Working(p) /\ Billed(p) => byRequest'[RequestKey(p)] = p,
           Billed(p) /\ place \in Seeking => byRequest'[RequestKey(p)] = NoPost
    PROVE  AdmissionInv'
<1>1. /\ stage' \in [Posts -> Places]
      /\ \A q \in Posts : stage'[q] = IF q = p THEN place ELSE stage[q]
  BY Stages DEF AdmissionInv
<1>2. \A q \in Posts : /\ RequestKey(q)' = RequestKey(q) /\ ContentKey(q)' = ContentKey(q)
                       /\ Billed(q)' = Billed(q) /\ Working(q)' = Working(q)
  BY DEF RequestKey, ContentKey, Billed, Working
<1>3. \A q \in Posts : stage[q] \in Locked => q = p
  BY Alone
<1>4. /\ byRequest' \in [RequestKeys -> Posts \cup {NoPost}]
      /\ \A k \in RequestKeys : k # RequestKey(p) => byRequest'[k] = byRequest[k]
      /\ byRequest'[RequestKey(p)] \in {byRequest[RequestKey(p)], x}
  BY KeyFacts DEF AdmissionInv, ShapeInv
<1>5. ShapeInv'
  BY <1>1, <1>4 DEF AdmissionInv, ShapeInv
<1>6. MutexInv'
  BY MutexStays
<1>7. IndexInv'
  <2>1. \A k \in RequestKeys : byRequest'[k] # NoPost => RequestKey(byRequest'[k]) = k
    BY <1>4 DEF AdmissionInv, IndexInv
  <2>2. \A k \in ContentKeys : byContent'[k] # NoPost => ContentKey(byContent'[k]) = k
    BY DEF AdmissionInv, IndexInv
  <2>3. QED
    BY <2>1, <2>2 DEF IndexInv, RequestKey, ContentKey
<1>8. UnsavedInv'
  BY <1>1, <1>2 DEF AdmissionInv, UnsavedInv
<1>9. KnownInv'
  BY <1>1, <1>2, <1>3, <1>4, KeyFacts DEF AdmissionInv, KnownInv, Locked
<1>10. ClearInv'
  BY <1>1, <1>2, <1>3 DEF AdmissionInv, ClearInv, Locked
<1>11. AnswersAgree'
  BY DEF AdmissionInv, ShapeInv, AnswersAgree
<1>12. QED
  BY <1>5, <1>6, <1>7, <1>8, <1>9, <1>10, <1>11 DEF AdmissionInv

LEMMA LookUpRequestPreserves ==
    ASSUME AdmissionInv, NEW p \in Posts, LookUpRequest(p)
    PROVE  AdmissionInv'
<1> DEFINE key == RequestKey(p)
           j == byRequest[key]
<1>1. /\ UNCHANGED <<want, holder, jobs, byContent>>
      /\ stage[p] = "request" /\ ~Working(p) /\ stage[p] \in Locked
  BY DEF LookUpRequest, AtStage, AdmissionInv, UnsavedInv, Unsaved, Locked
<1>2. /\ key \in RequestKeys /\ j \in Posts \cup {NoPost} /\ NoPost \notin Posts
      /\ j # NoPost => RequestKey(j) = key
  BY KeyFacts DEF AdmissionInv, ShapeInv, IndexInv
<1>3. {"release", "content"} \subseteq Places \cap Locked /\ "content" \in Seeking
  BY DEF Places, Locked, Seeking
<1>4. CASE Billed(p) /\ j # NoPost /\ Repeats(j)
  <2> DEFINE y == IF SameWork(p, j) THEN j ELSE NoPost
  <2>1. /\ answer' = [answer EXCEPT ![p] = y] /\ GoOn(p, "release") /\ byRequest' = byRequest
    BY <1>4 DEF LookUpRequest, Leave
  <2>2. y \in Posts \cup {NoPost} /\ (y # NoPost => want[y] = want[p])
    BY <1>2, KeyFacts DEF AdmissionInv
  <2>3. "release" \notin Unsaved \cup Seeking
    BY DEF Unsaved, Seeking
  <2> HIDE DEF y
  <2>4. QED
    BY <1>1, <1>2, <1>3, <2>1, <2>2, <2>3, IndexesPreserve
<1>5. CASE ~(Billed(p) /\ j # NoPost /\ Repeats(j))
  <2>1. /\ answer' = answer /\ GoOn(p, "content")
        /\ byRequest' = IF Billed(p) THEN [byRequest EXCEPT ![key] = NoPost] ELSE byRequest
    BY <1>5 DEF LookUpRequest
  <2>2. Billed(p) => byRequest'[key] = NoPost
    BY <1>2, <2>1 DEF AdmissionInv, ShapeInv
  <2>3. ASSUME NEW q \in Posts, Working(q), Billed(q), RequestKey(q) = key, stage[q] = "gone"
        PROVE  FALSE
    <3>1. byRequest[key] = q /\ Billed(p)
      BY <2>3, KeyFacts DEF AdmissionInv, KnownInv
    <3>2. QED
      BY <1>2, <1>5, <2>3, <3>1 DEF Repeats
  <2> HIDE DEF key, j
  <2>4. \A q \in Posts : q # p /\ Working(q) /\ Billed(q) /\ RequestKey(q) = RequestKey(p)
                            /\ stage[q] = "gone" => UNCHANGED byRequest
    BY <2>3 DEF key
  <2>5. QED
    BY <1>1, <1>3, <2>1, <2>2, <2>4, IndexesPreserve DEF key
<1>6. QED
  BY <1>4, <1>5

\* A POST that has looked its request up is the only one of it that counts.
LEMMA NobodyElse ==
    ASSUME AdmissionInv, NEW p \in Posts, stage[p] \in Seeking, NEW q \in Posts, q # p,
           Working(q), Billed(q), RequestKey(q) = RequestKey(p), stage[q] = "gone"
    PROVE  FALSE
<1>1. byRequest[RequestKey(p)] = q
  BY DEF AdmissionInv, KnownInv
<1>2. byRequest[RequestKey(p)] = NoPost
  BY KeyFacts DEF AdmissionInv, ClearInv
<1>3. QED
  BY <1>1, <1>2, KeyFacts DEF AdmissionInv

LEMMA LookUpContentPreserves ==
    ASSUME AdmissionInv, NEW p \in Posts, LookUpContent(p)
    PROVE  AdmissionInv'
<1> DEFINE j == byContent[ContentKey(p)]
<1>1. /\ UNCHANGED <<want, holder, jobs, byContent>>
      /\ stage[p] = "content" /\ ~Working(p) /\ stage[p] \in Locked /\ stage[p] \in Seeking
  BY DEF LookUpContent, AtStage, AdmissionInv, UnsavedInv, Unsaved, Locked, Seeking
<1>2. /\ j \in Posts \cup {NoPost} /\ NoPost \notin Posts
      /\ j # NoPost => ContentKey(j) = ContentKey(p)
  BY KeyFacts DEF AdmissionInv, ShapeInv, IndexInv
<1>3. /\ {"release", "quota"} \subseteq Places \cap Locked
      /\ "quota" \in Seeking /\ "release" \notin Seeking
  BY DEF Places, Locked, Seeking
<1>4. \A q \in Posts : q # p /\ Working(q) /\ Billed(q) /\ RequestKey(q) = RequestKey(p)
                          /\ stage[q] = "gone" => UNCHANGED byRequest
  BY <1>1, NobodyElse
<1>5. CASE j # NoPost /\ (~Billed(p) \/ want[j].request = want[p].request) /\ Repeats(j)
  <2>1. /\ answer' = [answer EXCEPT ![p] = j] /\ GoOn(p, "release")
        /\ byRequest' = byRequest \/ byRequest' = [byRequest EXCEPT ![RequestKey(p)] = j]
    BY <1>5 DEF LookUpContent, Leave
  <2>2. want[j] = want[p] /\ RequestKey(j) = RequestKey(p)
    BY <1>2, <1>5, KeyFacts DEF AdmissionInv, RequestKey
  <2> HIDE DEF j
  <2>3. QED
    BY <1>1, <1>2, <1>3, <1>4, <2>1, <2>2, IndexesPreserve
<1>6. CASE ~(j # NoPost /\ (~Billed(p) \/ want[j].request = want[p].request) /\ Repeats(j))
  <2>1. /\ answer' = answer /\ byRequest' = byRequest /\ GoOn(p, "quota")
    BY <1>6 DEF LookUpContent
  <2>2. Billed(p) => byRequest'[RequestKey(p)] = NoPost
    BY <1>1, <2>1 DEF AdmissionInv, ClearInv
  <2>3. QED
    BY <1>1, <1>2, <1>3, <2>1, <2>2, IndexesPreserve
<1>7. QED
  BY <1>5, <1>6

LEMMA IndexRequestPreserves ==
    ASSUME AdmissionInv, NEW p \in Posts, IndexRequest(p)
    PROVE  AdmissionInv'
<1>1. /\ UNCHANGED <<want, holder, jobs, byContent>>
      /\ stage[p] \in Locked /\ stage[p] \in Seeking
      /\ answer' = [answer EXCEPT ![p] = p] /\ GoOn(p, "release")
      /\ byRequest' = IF Billed(p) THEN [byRequest EXCEPT ![RequestKey(p)] = p] ELSE byRequest
  BY DEF IndexRequest, AtStage, Leave, Locked, Seeking
<1>2. "release" \in Places /\ "release" \in Locked /\ "release" \notin Unsaved \cup Seeking
  BY DEF Places, Locked, Seeking, Unsaved
<1>3. \A q \in Posts : q # p /\ Working(q) /\ Billed(q) /\ RequestKey(q) = RequestKey(p)
                          /\ stage[q] = "gone" => UNCHANGED byRequest
  BY <1>1, NobodyElse
<1>4. Billed(p) => byRequest'[RequestKey(p)] = p
  BY <1>1, KeyFacts DEF AdmissionInv, ShapeInv
<1>5. QED
  BY <1>1, <1>2, <1>3, <1>4, IndexesPreserve

-----------------------------------------------------------------------------
(* Results                                                                 *)

LEMMA StepPreserves == AdmissionInv /\ [AdmissionNext]_admissionVars => AdmissionInv'
<1> SUFFICES ASSUME AdmissionInv, [AdmissionNext]_admissionVars PROVE AdmissionInv'
  OBVIOUS
<1>1. ASSUME NEW p \in Posts, Submit(p) PROVE AdmissionInv'
  BY <1>1, LockPreserves, LookUpRequestPreserves, LookUpContentPreserves, AdmittingPreserves,
     IndexRequestPreserves DEF Submit
<1>2. CASE LockExpires
  BY <1>2, ExpiryPreserves
<1>3. QED
  BY <1>1, <1>2, WorkersPreserve DEF AdmissionNext

\* The invariant holds for every number of POSTs and faults.
THEOREM AdmissionInvariance == AdmissionSpec => []AdmissionInv
<1>1. QED
  BY InitEstablishes, StepPreserves, PTL DEF AdmissionSpec

\* A POST is only ever answered with a job that was asked for in its words.
THEOREM AnswersAlwaysAgree == AdmissionSpec => []AnswersAgree
<1>1. AdmissionInv => AnswersAgree
  BY DEF AdmissionInv
<1>2. QED
  BY <1>1, AdmissionInvariance, PTL

-----------------------------------------------------------------------------
(* Where attempts are                                                      *)

QueueInv == queue \in Seq(Posts) /\ taken \subseteq Posts /\ started \subseteq Posts

RecordInv == \A p \in Posts : stage[p] \in Unsaved => jobs[p].state = "none"

\* A job whose maker got past the queue is in it until it ends.
CarriedInv ==
    \A j \in Posts : Working(j) /\ stage[j] \in {"indexrequest", "release", "gone"} => j \in Pending

\* What a POST is answered with has been admitted.
AdmittedInv ==
    \A p \in Posts : answer[p] # NoPost => stage[answer[p]] \in {"release", "gone", "killed"}

AttemptInv == QueueInv /\ RecordInv /\ CarriedInv /\ AdmittedInv

LEMMA AppendFacts ==
    ASSUME NEW q \in Seq(Posts), NEW j \in Posts
    PROVE  Append(q, j) \in Seq(Posts) /\ ToSet(Append(q, j)) = ToSet(q) \cup {j}
<1>1. /\ Append(q, j) \in Seq(Posts) /\ Len(Append(q, j)) = Len(q) + 1
      /\ \A i \in 1..Len(q) : Append(q, j)[i] = q[i]
      /\ Append(q, j)[Len(q) + 1] = j
      /\ DOMAIN q = 1..Len(q) /\ DOMAIN Append(q, j) = 1..Len(q) + 1
      /\ Len(q) \in Nat
  OBVIOUS
<1>2. QED
  BY <1>1 DEF ToSet

LEMMA TailFacts ==
    ASSUME NEW q \in Seq(Posts), q # <<>>
    PROVE  /\ Tail(q) \in Seq(Posts) /\ Head(q) \in Posts
           /\ ToSet(q) = {Head(q)} \cup ToSet(Tail(q))
<1>1. /\ Tail(q) \in Seq(Posts) /\ Len(Tail(q)) = Len(q) - 1 /\ Head(q) = q[1]
      /\ \A i \in 1..Len(q) - 1 : Tail(q)[i] = q[i + 1]
      /\ DOMAIN q = 1..Len(q) /\ DOMAIN Tail(q) = 1..Len(q) - 1
      /\ Len(q) \in Nat /\ Len(q) > 0 /\ \A i \in 1..Len(q) : q[i] \in Posts
  OBVIOUS
<1>2. ASSUME NEW i \in 1..Len(q), q[i] # Head(q)
      PROVE  q[i] \in ToSet(Tail(q))
  <2>1. i - 1 \in 1..Len(q) - 1 /\ q[i] = Tail(q)[i - 1]
    BY <1>1, <1>2
  <2>2. QED
    BY <1>1, <2>1 DEF ToSet
<1>3. ToSet(q) \subseteq {Head(q)} \cup ToSet(Tail(q))
  BY <1>1, <1>2 DEF ToSet
<1>4. Head(q) \in ToSet(q) /\ Head(q) \in Posts
  BY <1>1 DEF ToSet
<1>5. ToSet(Tail(q)) \subseteq ToSet(q)
  BY <1>1 DEF ToSet
<1>6. QED
  BY <1>1, <1>3, <1>4, <1>5

\* What RemoveAt leaves: everything but the one element, in order.
LEMMA RemoveElements ==
    ASSUME NEW q \in Seq(Posts), NEW i \in DOMAIN q
    PROVE  /\ RemoveAt(q, i) \in Seq(Posts) /\ DOMAIN RemoveAt(q, i) = 1..Len(q) - 1
           /\ \A k \in 1..Len(q) - 1 : RemoveAt(q, i)[k] = q[IF k < i THEN k ELSE k + 1]
<1> DEFINE front == SubSeq(q, 1, i - 1)
           rest == SubSeq(q, i + 1, Len(q))
           both == front \o rest
           from(k) == IF k < i THEN k ELSE k + 1
<1>1. DOMAIN q = 1..Len(q) /\ Len(q) \in Nat /\ i \in 1..Len(q)
  OBVIOUS
<1>2. /\ front \in Seq(Posts) /\ Len(front) = i - 1
      /\ \A k \in 1..i - 1 : front[k] = q[k]
  BY <1>1, SubSeqProperties
<1>3. /\ rest \in Seq(Posts) /\ Len(rest) = Len(q) - i
      /\ \A k \in 1..Len(q) - i : rest[k] = q[i + k]
  <2>1. /\ rest \in Seq(Posts) /\ Len(rest) = IF i + 1 <= Len(q) THEN Len(q) - (i + 1) + 1 ELSE 0
        /\ \A k \in 1..Len(q) - (i + 1) + 1 : rest[k] = q[i + 1 + k - 1]
    BY <1>1, SubSeqProperties
  <2>2. ASSUME NEW k \in 1..Len(q) - i
        PROVE  rest[k] = q[i + k]
    <3>1. k \in 1..Len(q) - (i + 1) + 1 /\ i + 1 + k - 1 = i + k
      BY <1>1, <2>2
    <3>2. QED
      BY <2>1, <3>1
  <2>3. Len(rest) = Len(q) - i
    BY <1>1, <2>1
  <2>4. QED
    BY <2>1, <2>2, <2>3
<1> HIDE DEF front, rest
<1>4. /\ both \in Seq(Posts) /\ Len(both) = Len(front) + Len(rest)
      /\ \A k \in 1..Len(front) + Len(rest) :
            both[k] = IF k <= Len(front) THEN front[k] ELSE rest[k - Len(front)]
  BY <1>2, <1>3, ConcatProperties
<1> HIDE DEF both
<1>5. DOMAIN both = 1..Len(q) - 1
  BY <1>1, <1>2, <1>3, <1>4
<1>6. ASSUME NEW k \in 1..Len(q) - 1
      PROVE  from(k) \in 1..Len(q) /\ both[k] = q[from(k)]
  <2>1. from(k) \in 1..Len(q)
    BY <1>1
  <2>2. CASE k < i
    <3>1. k \in 1..Len(front) + Len(rest) /\ k <= Len(front) /\ k \in 1..i - 1
      BY <1>1, <1>2, <1>3, <2>2
    <3>2. both[k] = front[k] /\ front[k] = q[k]
      BY <1>2, <1>4, <3>1
    <3>3. from(k) = k
      BY <2>2
    <3>4. QED
      BY <2>1, <3>2, <3>3
  <2>3. CASE ~(k < i)
    <3>1. /\ k \in 1..Len(front) + Len(rest) /\ ~(k <= Len(front))
          /\ k - Len(front) = k - (i - 1) /\ k - (i - 1) \in 1..Len(q) - i
          /\ i + (k - (i - 1)) = k + 1
      <4>1. Len(front) = i - 1 /\ Len(rest) = Len(q) - i /\ i \in Nat /\ Len(q) \in Nat
        BY <1>1, <1>2, <1>3
      <4>2. k \in 1..Len(q) - 1 /\ k >= i
        BY <1>1, <2>3
      <4> QED BY <4>1, <4>2
    <3>2. both[k] = rest[k - (i - 1)]
      BY <1>4, <3>1
    <3>3. rest[k - (i - 1)] = q[i + (k - (i - 1))]
      BY <1>3, <3>1
    <3>4. from(k) = k + 1
      BY <2>3
    <3>5. QED
      BY <2>1, <3>1, <3>2, <3>3, <3>4
  <2>4. QED
    BY <2>1, <2>2, <2>3
<1>7. QED
  BY <1>4, <1>5, <1>6 DEF RemoveAt, both, front, rest

LEMMA RemoveFacts ==
    ASSUME NEW q \in Seq(Posts), NEW i \in DOMAIN q
    PROVE  /\ RemoveAt(q, i) \in Seq(Posts)
           /\ ToSet(q) \subseteq {q[i]} \cup ToSet(RemoveAt(q, i))
           /\ ToSet(RemoveAt(q, i)) \subseteq ToSet(q)
<1> DEFINE left == RemoveAt(q, i)
<1>1. /\ DOMAIN q = 1..Len(q) /\ Len(q) \in Nat /\ i \in 1..Len(q)
      /\ left \in Seq(Posts) /\ DOMAIN left = 1..Len(q) - 1
      /\ \A k \in 1..Len(q) - 1 : left[k] = q[IF k < i THEN k ELSE k + 1]
  BY RemoveElements
<1> HIDE DEF left
<1>2. ASSUME NEW k \in 1..Len(q), k # i PROVE q[k] \in ToSet(left)
  <2>1. CASE k < i
    <3>1. k \in 1..Len(q) - 1
      BY <1>1, <2>1
    <3>2. QED
      BY <1>1, <2>1, <3>1 DEF ToSet
  <2>2. CASE k > i
    <3>1. k - 1 \in 1..Len(q) - 1 /\ ~(k - 1 < i) /\ (k - 1) + 1 = k
      BY <1>1, <2>2
    <3>2. left[k - 1] = q[k]
      BY <1>1, <3>1
    <3>3. QED
      BY <1>1, <3>1, <3>2 DEF ToSet
  <2>3. QED
    BY <1>1, <1>2, <2>1, <2>2
<1>3. ASSUME NEW k \in 1..Len(q) - 1 PROVE left[k] \in ToSet(q)
  <2>1. (IF k < i THEN k ELSE k + 1) \in 1..Len(q)
    BY <1>1
  <2>2. QED
    BY <1>1, <2>1 DEF ToSet
<1>4. ToSet(q) \subseteq {q[i]} \cup ToSet(left)
  BY <1>1, <1>2 DEF ToSet
<1>5. ToSet(left) \subseteq ToSet(q)
  BY <1>1, <1>3 DEF ToSet
<1>6. QED
  BY <1>1, <1>4, <1>5 DEF left

\* Attempts move, and leave only with the end of their job.
AttemptsMove ==
    /\ QueueInv' /\ UNCHANGED <<stage, answer>>
    /\ \A j \in Posts : /\ Working(j)' => Working(j) /\ (j \in Pending => j \in Pending')
                        /\ jobs[j].state = "none" => jobs'[j].state = "none"

LEMMA AttemptsMovePreserve == ASSUME AdmissionInv, AttemptInv, AttemptsMove PROVE AttemptInv'
BY DEF AttemptsMove, AttemptInv, RecordInv, CarriedInv, AdmittedInv

LEMMA TakePreserves ==
    ASSUME AdmissionInv, AttemptInv, \/ Take \/ \E j \in Posts : Register(j) \/ Retry(j)
    PROVE  AttemptsMove
<1>1. queue \in Seq(Posts) /\ taken \subseteq Posts /\ started \subseteq Posts
  BY DEF AttemptInv, QueueInv
<1>2. UNCHANGED <<stage, answer, jobs>>
  BY DEF Take, Register, Retry, submissionVars, recordVars
<1>3. CASE Take
  BY <1>1, <1>2, <1>3, TailFacts DEF Take, AttemptsMove, QueueInv, Pending, Working
<1>4. ASSUME NEW j \in Posts, Register(j) PROVE AttemptsMove
  BY <1>1, <1>2, <1>4 DEF Register, AttemptsMove, QueueInv, Pending, Working
<1>5. ASSUME NEW j \in Posts, Retry(j) PROVE AttemptsMove
  BY <1>1, <1>2, <1>5, AppendFacts DEF Retry, AttemptsMove, QueueInv, Pending, Working
<1>6. QED
  BY <1>3, <1>4, <1>5

LEMMA EndsPreserve ==
    ASSUME AdmissionInv, AttemptInv, NEW j \in Posts,
           \/ Cancel(j) \/ ExpireRecord(j) \/ LoseResult(j)
           \/ \E state \in {"done", "failed"} : EndAttempt(j, state)
    PROVE  AttemptsMove
<1>1. /\ queue \in Seq(Posts) /\ taken \subseteq Posts /\ started \subseteq Posts
      /\ jobs \in [Posts -> Records]
  BY DEF AttemptInv, QueueInv, AdmissionInv, ShapeInv
<1>2. CASE Cancel(j)
  <2>1. queue' \in Seq(Posts) /\ ToSet(queue) \subseteq {j} \cup ToSet(queue')
    BY <1>1, <1>2, RemoveFacts DEF Cancel
  <2>2. /\ UNCHANGED <<stage, answer, taken, started>> /\ Working(j)
        /\ jobs' = [jobs EXCEPT ![j] = [state |-> "failed", result |-> FALSE]]
    BY <1>2 DEF Cancel, submissionVars
  <2>3. QED
    BY <1>1, <2>1, <2>2 DEF AttemptsMove, QueueInv, Pending, Working
<1>3. CASE ExpireRecord(j) \/ LoseResult(j)
  <2>1. /\ UNCHANGED <<stage, answer, queue, taken, started>>
        /\ \A i \in Posts : /\ Working(i)' => Working(i)
                            /\ jobs[i].state = "none" => jobs'[i].state = "none"
    BY <1>1, <1>3 DEF ExpireRecord, LoseResult, Available, NoRecord, Records, Working,
       submissionVars, workerVars
  <2>2. QED
    BY <1>1, <2>1 DEF AttemptsMove, QueueInv, Pending
<1>4. ASSUME NEW state \in {"done", "failed"}, EndAttempt(j, state) PROVE AttemptsMove
  <2> DEFINE x == [state |-> state, result |-> state = "done"]
  <2>1. x.state = state
    OBVIOUS
  <2>2. /\ UNCHANGED <<stage, answer, queue, taken>> /\ started' = started \ {j}
        /\ jobs' = IF Working(j) THEN [jobs EXCEPT ![j] = x] ELSE jobs
    BY <1>4 DEF EndAttempt, submissionVars
  <2> HIDE DEF x
  <2>3. QED
    BY <1>1, <2>1, <2>2 DEF AttemptsMove, QueueInv, Pending, Working
<1>5. QED
  BY <1>2, <1>3, <1>4

Admitted == {"release", "gone", "killed"}

LEMMA SubmitsPreserve ==
    ASSUME AdmissionInv, AttemptInv, NEW p \in Posts, NEW place \in Places, GoOn(p, place),
           UNCHANGED <<queue, taken, started>>,
           \A q \in Posts : q # p => jobs'[q] = jobs[q],
           NEW x \in Posts \cup {NoPost},
           answer' = answer \/ answer' = [answer EXCEPT ![p] = x],
           x # NoPost => stage'[x] \in Admitted,
           stage[p] \in Admitted => place \in Admitted,
           place \in Unsaved => stage[p] \in Unsaved /\ UNCHANGED jobs,
           place \in {"indexrequest", "release", "gone"} /\ Working(p)' =>
               Working(p) /\ stage[p] \in {"indexrequest", "release"}
    PROVE  AttemptInv'
<1>1. \A q \in Posts : stage'[q] = IF q = p THEN place ELSE stage[q]
  BY Stages DEF AdmissionInv
<1>2. QueueInv' /\ Pending' = Pending
  BY DEF AttemptInv, QueueInv, Pending
<1>3. RecordInv'
  BY <1>1 DEF AttemptInv, RecordInv
<1>4. CarriedInv'
  BY <1>1, <1>2 DEF AttemptInv, CarriedInv, Working
<1>5. AdmittedInv'
  BY <1>1 DEF AttemptInv, AdmittedInv, Admitted, AdmissionInv, ShapeInv
<1>6. QED
  BY <1>2, <1>3, <1>4, <1>5 DEF AttemptInv

\* A job that a look-up finds has been admitted.
LEMMA FoundIsAdmitted ==
    ASSUME AdmissionInv, AttemptInv, NEW p \in Posts, stage[p] \in {"request", "content"},
           NEW j \in Posts, Repeats(j)
    PROVE  j # p /\ stage[j] \in {"gone", "killed"}
<1>1. stage[j] \notin Unsaved
  BY DEF AttemptInv, RecordInv, Repeats, Working, Available
<1>2. stage[p] \in Locked /\ stage[p] \in Unsaved
  BY DEF Locked, Seeking, Unsaved
<1>3. stage[j] \notin Locked
  BY <1>1, <1>2, Alone
<1>4. QED
  BY <1>1, <1>2, <1>3 DEF AdmissionInv, ShapeInv, Places, Locked, Seeking, Unsaved

LEMMA LookUpsAdmit ==
    ASSUME AdmissionInv, AttemptInv, NEW p \in Posts, LookUpRequest(p) \/ LookUpContent(p)
    PROVE  AttemptInv'
<1>1. /\ UNCHANGED <<queue, taken, started, jobs>> /\ ~Working(p)'
      /\ stage[p] \in {"request", "content"} /\ stage[p] \in Unsaved /\ stage[p] \notin Admitted
  BY DEF LookUpRequest, LookUpContent, workerVars, AtStage, AdmissionInv, UnsavedInv, Unsaved, Admitted,
     Working
<1>2. /\ byRequest[RequestKey(p)] \in Posts \cup {NoPost}
      /\ byContent[ContentKey(p)] \in Posts \cup {NoPost}
  BY KeyFacts DEF AdmissionInv, ShapeInv
<1>3. /\ {"release", "content", "quota"} \subseteq Places /\ "release" \notin Unsaved
  BY DEF Places, Unsaved
<1>4. ASSUME NEW y \in Posts \cup {NoPost}, y # NoPost => Repeats(y), Leave(p, y)
      PROVE  AttemptInv'
  <2>1. GoOn(p, "release") /\ answer' = [answer EXCEPT ![p] = y]
    BY <1>4 DEF Leave
  <2>2. y # NoPost => stage'[y] \in Admitted
    BY <1>1, <1>3, <1>4, <2>1, FoundIsAdmitted, Stages DEF Admitted, AdmissionInv
  <2>3. QED
    BY <1>1, <1>3, <2>1, <2>2, SubmitsPreserve
<1>5. ASSUME NEW place \in {"content", "quota"}, GoOn(p, place), answer' = answer
      PROVE  AttemptInv'
  <2>1. NoPost \in Posts \cup {NoPost} /\ place \notin {"indexrequest", "release", "gone"}
    OBVIOUS
  <2>2. QED
    BY <1>1, <1>3, <1>5, <2>1, SubmitsPreserve
<1>6. CASE LookUpRequest(p)
  <2> DEFINE j == byRequest[RequestKey(p)]
  <2>1. CASE Billed(p) /\ j # NoPost /\ Repeats(j)
    BY <1>2, <1>4, <1>6, <2>1 DEF LookUpRequest
  <2>2. CASE ~(Billed(p) /\ j # NoPost /\ Repeats(j))
    BY <1>5, <1>6, <2>2 DEF LookUpRequest
  <2>3. QED
    BY <2>1, <2>2
<1>7. CASE LookUpContent(p)
  <2>1. \/ Leave(p, byContent[ContentKey(p)]) /\ Repeats(byContent[ContentKey(p)])
        \/ GoOn(p, "quota") /\ answer' = answer
    BY <1>7 DEF LookUpContent
  <2>2. QED
    BY <1>2, <1>4, <1>5, <2>1
<1>8. QED
  BY <1>6, <1>7

LEMMA EnqueueAdmits ==
    ASSUME AdmissionInv, AttemptInv, NEW p \in Posts, Enqueue(p)
    PROVE  AttemptInv'
<1>1. /\ UNCHANGED <<answer, jobs, taken, started>> /\ queue' = Append(queue, p)
      /\ stage[p] = "enqueue" /\ GoOn(p, "indexrequest")
  BY DEF Enqueue, recordVars, AtStage
<1>2. "indexrequest" \in Places /\ "indexrequest" \notin Unsaved
  BY DEF Places, Unsaved
<1>3. \A q \in Posts : stage'[q] = IF q = p THEN "indexrequest" ELSE stage[q]
  BY <1>1, <1>2, Stages DEF AdmissionInv
<1>4. /\ QueueInv' /\ Pending \subseteq Pending' /\ p \in Pending'
  BY <1>1, AppendFacts DEF AttemptInv, QueueInv, Pending
<1>5. RecordInv' /\ CarriedInv' /\ AdmittedInv'
  BY <1>1, <1>2, <1>3, <1>4 DEF AttemptInv, RecordInv, CarriedInv, AdmittedInv, Working, AdmissionInv,
     ShapeInv
<1>6. QED
  BY <1>4, <1>5 DEF AttemptInv

LEMMA OthersAdmit ==
    ASSUME AdmissionInv, AttemptInv, NEW p \in Posts,
           \/ Acquire(p) \/ GiveUp(p) \/ CheckUser(p) \/ CountQueued(p) \/ CheckRoom(p)
           \/ SaveRecord(p) \/ IndexContent(p) \/ JoinUser(p) \/ IndexRequest(p)
           \/ EnqueueRaises(p) \/ Release(p) \/ Kill(p)
    PROVE  AttemptInv'
<1>1. /\ UNCHANGED <<queue, taken, started>>
      /\ NoPost \in Posts \cup {NoPost} /\ NoPost \notin Posts
  BY KeyFacts DEF Acquire, GiveUp, CheckUser, CountQueued, CheckRoom, SaveRecord, IndexContent, JoinUser,
     IndexRequest, EnqueueRaises, Release, Kill, workerVars, AdmissionInv
<1>2. CASE SaveRecord(p)
  <2>1. /\ GoOn(p, "index") /\ answer' = answer
        /\ jobs' = [jobs EXCEPT ![p] = [state |-> "working", result |-> FALSE]]
        /\ stage[p] = "save"
    BY <1>2 DEF SaveRecord, AtStage
  <2>2. "index" \in Places /\ "index" \notin Unsaved /\ "save" \notin Admitted
    BY DEF Places, Unsaved, Admitted
  <2>3. \A q \in Posts : q # p => jobs'[q] = jobs[q]
    BY <2>1 DEF AdmissionInv, ShapeInv
  <2>4. QED
    BY <1>1, <2>1, <2>2, <2>3, SubmitsPreserve
<1>3. CASE EnqueueRaises(p)
  <2>1. /\ GoOn(p, "release") /\ answer' = [answer EXCEPT ![p] = NoPost]
        /\ jobs' = [jobs EXCEPT ![p] = [state |-> "failed", result |-> FALSE]]
    BY <1>3 DEF EnqueueRaises, Abandon, Leave
  <2>2. "release" \in Places /\ "release" \notin Unsaved /\ "release" \in Admitted
    BY DEF Places, Unsaved, Admitted
  <2>3. ~Working(p)' /\ \A q \in Posts : q # p => jobs'[q] = jobs[q]
    BY <2>1 DEF AdmissionInv, ShapeInv, Working
  <2>4. QED
    BY <1>1, <2>1, <2>2, <2>3, SubmitsPreserve
<1>4. CASE IndexRequest(p)
  <2>1. /\ GoOn(p, "release") /\ answer' = [answer EXCEPT ![p] = p] /\ jobs' = jobs
        /\ stage[p] = "indexrequest"
    BY <1>4 DEF IndexRequest, AtStage, Leave
  <2>2. "release" \in Places /\ "release" \notin Unsaved /\ "release" \in Admitted
    BY DEF Places, Unsaved, Admitted
  <2>3. stage'[p] = "release"
    BY <2>1, <2>2, Stages DEF AdmissionInv
  <2>4. Working(p)' => Working(p)
    BY <2>1 DEF Working
  <2>5. QED
    BY <1>1, <2>1, <2>2, <2>3, <2>4, SubmitsPreserve
<1>5. CASE \/ Acquire(p) \/ GiveUp(p) \/ CheckUser(p) \/ CountQueued(p) \/ CheckRoom(p)
           \/ IndexContent(p) \/ JoinUser(p) \/ Release(p) \/ Kill(p)
  <2>1. PICK place \in {"request", "gone", "backlog", "room", "save", "join", "enqueue",
                        "release", "killed"} :
           /\ GoOn(p, place) /\ UNCHANGED jobs
           /\ answer' = answer \/ answer' = [answer EXCEPT ![p] = NoPost]
           /\ place \in Unsaved \cup {"release"} => stage[p] \in Unsaved
           /\ place = "gone" => stage[p] \in Unsaved \cup {"release"}
           /\ stage[p] \in Admitted => place \in Admitted
    BY <1>5 DEF Acquire, GiveUp, CheckUser, CountQueued, CheckRoom, IndexContent, JoinUser, Release,
       Kill, recordVars, Leave, AtStage, Unsaved, Admitted
  <2>2. place \in Places
    BY DEF Places
  <2>3. place \in {"indexrequest", "release", "gone"} /\ Working(p)' =>
           Working(p) /\ stage[p] = "release"
    BY <2>1 DEF AdmissionInv, UnsavedInv, Working
  <2>4. QED
    BY <1>1, <2>1, <2>2, <2>3, SubmitsPreserve
<1>6. QED
  BY <1>2, <1>3, <1>4, <1>5

LEMMA AttemptStep == AdmissionInv /\ AttemptInv /\ [AdmissionNext]_admissionVars => AttemptInv'
<1> SUFFICES ASSUME AdmissionInv, AttemptInv, [AdmissionNext]_admissionVars PROVE AttemptInv'
  OBVIOUS
<1>1. ASSUME NEW p \in Posts, Submit(p) PROVE AttemptInv'
  BY <1>1, LookUpsAdmit, EnqueueAdmits, OthersAdmit DEF Submit
<1>2. CASE LockExpires \/ UNCHANGED admissionVars
  <2>1. UNCHANGED <<stage, answer, jobs, queue, taken, started>>
    BY <1>2 DEF LockExpires, admissionVars, submissionVars, recordVars, workerVars
  <2>2. AttemptsMove
    BY <2>1 DEF AttemptsMove, AttemptInv, QueueInv, Pending, Working
  <2>3. QED
    BY <2>2, AttemptsMovePreserve
<1>3. CASE \/ Take
           \/ \E j \in Posts : \/ Register(j) \/ Retry(j) \/ Cancel(j)
                               \/ ExpireRecord(j) \/ LoseResult(j)
                               \/ \E state \in {"done", "failed"} : EndAttempt(j, state)
  BY <1>3, TakePreserves, EndsPreserve, AttemptsMovePreserve
<1>4. QED
  BY <1>1, <1>2, <1>3 DEF AdmissionNext

LEMMA AttemptInit == AdmissionInit => AttemptInv
<1> SUFFICES ASSUME AdmissionInit PROVE AttemptInv
  OBVIOUS
<1>1. \A p \in Posts : /\ answer[p] = NoPost /\ ~Working(p) /\ jobs[p].state = "none"
  BY DEF AdmissionInit, NoRecord, Working
<1>2. queue \in Seq(Posts) /\ taken = {} /\ started = {}
  BY DEF AdmissionInit
<1>3. QED
  BY <1>1, <1>2 DEF AttemptInv, QueueInv, RecordInv, CarriedInv, AdmittedInv

\* Attempts are where the steps leave them, for every number of POSTs.
THEOREM AttemptInvariance == AdmissionSpec => []AttemptInv
<1>1. QED
  BY AttemptInit, AttemptStep, AdmissionInvariance, PTL DEF AdmissionSpec

\* Whatever interleaves with the submissions, a job that a POST was told of
\* and that has not ended is in the queue or with a worker, unless its maker
\* was killed.
THEOREM AnsweredAlwaysCarriedOut == AdmissionSpec => []AnsweredIsCarriedOut
<1>1. AdmissionInv /\ AttemptInv => AnsweredIsCarriedOut
  <2> SUFFICES ASSUME AdmissionInv, AttemptInv, NEW p \in Posts, answer[p] # NoPost, Working(answer[p])
               PROVE  answer[p] \in Pending \/ AtStage(answer[p], "killed")
    BY DEF AnsweredIsCarriedOut
  <2>1. answer[p] \in Posts
    BY DEF AdmissionInv, ShapeInv
  <2>2. QED
    BY <2>1 DEF AttemptInv, CarriedInv, AdmittedInv, AtStage
<1>2. QED
  BY <1>1, AdmissionInvariance, AttemptInvariance, PTL

\* For any number of repetitions, cancellations and expiries, no two attempts
\* work on one request id, unless the maker of one was killed.
THEOREM RequestsWorkedOnce == AdmissionSpec => []OneAttemptPerRequest
<1>1. AdmissionInv /\ AttemptInv => OneAttemptPerRequest
  <2> SUFFICES ASSUME AdmissionInv, AttemptInv, NEW i \in Pending, NEW j \in Pending, i # j,
                      Working(i), Working(j), Billed(i), RequestKey(i) = RequestKey(j),
                      stage[i] # "killed", stage[j] # "killed"
               PROVE  FALSE
    BY DEF OneAttemptPerRequest, AtStage
  <2>1. i \in Posts /\ j \in Posts
    <3>1. queue \in Seq(Posts) => ToSet(queue) \subseteq Posts
      BY DEF ToSet
    <3>2. QED
      BY <3>1 DEF AttemptInv, QueueInv, Pending
  <2>2. /\ Billed(j) /\ byRequest[RequestKey(i)] \in Posts \cup {NoPost} /\ NoPost \notin Posts
        /\ stage[i] \in Places \ Unsaved /\ stage[j] \in Places \ Unsaved
    BY <2>1, KeyFacts DEF AdmissionInv, ShapeInv, UnsavedInv
  <2>3. /\ stage[i] \in Seeking \cup {"release", "gone"}
        /\ stage[j] \in Seeking \cup {"release", "gone"}
    BY <2>2 DEF Places, Unsaved, Seeking
  <2>4. CASE stage[i] \in {"release", "gone"} /\ stage[j] \in {"release", "gone"}
    BY <2>1, <2>2, <2>4 DEF AdmissionInv, KnownInv
  <2>5. CASE stage[i] \in Seeking
    <3>1. stage[j] \notin Locked
      BY <2>1, <2>5, Alone DEF Locked
    <3>2. stage[j] = "gone"
      BY <2>3, <3>1 DEF Locked
    <3>3. QED
      BY <2>1, <2>2, <2>5, <3>2, NobodyElse
  <2>6. CASE stage[j] \in Seeking
    <3>1. stage[i] \notin Locked
      BY <2>1, <2>6, Alone DEF Locked
    <3>2. stage[i] = "gone"
      BY <2>3, <3>1 DEF Locked
    <3>3. QED
      BY <2>1, <2>2, <2>6, <3>2, NobodyElse
  <2>7. QED
    BY <2>3, <2>4, <2>5, <2>6
<1>2. QED
  BY <1>1, AdmissionInvariance, AttemptInvariance, PTL

-----------------------------------------------------------------------------
(* The capacities                                                          *)

\* The jobs WithinCapacity counts for a user.
Counted(u) ==
    {j \in Posts : /\ Working(j) /\ want[j].user = u
                   /\ j \in userJobs[u] \/ ~AtStage(j, "killed")}

\* A job that works is counted for its user from then on.
JoinedInv ==
    /\ userJobs \in [Users -> SUBSET Posts]
    /\ \A j \in Posts : Working(j) /\ stage[j] \in {"enqueue", "indexrequest", "release", "gone"} =>
          j \in userJobs[want[j].user]

UserInv ==
    /\ \A u \in Users : Cardinality(Counted(u)) <= UserMaxActive
    /\ \A p \in Posts : stage[p] \in {"backlog", "room", "save"} =>
          Cardinality(Counted(want[p].user)) < UserMaxActive

\* The attempts a POST has not counted are with the workers.
BacklogInv ==
    /\ counted \in [Posts -> Nat]
    /\ Cardinality(taken \cup started) <= Workers
    /\ Cardinality(Pending) <= QueueMaxPending + Workers
    /\ \A p \in Posts :
          /\ stage[p] \in {"room", "save", "index", "join", "enqueue"} =>
                Cardinality(Pending) <= counted[p] + Workers
          /\ stage[p] \in {"save", "index", "join", "enqueue"} => counted[p] < QueueMaxPending

-----------------------------------------------------------------------------
(* Sizes                                                                   *)

LEMMA Sizes ==
    ASSUME AttemptInv
    PROVE  /\ IsFiniteSet(Posts) /\ Pending \subseteq Posts
           /\ \A S \in SUBSET Posts : IsFiniteSet(S) /\ Cardinality(S) \in Nat
           /\ \A S \in SUBSET Posts : \A T \in SUBSET S : Cardinality(T) <= Cardinality(S)
           /\ \A S \in SUBSET Posts : \A x : Cardinality(S \cup {x}) <= Cardinality(S) + 1
           /\ Len(queue) \in Nat
           /\ Cardinality(Pending) <= Len(queue) + Cardinality(taken \cup started)
<1>1. IsFiniteSet(Posts)
  BY AdmissionAssumption
<1>2. queue \in Seq(Posts) /\ taken \subseteq Posts /\ started \subseteq Posts
  BY DEF AttemptInv, QueueInv
<1>3. /\ Len(queue) \in Nat /\ DOMAIN queue = 1..Len(queue)
      /\ \A i \in 1..Len(queue) : queue[i] \in Posts
  BY <1>2
<1>4. ToSet(queue) \subseteq Posts
  BY <1>3 DEF ToSet
<1>5. ASSUME NEW S \in SUBSET Posts
      PROVE  /\ IsFiniteSet(S) /\ Cardinality(S) \in Nat
             /\ \A T \in SUBSET S : Cardinality(T) <= Cardinality(S)
             /\ \A x : Cardinality(S \cup {x}) <= Cardinality(S) + 1
  <2>1. IsFiniteSet(S)
    BY <1>1, FS_Subset
  <2>2. Cardinality(S) \in Nat
    BY <2>1, FS_CardinalityType
  <2>3. \A T \in SUBSET S : Cardinality(T) <= Cardinality(S)
    BY <2>1, FS_Subset
  <2>4. ASSUME NEW x PROVE Cardinality(S \cup {x}) <= Cardinality(S) + 1
    <3>1. Cardinality(S \cup {x}) = IF x \in S THEN Cardinality(S) ELSE Cardinality(S) + 1
      BY <2>1, FS_AddElement
    <3>2. QED
      BY <2>2, <3>1
  <2>5. QED
    BY <2>1, <2>2, <2>3, <2>4
<1>6. Cardinality(ToSet(queue)) <= Len(queue)
  <2>1. queue \in Surjection(1..Len(queue), ToSet(queue))
    BY <1>2, <1>3 DEF Surjection, ToSet
  <2>2. ExistsSurjection(1..Len(queue), ToSet(queue))
    BY <2>1 DEF ExistsSurjection
  <2>3. QED
    BY <1>3, <2>2, FS_SurjCardinalityBound
<1>7. Cardinality(Pending) <= Len(queue) + Cardinality(taken \cup started)
  <2>1. /\ ToSet(queue) \in SUBSET Posts /\ taken \cup started \in SUBSET Posts
        /\ ToSet(queue) \cap (taken \cup started) \in SUBSET Posts
        /\ Pending = ToSet(queue) \cup (taken \cup started)
    BY <1>2, <1>4 DEF Pending
  <2>2. Cardinality(Pending) = Cardinality(ToSet(queue)) + Cardinality(taken \cup started)
                                 - Cardinality(ToSet(queue) \cap (taken \cup started))
    BY <1>5, <2>1, FS_Union
  <2>3. /\ Cardinality(ToSet(queue)) \in Nat /\ Cardinality(taken \cup started) \in Nat
        /\ Cardinality(ToSet(queue) \cap (taken \cup started)) \in Nat
    BY <1>5, <2>1
  <2>4. QED
    BY <1>3, <1>6, <2>2, <2>3
<1>8. QED
  BY <1>1, <1>2, <1>3, <1>4, <1>5, <1>7 DEF Pending

-----------------------------------------------------------------------------
(* What waits and runs                                                     *)

LEMMA WorkersShrink ==
    ASSUME AttemptInv, AttemptInv', BacklogInv,
           \/ Take
           \/ \E j \in Posts : \/ Register(j) \/ Retry(j) \/ Cancel(j)
                               \/ ExpireRecord(j) \/ LoseResult(j)
                               \/ \E state \in {"done", "failed"} : EndAttempt(j, state)
    PROVE  /\ UNCHANGED <<stage, counted>> /\ Pending' \subseteq Pending
           /\ Cardinality(taken' \cup started') <= Workers
<1>1. queue \in Seq(Posts) /\ taken \subseteq Posts /\ started \subseteq Posts
  BY DEF AttemptInv, QueueInv
<1>2. UNCHANGED <<stage, counted>>
  BY DEF Take, Register, Retry, Cancel, ExpireRecord, LoseResult, EndAttempt, submissionVars
<1>3. CASE Take
  <2>1. /\ taken' = taken \cup {Head(queue)} /\ queue' = Tail(queue) /\ started' = started
        /\ ToSet(queue) = {Head(queue)} \cup ToSet(Tail(queue))
        /\ Cardinality(taken \cup started) < Workers
    BY <1>1, <1>3, TailFacts DEF Take
  <2>2. /\ taken' \cup started' = (taken \cup started) \cup {Head(queue)}
        /\ taken \cup started \in SUBSET Posts
    BY <1>1, <2>1
  <2>3. /\ Cardinality(taken \cup started) \in Nat
        /\ Cardinality(taken' \cup started') <= Cardinality(taken \cup started) + 1
    BY <2>2, Sizes
  <2>4. Cardinality(taken' \cup started') \in Nat
    <3>1. taken' \cup started' \in SUBSET Posts
      BY DEF AttemptInv, QueueInv
    <3>2. QED
      BY <3>1, Sizes
  <2>5. Cardinality(taken' \cup started') <= Workers
    BY <2>1, <2>3, <2>4, AdmissionAssumption
  <2>6. QED
    BY <1>2, <2>1, <2>5 DEF Pending
<1>4. ASSUME NEW j \in Posts,
             \/ Register(j) \/ Retry(j) \/ Cancel(j) \/ ExpireRecord(j) \/ LoseResult(j)
             \/ \E state \in {"done", "failed"} : EndAttempt(j, state)
      PROVE  /\ Pending' \subseteq Pending
             /\ Cardinality(taken' \cup started') <= Workers
  <2>1. taken' \cup started' \subseteq taken \cup started
    BY <1>4 DEF Register, Retry, Cancel, ExpireRecord, LoseResult, EndAttempt, workerVars
  <2>2. ToSet(queue') \subseteq Pending
    <3>1. CASE Cancel(j)
      <4>1. CASE queue' = queue
        BY <4>1 DEF Pending
      <4>2. ASSUME NEW i \in DOMAIN queue, queue' = RemoveAt(queue, i)
            PROVE  ToSet(queue') \subseteq Pending
        BY <1>1, <4>2, RemoveFacts DEF Pending
      <4>3. QED
        BY <3>1, <4>1, <4>2 DEF Cancel
    <3>2. CASE Retry(j)
      BY <1>1, <3>2, AppendFacts DEF Retry, Pending
    <3>3. CASE ~(Cancel(j) \/ Retry(j))
      BY <1>4, <3>3 DEF Register, ExpireRecord, LoseResult, EndAttempt, workerVars, Pending
    <3>4. QED
      BY <3>1, <3>2, <3>3
  <2>3. Cardinality(taken' \cup started') <= Cardinality(taken \cup started)
    BY <1>1, <2>1, Sizes
  <2>4. /\ Cardinality(taken' \cup started') \in Nat /\ Cardinality(taken \cup started) \in Nat
    <3>1. taken' \cup started' \in SUBSET Posts /\ taken \cup started \in SUBSET Posts
      BY <1>1, <2>1
    <3>2. QED
      BY <3>1, Sizes
  <2>5. QED
    BY <2>1, <2>2, <2>3, <2>4, AdmissionAssumption DEF Pending, BacklogInv
<1>5. QED
  BY <1>2, <1>3, <1>4

LEMMA ShrinkPreserves ==
    ASSUME AttemptInv, AttemptInv', BacklogInv, UNCHANGED <<stage, counted>>,
           Pending' \subseteq Pending, Cardinality(taken' \cup started') <= Workers
    PROVE  BacklogInv'
<1>1. Cardinality(Pending') <= Cardinality(Pending)
  BY Sizes
<1>2. Cardinality(Pending') \in Nat /\ Cardinality(Pending) \in Nat
  <2>1. Pending \in SUBSET Posts /\ Pending' \in SUBSET Posts
    BY Sizes
  <2>2. QED
    BY <2>1, Sizes
<1>3. \A p \in Posts : counted[p] \in Nat
  BY DEF BacklogInv
<1>4. QED
  BY <1>1, <1>2, <1>3, AdmissionAssumption DEF BacklogInv

\* A POST that goes on leaves the attempts alone.
LEMMA SteadyPreserves ==
    ASSUME AdmissionInv, AttemptInv, BacklogInv, NEW p \in Posts, NEW place \in Places, GoOn(p, place),
           UNCHANGED <<queue, taken, started>>,
           \/ UNCHANGED counted
           \/ place = "room" /\ counted' = [counted EXCEPT ![p] = Len(queue)],
           place \in {"save", "index", "join", "enqueue"} =>
              /\ stage[p] \in {"room", "save", "index", "join"} /\ counted[p] < QueueMaxPending
              /\ UNCHANGED counted,
           place = "room" => counted' = [counted EXCEPT ![p] = Len(queue)]
    PROVE  BacklogInv'
<1>1. \A q \in Posts : stage'[q] = IF q = p THEN place ELSE stage[q]
  BY Stages DEF AdmissionInv
<1>2. Pending' = Pending /\ Len(queue) \in Nat /\ Cardinality(Pending) \in Nat
  <2>1. Pending \in SUBSET Posts
    BY Sizes
  <2>2. QED
    BY <2>1, Sizes DEF Pending
<1>3. Cardinality(Pending) <= Len(queue) + Workers
  <2>1. Cardinality(taken \cup started) \in Nat
    <3>1. taken \cup started \in SUBSET Posts
      BY DEF AttemptInv, QueueInv
    <3>2. QED
      BY <3>1, Sizes
  <2>2. QED
    BY <1>2, <2>1, Sizes, AdmissionAssumption DEF BacklogInv
<1>4. counted' \in [Posts -> Nat] /\ \A q \in Posts : q # p => counted'[q] = counted[q]
  BY <1>2 DEF BacklogInv
<1>5. place = "room" => counted'[p] = Len(queue)
  BY DEF BacklogInv
<1>6. QED
  BY <1>1, <1>2, <1>3, <1>4, <1>5 DEF BacklogInv

LEMMA EnqueueFits ==
    ASSUME AdmissionInv, AttemptInv, BacklogInv, NEW p \in Posts, Enqueue(p)
    PROVE  BacklogInv'
<1>1. /\ UNCHANGED <<counted, taken, started>> /\ queue' = Append(queue, p)
      /\ stage[p] = "enqueue" /\ GoOn(p, "indexrequest")
  BY DEF Enqueue, AtStage
<1>2. \A q \in Posts : stage'[q] \notin {"room", "save", "index", "join", "enqueue"}
  <2>1. "indexrequest" \in Places /\ stage[p] \in Locked
    BY <1>1 DEF Places, Locked, Seeking
  <2>2. \A q \in Posts : stage'[q] = IF q = p THEN "indexrequest" ELSE stage[q]
    BY <1>1, <2>1, Stages DEF AdmissionInv
  <2>3. \A q \in Posts : q # p => stage[q] \notin Locked
    BY <2>1, Alone
  <2>4. QED
    BY <2>2, <2>3 DEF Locked, Seeking
<1>3. Pending' = Pending \cup {p}
  BY <1>1, AppendFacts DEF AttemptInv, QueueInv, Pending
<1>4. /\ Cardinality(Pending') <= Cardinality(Pending) + 1
      /\ Cardinality(Pending) \in Nat /\ Cardinality(Pending') \in Nat
  <2>1. Pending \in SUBSET Posts /\ Pending \cup {p} \in SUBSET Posts
    BY Sizes
  <2>2. QED
    BY <1>3, <2>1, Sizes
<1>5. Cardinality(Pending) <= counted[p] + Workers /\ counted[p] < QueueMaxPending
      /\ counted[p] \in Nat
  BY <1>1 DEF BacklogInv
<1>6. Cardinality(Pending') <= QueueMaxPending + Workers
  BY <1>4, <1>5, AdmissionAssumption
<1>7. QED
  BY <1>1, <1>2, <1>6 DEF BacklogInv

LEMMA SubmitFits ==
    ASSUME AdmissionInv, AttemptInv, BacklogInv, NEW p \in Posts, Submit(p)
    PROVE  BacklogInv'
<1>1. CASE Enqueue(p)
  BY <1>1, EnqueueFits
<1>2. CASE CountQueued(p)
  <2>1. /\ GoOn(p, "room") /\ counted' = [counted EXCEPT ![p] = Len(queue)]
        /\ UNCHANGED <<queue, taken, started>>
    BY <1>2 DEF CountQueued, workerVars
  <2>2. "room" \in Places
    BY DEF Places
  <2>3. QED
    BY <2>1, <2>2, SteadyPreserves
<1>3. CASE CheckRoom(p)
  <2>1. /\ UNCHANGED <<counted, queue, taken, started>> /\ stage[p] = "room"
        /\ \/ GoOn(p, "save") /\ HasRoom(p)
           \/ GoOn(p, "release")
    BY <1>3 DEF CheckRoom, AtStage, Leave, workerVars
  <2>2. HasRoom(p) => counted[p] < QueueMaxPending
    <3>1. started \in SUBSET Posts
      BY DEF AttemptInv, QueueInv
    <3>2. Cardinality(started) \in Nat /\ counted[p] \in Nat
      BY <3>1, Sizes DEF BacklogInv
    <3>3. QED
      BY <3>2, AdmissionAssumption DEF HasRoom
  <2>3. "save" \in Places /\ "release" \in Places
    BY DEF Places
  <2>4. QED
    BY <2>1, <2>2, <2>3, SteadyPreserves
<1>4. CASE ~(Enqueue(p) \/ CountQueued(p) \/ CheckRoom(p))
  <2>1. PICK place \in Places \ {"room", "save"} :
           /\ GoOn(p, place)
           /\ place \in {"index", "join", "enqueue"} => stage[p] \in {"save", "index", "join"}
    <3>1. {"request", "gone", "content", "quota", "backlog", "index", "join", "enqueue",
           "indexrequest", "release", "killed"} \subseteq Places \ {"room", "save"}
      BY DEF Places
    <3>2. QED
      BY <1>4, <3>1 DEF Submit, Acquire, GiveUp, LookUpRequest, LookUpContent, CheckUser, SaveRecord,
         IndexContent, JoinUser, IndexRequest, EnqueueRaises, Release, Kill, Leave, AtStage
  <2>2. UNCHANGED <<counted, queue, taken, started>>
    BY <1>4 DEF Submit, Acquire, GiveUp, LookUpRequest, LookUpContent, CheckUser, SaveRecord,
       IndexContent, JoinUser, IndexRequest, EnqueueRaises, Release, Kill, workerVars
  <2>3. stage[p] \in {"save", "index", "join"} => counted[p] < QueueMaxPending
    BY DEF BacklogInv
  <2>4. QED
    BY <2>1, <2>2, <2>3, SteadyPreserves
<1>5. QED
  BY <1>1, <1>2, <1>3, <1>4

-----------------------------------------------------------------------------
(* The jobs of a user                                                      *)

LEMMA CountedSizes ==
    ASSUME AttemptInv
    PROVE  \A u : Counted(u) \in SUBSET Posts /\ Cardinality(Counted(u)) \in Nat
<1>1. \A u : Counted(u) \in SUBSET Posts
  BY DEF Counted
<1>2. QED
  BY <1>1, Sizes

\* No job begins to count, and no POST passes the comparison.
LEMMA FewerPreserve ==
    ASSUME AdmissionInv, AttemptInv, AttemptInv', UserInv, UNCHANGED want,
           \A u \in Users : Counted(u)' \subseteq Counted(u),
           \A p \in Posts : stage'[p] \in {"backlog", "room", "save"} =>
              stage[p] \in {"backlog", "room", "save"}
    PROVE  UserInv'
<1>1. \A u \in Users : Cardinality(Counted(u)') <= Cardinality(Counted(u))
  BY CountedSizes, Sizes
<1>2. \A u \in Users : Cardinality(Counted(u)') \in Nat /\ Cardinality(Counted(u)) \in Nat
  <2>1. \A u \in Users : Counted(u)' \in SUBSET Posts
    BY DEF Counted
  <2>2. QED
    BY <2>1, CountedSizes, Sizes
<1>3. \A p \in Posts : want[p].user \in Users
  BY DEF AdmissionInv, ShapeInv, Wishes
<1>4. QED
  BY <1>1, <1>2, <1>3, AdmissionAssumption DEF UserInv

LEMMA WorkersFewer ==
    ASSUME AdmissionInv, AttemptInv, JoinedInv,
           \/ Take \/ LockExpires \/ UNCHANGED admissionVars
           \/ \E j \in Posts : \/ Register(j) \/ Retry(j) \/ Cancel(j)
                               \/ ExpireRecord(j) \/ LoseResult(j)
                               \/ \E state \in {"done", "failed"} : EndAttempt(j, state)
    PROVE  /\ UNCHANGED <<want, stage>> /\ JoinedInv'
           /\ \A u \in Users : Counted(u)' \subseteq Counted(u)
<1>1. /\ jobs \in [Posts -> Records] /\ userJobs \in [Users -> SUBSET Posts]
      /\ \A p \in Posts : want[p].user \in Users
  BY DEF AdmissionInv, ShapeInv, Wishes, JoinedInv
<1>2. UNCHANGED <<want, stage>>
  BY DEF Take, LockExpires, Register, Retry, Cancel, ExpireRecord, LoseResult, EndAttempt,
     submissionVars, admissionVars
<1>3. /\ userJobs' \in [Users -> SUBSET Posts]
      /\ \A i \in Posts : Working(i)' => Working(i)
      /\ \A i \in Posts : \A u \in Users :
            /\ i \in userJobs'[u] => i \in userJobs[u]
            /\ Working(i)' /\ i \in userJobs[u] => i \in userJobs'[u]
  <2>1. CASE UNCHANGED <<jobs, userJobs>>
    BY <1>1, <2>1 DEF Working
  <2>2. ASSUME NEW j \in Posts, ExpireRecord(j) \/ LoseResult(j), UNCHANGED userJobs
        PROVE  \A i \in Posts : Working(i)' => Working(i)
    BY <1>1, <2>2 DEF ExpireRecord, LoseResult, NoRecord, Available, Records, Working
  <2>3. ASSUME NEW j \in Posts, NEW x, x.state # "working", jobs' = [jobs EXCEPT ![j] = x],
               userJobs' = [userJobs EXCEPT ![want[j].user] = @ \ {j}]
        PROVE  /\ userJobs' \in [Users -> SUBSET Posts]
               /\ \A i \in Posts : Working(i)' => Working(i)
               /\ \A i \in Posts : \A u \in Users :
                     /\ i \in userJobs'[u] => i \in userJobs[u]
                     /\ Working(i)' /\ i \in userJobs[u] => i \in userJobs'[u]
    BY <1>1, <2>3 DEF Working
  <2>4. \A j \in Posts : Cancel(j) =>
           /\ jobs' = [jobs EXCEPT ![j] = [state |-> "failed", result |-> FALSE]]
           /\ userJobs' = [userJobs EXCEPT ![want[j].user] = @ \ {j}]
    BY DEF Cancel
  <2>5. \A j \in Posts : \A state \in {"done", "failed"} : EndAttempt(j, state) =>
           \/ UNCHANGED <<jobs, userJobs>>
           \/ /\ jobs' = [jobs EXCEPT ![j] = [state |-> state, result |-> state = "done"]]
              /\ userJobs' = [userJobs EXCEPT ![want[j].user] = @ \ {j}]
    BY DEF EndAttempt
  <2>6. \A j \in Posts : ExpireRecord(j) \/ LoseResult(j) => UNCHANGED userJobs
    BY DEF ExpireRecord, LoseResult
  <2>7. Take \/ LockExpires \/ UNCHANGED admissionVars \/ (\E j \in Posts : Register(j) \/ Retry(j))
           => UNCHANGED <<jobs, userJobs>>
    BY DEF Take, LockExpires, Register, Retry, recordVars, admissionVars
  <2>8. /\ [state |-> "failed", result |-> FALSE].state = "failed"
        /\ \A state \in {"done", "failed"} :
              [state |-> state, result |-> state = "done"].state = state
    OBVIOUS
  <2>9. QED
    BY <1>1, <2>1, <2>2, <2>3, <2>4, <2>5, <2>6, <2>7, <2>8
<1>4. JoinedInv'
  BY <1>1, <1>2, <1>3 DEF JoinedInv
<1>5. \A u \in Users : Counted(u)' \subseteq Counted(u)
  BY <1>2, <1>3 DEF Counted, AtStage
<1>6. QED
  BY <1>2, <1>4, <1>5

\* A POST that goes on without making a record.
LEMMA GoesOnFewer ==
    ASSUME AdmissionInv, JoinedInv, NEW p \in Posts, NEW place \in Places, GoOn(p, place),
           UNCHANGED <<want, jobs, userJobs>>,
           stage[p] = "killed" => place = "killed",
           place \in {"enqueue", "indexrequest", "release", "gone"} =>
              \/ stage[p] \in {"enqueue", "indexrequest", "release"}
              \/ ~Working(p)
    PROVE  JoinedInv' /\ \A u \in Users : Counted(u)' \subseteq Counted(u)
<1>1. \A q \in Posts : stage'[q] = IF q = p THEN place ELSE stage[q]
  BY Stages DEF AdmissionInv
<1>2. JoinedInv'
  BY <1>1 DEF JoinedInv, Working
<1>3. \A u \in Users : Counted(u)' \subseteq Counted(u)
  BY <1>1 DEF Counted, AtStage, Working
<1>4. QED
  BY <1>2, <1>3

LEMMA CheckUserFits ==
    ASSUME AdmissionInv, AttemptInv, AttemptInv', JoinedInv, UserInv, NEW p \in Posts, CheckUser(p)
    PROVE  JoinedInv' /\ UserInv'
<1> DEFINE u == want[p].user
<1>1. /\ UNCHANGED <<want, jobs>> /\ stage[p] = "quota" /\ u \in Users /\ ~Working(p)
      /\ \A q \in Posts : want[q].user \in Users
  BY DEF CheckUser, AtStage, AdmissionInv, ShapeInv, Wishes, UnsavedInv, Unsaved
<1>2. /\ "release" \in Places /\ "backlog" \in Places /\ stage[p] \in Locked
      /\ "backlog" # "release"
  BY <1>1 DEF Places, Locked, Seeking
<1>3. PICK place \in {"release", "backlog"} :
         /\ GoOn(p, place)
         /\ \/ UNCHANGED userJobs
            \/ userJobs' = [userJobs EXCEPT ![u] = {j \in @ : Working(j)}]
         /\ place = "backlog" => MayAdd(u)
  BY DEF CheckUser, Leave
<1>4. /\ place \in Places
      /\ \A q \in Posts : stage'[q] = IF q = p THEN place ELSE stage[q]
  BY <1>2, <1>3, Stages DEF AdmissionInv
<1>5. /\ userJobs' \in [Users -> SUBSET Posts]
      /\ \A j \in Posts : \A v \in Users : /\ j \in userJobs'[v] => j \in userJobs[v]
                                           /\ Working(j) /\ j \in userJobs[v] => j \in userJobs'[v]
  BY <1>1, <1>3 DEF JoinedInv
<1>6. JoinedInv'
  BY <1>1, <1>2, <1>3, <1>4, <1>5 DEF JoinedInv, Working
<1>7. \A v \in Users : Counted(v)' \subseteq Counted(v)
  BY <1>1, <1>4, <1>5 DEF Counted, Working, AtStage
<1>8. Counted(u) \subseteq {j \in userJobs[u] : Working(j)}
  <2>1. ASSUME NEW j \in Posts, Working(j), want[j].user = u, stage[j] # "killed"
        PROVE  j \in userJobs[u]
    <3>1. stage[j] \notin Unsaved
      BY <2>1 DEF AdmissionInv, UnsavedInv
    <3>2. stage[j] \notin Locked
      BY <1>1, <1>2, <2>1, Alone
    <3>3. stage[j] = "gone"
      BY <2>1, <3>1, <3>2 DEF AdmissionInv, ShapeInv, Places, Unsaved, Locked, Seeking
    <3>4. QED
      BY <2>1, <3>3 DEF JoinedInv
  <2>2. QED
    BY <2>1 DEF Counted, AtStage
<1>9. place = "backlog" => Cardinality(Counted(u)) < UserMaxActive
  <2>1. {j \in userJobs[u] : Working(j)} \in SUBSET Posts
    BY <1>1 DEF JoinedInv
  <2>2. /\ Cardinality(Counted(u)) <= Cardinality({j \in userJobs[u] : Working(j)})
        /\ Cardinality(Counted(u)) \in Nat
        /\ Cardinality({j \in userJobs[u] : Working(j)}) \in Nat
    BY <1>8, <2>1, Sizes, CountedSizes
  <2>3. place = "backlog" => Cardinality({j \in userJobs[u] : Working(j)}) < UserMaxActive
    BY <1>3 DEF MayAdd
  <2>4. QED
    BY <2>2, <2>3, AdmissionAssumption
<1>10. \A v \in Users : /\ Cardinality(Counted(v)') <= Cardinality(Counted(v))
                        /\ Cardinality(Counted(v)') \in Nat /\ Cardinality(Counted(v)) \in Nat
  <2>1. \A v \in Users : Counted(v)' \in SUBSET Posts
    BY DEF Counted
  <2>2. QED
    BY <1>7, <2>1, CountedSizes, Sizes
<1>11. \A q \in Posts : want'[q].user = want[q].user
  BY <1>1
<1>12. UserInv'
  <2>1. \A v \in Users : Cardinality(Counted(v)') <= UserMaxActive
    BY <1>10, AdmissionAssumption DEF UserInv
  <2>2. ASSUME NEW q \in Posts, stage'[q] \in {"backlog", "room", "save"}
        PROVE  Cardinality(Counted(want[q].user)') < UserMaxActive
    <3>1. Cardinality(Counted(want[q].user)) < UserMaxActive
      BY <1>2, <1>4, <1>9, <2>2 DEF UserInv
    <3>2. QED
      BY <1>1, <1>10, <3>1, AdmissionAssumption
  <2>3. QED
    BY <1>1, <2>1, <2>2 DEF UserInv
<1>13. QED
  BY <1>6, <1>12

LEMMA SaveRecordFits ==
    ASSUME AdmissionInv, AttemptInv, AttemptInv', JoinedInv, UserInv, NEW p \in Posts, SaveRecord(p)
    PROVE  JoinedInv' /\ UserInv'
<1> DEFINE u == want[p].user
<1>1. /\ UNCHANGED <<want, userJobs>> /\ stage[p] = "save" /\ GoOn(p, "index") /\ u \in Users
      /\ jobs' = [jobs EXCEPT ![p] = [state |-> "working", result |-> FALSE]]
  BY DEF SaveRecord, AtStage, AdmissionInv, ShapeInv, Wishes
<1>2. /\ "index" \in Places /\ stage[p] \in Locked
      /\ "index" \notin {"enqueue", "indexrequest", "release", "gone"}
  BY <1>1 DEF Places, Locked, Seeking
<1>3. /\ \A q \in Posts : stage'[q] = IF q = p THEN "index" ELSE stage[q]
      /\ \A q \in Posts : q # p => (Working(q)' <=> Working(q))
  BY <1>1, <1>2, Stages DEF AdmissionInv, ShapeInv, Working
<1>4. JoinedInv'
  BY <1>1, <1>2, <1>3 DEF JoinedInv
<1>5. \A q \in Posts : stage'[q] \notin {"backlog", "room", "save"}
  <2>1. \A q \in Posts : q # p => stage[q] \notin Locked
    BY <1>2, Alone
  <2>2. QED
    BY <1>3, <2>1 DEF Locked, Seeking
<1>6. \A v \in Users : /\ Counted(v)' \subseteq Counted(v) \cup {p}
                       /\ v # u => Counted(v)' \subseteq Counted(v)
  BY <1>1, <1>3 DEF Counted, AtStage
<1>7. Cardinality(Counted(u)) < UserMaxActive
  BY <1>1 DEF UserInv
<1>8. ASSUME NEW v \in Users
      PROVE  Cardinality(Counted(v)') <= UserMaxActive
  <2>1. /\ Counted(v) \in SUBSET Posts /\ Counted(v)' \in SUBSET Posts
        /\ Counted(v) \cup {p} \in SUBSET Posts
    BY DEF Counted
  <2>2. /\ Cardinality(Counted(v)) \in Nat /\ Cardinality(Counted(v)') \in Nat
        /\ Cardinality(Counted(v) \cup {p}) \in Nat
        /\ Cardinality(Counted(v) \cup {p}) <= Cardinality(Counted(v)) + 1
    BY <2>1, Sizes
  <2>3. CASE v = u
    <3>1. Counted(v)' \in SUBSET (Counted(v) \cup {p})
      BY <1>6
    <3>2. Cardinality(Counted(v)') <= Cardinality(Counted(v) \cup {p})
      BY <2>1, <3>1, Sizes
    <3>3. Cardinality(Counted(v)) < UserMaxActive
      BY <1>7, <2>3
    <3>4. QED
      BY <2>2, <3>2, <3>3, AdmissionAssumption
  <2>4. CASE v # u
    <3>1. Cardinality(Counted(v)') <= Cardinality(Counted(v))
      BY <1>6, <2>1, <2>4, Sizes
    <3>2. QED
      BY <2>2, <3>1, AdmissionAssumption DEF UserInv
  <2>5. QED
    BY <2>3, <2>4
<1>9. QED
  BY <1>4, <1>5, <1>8 DEF UserInv

LEMMA JoinFewer ==
    ASSUME AdmissionInv, JoinedInv, NEW p \in Posts, JoinUser(p)
    PROVE  JoinedInv' /\ \A u \in Users : Counted(u)' \subseteq Counted(u)
<1>1. /\ UNCHANGED <<want, jobs>> /\ stage[p] = "join" /\ GoOn(p, "enqueue")
      /\ userJobs' = [userJobs EXCEPT ![want[p].user] = @ \cup {p}]
      /\ \A q \in Posts : want[q].user \in Users
  BY DEF JoinUser, AtStage, AdmissionInv, ShapeInv, Wishes
<1>2. "enqueue" \in Places
  BY DEF Places
<1>3. /\ \A q \in Posts : stage'[q] = IF q = p THEN "enqueue" ELSE stage[q]
      /\ userJobs' \in [Users -> SUBSET Posts] /\ p \in userJobs'[want[p].user]
      /\ \A q \in Posts : \A u \in Users : /\ q \in userJobs[u] => q \in userJobs'[u]
                                           /\ q # p /\ q \in userJobs'[u] => q \in userJobs[u]
  BY <1>1, <1>2, Stages DEF AdmissionInv, JoinedInv
<1>4. JoinedInv'
  BY <1>1, <1>3 DEF JoinedInv, Working
<1>5. \A u \in Users : Counted(u)' \subseteq Counted(u)
  BY <1>1, <1>3 DEF Counted, AtStage, Working
<1>6. QED
  BY <1>4, <1>5

LEMMA RaisesFewer ==
    ASSUME AdmissionInv, JoinedInv, NEW p \in Posts, EnqueueRaises(p)
    PROVE  JoinedInv' /\ \A u \in Users : Counted(u)' \subseteq Counted(u)
<1>1. /\ UNCHANGED want /\ GoOn(p, "release") /\ stage[p] # "killed"
      /\ jobs' = [jobs EXCEPT ![p] = [state |-> "failed", result |-> FALSE]]
      /\ userJobs' = [userJobs EXCEPT ![want[p].user] = @ \ {p}]
      /\ \A q \in Posts : want[q].user \in Users
  BY DEF EnqueueRaises, Abandon, Leave, AdmissionInv, ShapeInv, Wishes
<1>2. "release" \in Places
  BY DEF Places
<1>3. /\ \A q \in Posts : stage'[q] = IF q = p THEN "release" ELSE stage[q]
      /\ ~Working(p)' /\ \A q \in Posts : q # p => (Working(q)' <=> Working(q))
  BY <1>1, <1>2, Stages DEF AdmissionInv, ShapeInv, Working
<1>4. /\ userJobs' \in [Users -> SUBSET Posts]
      /\ \A q \in Posts : \A u \in Users : /\ q \in userJobs'[u] => q \in userJobs[u]
                                           /\ q # p /\ q \in userJobs[u] => q \in userJobs'[u]
  BY <1>1 DEF JoinedInv
<1>5. JoinedInv'
  BY <1>1, <1>3, <1>4 DEF JoinedInv
<1>6. \A u \in Users : Counted(u)' \subseteq Counted(u)
  BY <1>1, <1>3, <1>4 DEF Counted, AtStage
<1>7. QED
  BY <1>5, <1>6

LEMMA OthersFewer ==
    ASSUME AdmissionInv, AttemptInv, JoinedInv, NEW p \in Posts,
           \/ Acquire(p) \/ GiveUp(p) \/ LookUpRequest(p) \/ LookUpContent(p) \/ CountQueued(p)
           \/ CheckRoom(p) \/ IndexContent(p) \/ Enqueue(p) \/ IndexRequest(p) \/ Release(p)
           \/ Kill(p)
    PROVE  /\ JoinedInv' /\ \A u \in Users : Counted(u)' \subseteq Counted(u)
           /\ \A q \in Posts : stage'[q] \in {"backlog", "room", "save"} =>
                 stage[q] \in {"backlog", "room", "save"}
<1>1. UNCHANGED <<want, jobs, userJobs>>
  BY DEF Acquire, GiveUp, LookUpRequest, LookUpContent, CountQueued, CheckRoom, IndexContent,
     Enqueue, IndexRequest, Release, Kill, recordVars
<1>2. PICK place \in {"request", "gone", "content", "quota", "room", "save", "join",
                      "indexrequest", "release", "killed"} :
         /\ GoOn(p, place)
         /\ stage[p] # "killed"
         /\ place \in {"indexrequest", "release", "gone"} =>
               stage[p] \in Unsaved \cup {"enqueue", "indexrequest", "release"}
         /\ place \in {"room", "save"} => stage[p] \in {"backlog", "room", "save"}
  BY DEF Acquire, GiveUp, LookUpRequest, LookUpContent, CountQueued, CheckRoom, IndexContent,
     Enqueue, IndexRequest, Release, Kill, Leave, AtStage, Unsaved
<1>3. place \in Places
  BY DEF Places
<1>4. \A q \in Posts : stage'[q] = IF q = p THEN place ELSE stage[q]
  BY <1>2, <1>3, Stages DEF AdmissionInv
<1>5. stage[p] \in Unsaved => ~Working(p)
  BY DEF AdmissionInv, UnsavedInv
<1>6. QED
  BY <1>1, <1>2, <1>3, <1>4, <1>5, GoesOnFewer

-----------------------------------------------------------------------------
(* Result                                                                  *)

CapacityInv == JoinedInv /\ UserInv /\ BacklogInv

LEMMA CapacityInit == AdmissionInit => CapacityInv
<1> SUFFICES ASSUME AdmissionInit PROVE CapacityInv
  OBVIOUS
<1>1. /\ \A p \in Posts : stage[p] = "arrive" /\ ~Working(p)
      /\ userJobs \in [Users -> SUBSET Posts] /\ counted \in [Posts -> Nat]
  BY DEF AdmissionInit, NoRecord, Working
<1>2. (\A u \in Users : Counted(u) = {}) /\ Pending = {} /\ taken \cup started = {}
  <2>1. ToSet(<<>>) = {}
    BY DEF ToSet
  <2>2. QED
    BY <1>1, <2>1 DEF AdmissionInit, Counted, Pending
<1>3. Cardinality({}) = 0
  BY FS_EmptySet
<1>4. JoinedInv
  BY <1>1 DEF JoinedInv
<1>5. UserInv
  <2>1. \A u \in Users : Cardinality(Counted(u)) = 0
    BY <1>2, <1>3
  <2>2. \A p \in Posts : stage[p] \notin {"backlog", "room", "save"}
    BY <1>1
  <2>3. QED
    BY <2>1, <2>2, AdmissionAssumption DEF UserInv
<1>6. BacklogInv
  <2>1. Cardinality(Pending) = 0 /\ Cardinality(taken \cup started) = 0
    BY <1>2, <1>3
  <2>2. \A p \in Posts : stage[p] \notin {"room", "save", "index", "join", "enqueue"}
    BY <1>1
  <2>3. QED
    BY <1>1, <2>1, <2>2, AdmissionAssumption DEF BacklogInv
<1>7. QED
  BY <1>4, <1>5, <1>6 DEF CapacityInv

LEMMA CapacityStep ==
    ASSUME AdmissionInv, AttemptInv, AttemptInv', CapacityInv, [AdmissionNext]_admissionVars
    PROVE  CapacityInv'
<1>1. JoinedInv /\ UserInv /\ BacklogInv
  BY DEF CapacityInv
<1>2. ASSUME NEW p \in Posts, Submit(p) PROVE CapacityInv'
  <2>1. BacklogInv'
    BY <1>1, <1>2, SubmitFits
  <2>2. UNCHANGED want
    BY <1>2 DEF Submit, Acquire, GiveUp, LookUpRequest, LookUpContent, CheckUser, CountQueued,
       CheckRoom, SaveRecord, IndexContent, JoinUser, Enqueue, IndexRequest, EnqueueRaises,
       Release, Kill
  <2>3. CASE CheckUser(p) \/ SaveRecord(p)
    BY <1>1, <2>1, <2>3, CheckUserFits, SaveRecordFits DEF CapacityInv
  <2>4. CASE JoinUser(p) \/ EnqueueRaises(p)
    <3>1. PICK place \in {"enqueue", "release"} : GoOn(p, place)
      BY <2>4 DEF JoinUser, EnqueueRaises, Leave
    <3>2. place \in Places /\ place \notin {"backlog", "room", "save"}
      BY DEF Places
    <3>3. \A q \in Posts : stage'[q] \in {"backlog", "room", "save"} =>
             stage[q] \in {"backlog", "room", "save"}
      BY <3>1, <3>2, Stages DEF AdmissionInv
    <3>4. JoinedInv' /\ \A u \in Users : Counted(u)' \subseteq Counted(u)
      BY <1>1, <2>4, JoinFewer, RaisesFewer
    <3>5. QED
      BY <1>1, <2>1, <2>2, <3>3, <3>4, FewerPreserve DEF CapacityInv
  <2>5. CASE ~(CheckUser(p) \/ SaveRecord(p) \/ JoinUser(p) \/ EnqueueRaises(p))
    <3>1. /\ JoinedInv' /\ \A u \in Users : Counted(u)' \subseteq Counted(u)
          /\ \A q \in Posts : stage'[q] \in {"backlog", "room", "save"} =>
                stage[q] \in {"backlog", "room", "save"}
      BY <1>1, <1>2, <2>5, OthersFewer DEF Submit
    <3>2. QED
      BY <1>1, <2>1, <2>2, <3>1, FewerPreserve DEF CapacityInv
  <2>6. QED
    BY <2>3, <2>4, <2>5
<1>3. CASE \/ Take \/ LockExpires \/ UNCHANGED admissionVars
           \/ \E j \in Posts : \/ Register(j) \/ Retry(j) \/ Cancel(j)
                               \/ ExpireRecord(j) \/ LoseResult(j)
                               \/ \E state \in {"done", "failed"} : EndAttempt(j, state)
  <2>1. /\ UNCHANGED <<want, stage>> /\ JoinedInv'
        /\ \A u \in Users : Counted(u)' \subseteq Counted(u)
    BY <1>1, <1>3, WorkersFewer
  <2>2. UserInv'
    BY <1>1, <2>1, FewerPreserve
  <2>3. BacklogInv'
    <3>1. CASE LockExpires \/ UNCHANGED admissionVars
      <4>1. UNCHANGED <<stage, counted, queue, taken, started>>
        BY <3>1 DEF LockExpires, admissionVars, submissionVars, workerVars
      <4>2. QED
        BY <1>1, <4>1 DEF BacklogInv, Pending
    <3>2. CASE ~(LockExpires \/ UNCHANGED admissionVars)
      BY <1>1, <1>3, <3>2, WorkersShrink, ShrinkPreserves
    <3>3. QED
      BY <3>1, <3>2
  <2>4. QED
    BY <2>1, <2>2, <2>3 DEF CapacityInv
<1>4. QED
  BY <1>2, <1>3 DEF AdmissionNext

\* What is counted bounds what works and what waits, for any number of POSTs.
THEOREM CapacityInvariance == AdmissionSpec => []CapacityInv
<1>1. AdmissionInv /\ AttemptInv /\ CapacityInv /\ [AdmissionNext]_admissionVars /\ AttemptInv' => CapacityInv'
  BY CapacityStep
<1>2. QED
  BY <1>1, CapacityInit, AdmissionInvariance, AttemptInvariance, PTL DEF AdmissionSpec

\* However submissions interleave with workers, cancellations and expiries, a
\* user never has more working jobs than allowed, and what waits and runs is
\* within the capacity of the queue and its workers.
THEOREM CapacityIsKept == AdmissionSpec => []WithinCapacity
<1>1. CapacityInv => WithinCapacity
  BY DEF CapacityInv, UserInv, BacklogInv, Counted, WithinCapacity
<1>2. QED
  BY <1>1, CapacityInvariance, PTL

-----------------------------------------------------------------------------
(* An attempt is in one place                                              *)

Unqueued == Unsaved \cup {"index", "join", "enqueue"}

\* A job has at most one attempt: queued once, popped, or running.
OnceInv ==
    /\ IsInjective(queue)
    /\ ToSet(queue) \cap (taken \cup started) = {} /\ taken \cap started = {}
    /\ \A p \in Posts : stage[p] \in Unqueued => p \notin Pending
    /\ retried \subseteq Posts
    /\ \A p \in Posts : counted[p] <= Cardinality(Posts)

LEMMA AppendOnce ==
    ASSUME NEW q \in Seq(Posts), IsInjective(q), NEW j \in Posts, j \notin ToSet(q)
    PROVE  IsInjective(Append(q, j))
<1>1. /\ \A i \in 1..Len(q) : Append(q, j)[i] = q[i]
      /\ Append(q, j)[Len(q) + 1] = j
      /\ DOMAIN q = 1..Len(q) /\ DOMAIN Append(q, j) = 1..Len(q) + 1
      /\ Len(q) \in Nat
  OBVIOUS
<1>2. QED
  BY <1>1 DEF IsInjective, ToSet

LEMMA TailOnce ==
    ASSUME NEW q \in Seq(Posts), IsInjective(q), q # <<>>
    PROVE  IsInjective(Tail(q)) /\ Head(q) \notin ToSet(Tail(q))
<1>1. /\ Head(q) = q[1] /\ \A i \in 1..Len(q) - 1 : Tail(q)[i] = q[i + 1]
      /\ DOMAIN q = 1..Len(q) /\ DOMAIN Tail(q) = 1..Len(q) - 1
      /\ Len(q) \in Nat /\ Len(q) > 0
  OBVIOUS
<1>2. QED
  BY <1>1 DEF IsInjective, ToSet

LEMMA RemoveOnce ==
    ASSUME NEW q \in Seq(Posts), IsInjective(q), NEW i \in DOMAIN q
    PROVE  IsInjective(RemoveAt(q, i))
<1> DEFINE left == RemoveAt(q, i)
           from(k) == IF k < i THEN k ELSE k + 1
<1>1. /\ DOMAIN q = 1..Len(q) /\ Len(q) \in Nat /\ i \in 1..Len(q)
      /\ DOMAIN left = 1..Len(q) - 1 /\ \A k \in 1..Len(q) - 1 : left[k] = q[from(k)]
  BY RemoveElements
<1> HIDE DEF left
<1>2. ASSUME NEW k \in 1..Len(q) - 1, NEW m \in 1..Len(q) - 1, left[k] = left[m]
      PROVE  k = m
  <2>1. from(k) \in 1..Len(q) /\ from(m) \in 1..Len(q)
    BY <1>1
  <2>2. from(k) = from(m)
    <3> HIDE DEF from
    <3>1. QED
      BY <1>1, <1>2, <2>1 DEF IsInjective
  <2>3. QED
    BY <1>1, <2>2
<1>3. IsInjective(left)
  BY <1>1, <1>2 DEF IsInjective
<1>4. QED
  BY <1>3 DEF left

LEMMA QueueIsShort ==
    ASSUME AttemptInv, OnceInv
    PROVE  Len(queue) \in Nat /\ Len(queue) <= Cardinality(Posts)
<1>1. queue \in Seq(Posts)
  BY DEF AttemptInv, QueueInv
<1>2. Len(queue) \in Nat /\ queue \in [1..Len(queue) -> Posts]
  BY <1>1
<1>3. queue \in Injection(1..Len(queue), Posts)
  BY <1>2 DEF Injection, OnceInv, IsInjective
<1>4. Cardinality(1..Len(queue)) = Len(queue)
  BY <1>2, FS_Interval
<1>5. QED
  BY <1>2, <1>3, <1>4, FS_Injection, AdmissionAssumption

LEMMA SubmitOnce ==
    ASSUME AdmissionInv, AttemptInv, BacklogInv, OnceInv, NEW p \in Posts, Submit(p)
    PROVE  OnceInv'
<1>1. \A q \in Posts : counted[q] \in Nat
  BY DEF BacklogInv
<1>2. CASE Enqueue(p)
  <2>1. /\ UNCHANGED <<taken, started, retried, counted>> /\ queue' = Append(queue, p)
        /\ stage[p] = "enqueue" /\ GoOn(p, "indexrequest")
    BY <1>2 DEF Enqueue, AtStage
  <2>2. "indexrequest" \in Places /\ "indexrequest" \notin Unqueued /\ "enqueue" \in Unqueued
    BY DEF Places, Unqueued, Unsaved
  <2>3. \A q \in Posts : stage'[q] = IF q = p THEN "indexrequest" ELSE stage[q]
    BY <2>1, <2>2, Stages DEF AdmissionInv
  <2>4. queue \in Seq(Posts) /\ p \notin Pending
    BY <2>1, <2>2 DEF AttemptInv, QueueInv, OnceInv
  <2>5. IsInjective(queue') /\ ToSet(queue') = ToSet(queue) \cup {p}
    BY <2>1, <2>4, AppendOnce, AppendFacts DEF OnceInv, Pending
  <2>6. Pending' = Pending \cup {p}
    BY <2>1, <2>5 DEF Pending
  <2>7. ToSet(queue') \cap (taken \cup started) = {}
    BY <2>4, <2>5 DEF OnceInv, Pending
  <2>8. \A q \in Posts : stage'[q] \in Unqueued => q \notin Pending'
    BY <2>2, <2>3, <2>6 DEF OnceInv
  <2>9. QED
    BY <2>1, <2>5, <2>7, <2>8 DEF OnceInv
<1>3. CASE ~Enqueue(p)
  <2>1. UNCHANGED <<queue, taken, started, retried>>
    BY <1>3 DEF Submit, Acquire, GiveUp, LookUpRequest, LookUpContent, CheckUser, CountQueued,
       CheckRoom, SaveRecord, IndexContent, JoinUser, IndexRequest, EnqueueRaises, Release, Kill,
       workerVars
  <2>2. PICK place \in Places : GoOn(p, place) /\ (place \in Unqueued => stage[p] \in Unqueued)
    <3>1. /\ {"request", "content", "quota", "backlog", "room", "save", "index", "join", "enqueue"}
                \subseteq Places \cap Unqueued
          /\ {"gone", "killed", "release"} \subseteq Places \ Unqueued
          /\ "arrive" \in Unqueued
      BY DEF Places, Unqueued, Unsaved
    <3>2. QED
      BY <1>3, <3>1 DEF Submit, Acquire, GiveUp, LookUpRequest, LookUpContent, CheckUser, CountQueued,
         CheckRoom, SaveRecord, IndexContent, JoinUser, IndexRequest, EnqueueRaises, Release, Kill,
         Leave, AtStage
  <2>3. \A q \in Posts : stage'[q] \in Unqueued => stage[q] \in Unqueued
    BY <2>2, Stages DEF AdmissionInv
  <2>4. UNCHANGED counted \/ counted' = [counted EXCEPT ![p] = Len(queue)]
    BY <1>3 DEF Submit, Acquire, GiveUp, LookUpRequest, LookUpContent, CheckUser, CountQueued,
       CheckRoom, SaveRecord, IndexContent, JoinUser, IndexRequest, EnqueueRaises, Release, Kill
  <2>5. \A q \in Posts : counted'[q] <= Cardinality(Posts)
    BY <2>4, QueueIsShort DEF OnceInv, BacklogInv
  <2>6. Pending' = Pending
    BY <2>1 DEF Pending
  <2>7. QED
    BY <2>1, <2>3, <2>5, <2>6 DEF OnceInv
<1>4. QED
  BY <1>2, <1>3

LEMMA WorkersOnce ==
    ASSUME AdmissionInv, AttemptInv, OnceInv,
           \/ Take \/ LockExpires \/ UNCHANGED admissionVars
           \/ \E j \in Posts : \/ Register(j) \/ Retry(j) \/ Cancel(j)
                               \/ ExpireRecord(j) \/ LoseResult(j)
                               \/ \E state \in {"done", "failed"} : EndAttempt(j, state)
    PROVE  OnceInv'
<1>1. queue \in Seq(Posts) /\ IsInjective(queue)
  BY DEF AttemptInv, QueueInv, OnceInv
<1>2. UNCHANGED <<stage, counted>>
  BY DEF Take, LockExpires, Register, Retry, Cancel, ExpireRecord, LoseResult, EndAttempt,
     submissionVars, admissionVars
<1>3. ASSUME IsInjective(queue'),
             ToSet(queue') \cap (taken' \cup started') = {}, taken' \cap started' = {},
             ToSet(queue') \cup taken' \cup started' \subseteq Pending,
             retried' \subseteq Posts
      PROVE  OnceInv'
  <2>1. Pending' \subseteq Pending
    BY <1>3 DEF Pending
  <2>2. QED
    BY <1>2, <1>3, <2>1 DEF OnceInv
<1>4. CASE Take
  <2>1. /\ ToSet(queue) = {Head(queue)} \cup ToSet(Tail(queue))
        /\ IsInjective(Tail(queue)) /\ Head(queue) \notin ToSet(Tail(queue))
    BY <1>1, <1>4, TailFacts, TailOnce DEF Take
  <2>2. /\ taken' = taken \cup {Head(queue)} /\ queue' = Tail(queue)
        /\ UNCHANGED <<started, retried>>
    BY <1>4 DEF Take
  <2>3. QED
    BY <1>3, <2>1, <2>2 DEF OnceInv, Pending
<1>5. ASSUME NEW j \in Posts, Register(j) PROVE OnceInv'
  <2>1. /\ j \in taken /\ taken' = taken \ {j} /\ started' = started \cup {j}
        /\ UNCHANGED <<queue, retried>>
    BY <1>5 DEF Register
  <2>2. QED
    BY <1>3, <2>1 DEF OnceInv, Pending
<1>6. ASSUME NEW j \in Posts, Retry(j) PROVE OnceInv'
  <2>1. /\ j \in started /\ started' = started \ {j} /\ queue' = Append(queue, j)
        /\ retried' = retried \cup {j} /\ UNCHANGED taken
    BY <1>6 DEF Retry
  <2>2. j \notin ToSet(queue)
    BY <2>1 DEF OnceInv
  <2>3. IsInjective(queue') /\ ToSet(queue') = ToSet(queue) \cup {j}
    BY <1>1, <2>1, <2>2, AppendOnce, AppendFacts
  <2>4. QED
    BY <1>3, <2>1, <2>3 DEF OnceInv, Pending
<1>7. ASSUME NEW j \in Posts, Cancel(j) PROVE OnceInv'
  <2>1. UNCHANGED <<taken, started, retried>>
    BY <1>7 DEF Cancel
  <2>2. IsInjective(queue') /\ ToSet(queue') \subseteq ToSet(queue)
    BY <1>1, <1>7, RemoveFacts, RemoveOnce DEF Cancel
  <2>3. QED
    BY <1>3, <2>1, <2>2 DEF OnceInv, Pending
<1>8. ASSUME NEW j \in Posts, NEW state \in {"done", "failed"}, EndAttempt(j, state) PROVE OnceInv'
  <2>1. started' = started \ {j} /\ UNCHANGED <<queue, taken, retried>>
    BY <1>8 DEF EndAttempt
  <2>2. QED
    BY <1>3, <2>1 DEF OnceInv, Pending
<1>9. CASE LockExpires \/ UNCHANGED admissionVars \/ \E j \in Posts : ExpireRecord(j) \/ LoseResult(j)
  <2>1. UNCHANGED <<queue, taken, started, retried>>
    BY <1>9 DEF LockExpires, ExpireRecord, LoseResult, admissionVars, workerVars
  <2>2. QED
    BY <1>3, <2>1 DEF OnceInv, Pending
<1>10. QED
  BY <1>4, <1>5, <1>6, <1>7, <1>8, <1>9

LEMMA OnceInit == AdmissionInit => OnceInv
<1> SUFFICES ASSUME AdmissionInit PROVE OnceInv
  OBVIOUS
<1>1. /\ ToSet(queue) = {} /\ taken = {} /\ started = {} /\ retried = {} /\ IsInjective(queue)
  BY DEF AdmissionInit, ToSet, IsInjective
<1>2. \A p \in Posts : counted[p] = 0
  BY DEF AdmissionInit
<1>3. Cardinality(Posts) \in Nat
  BY FS_CardinalityType, AdmissionAssumption
<1>4. QED
  BY <1>1, <1>2, <1>3 DEF OnceInv, Pending

\* Whatever retries and repetitions there are, a job never has two attempts:
\* it is in the queue once, or popped once, or running once.
THEOREM AttemptsAreSingle == AdmissionSpec => []OnceInv
<1>1. AdmissionInv /\ AttemptInv /\ BacklogInv /\ OnceInv /\ [AdmissionNext]_admissionVars => OnceInv'
  BY SubmitOnce, WorkersOnce DEF AdmissionNext
<1>2. CapacityInv => BacklogInv
  BY DEF CapacityInv
<1>3. QED
  BY <1>1, <1>2, OnceInit, AdmissionInvariance, AttemptInvariance, CapacityInvariance, PTL
     DEF AdmissionSpec

\* The shape of the state, for any number of POSTs: what a POST has counted
\* is no more than there are POSTs, and whoever is past its arrival and not
\* through holds the submit lock.
THEOREM AdmissionTypeCorrect == AdmissionSpec => []AdmissionTypeOK
<1>1. AdmissionInv /\ AttemptInv /\ CapacityInv /\ OnceInv => AdmissionTypeOK
  <2> SUFFICES ASSUME AdmissionInv, AttemptInv, CapacityInv, OnceInv PROVE AdmissionTypeOK
    OBVIOUS
  <2>1. counted \in [Posts -> 0..Cardinality(Posts)]
    <3>1. counted \in [Posts -> Nat] /\ \A p \in Posts : counted[p] <= Cardinality(Posts)
      BY DEF CapacityInv, BacklogInv, OnceInv
    <3>2. Cardinality(Posts) \in Nat
      BY FS_CardinalityType, AdmissionAssumption
    <3>3. QED
      BY <3>1, <3>2
  <2>2. /\ ToSet(queue) \subseteq Posts /\ taken \cup started \cup retried \subseteq Posts
        /\ userJobs \in [Users -> SUBSET Posts]
    <3>1. ToSet(queue) \subseteq Posts
      BY Sizes DEF Pending
    <3>2. QED
      BY <3>1 DEF AttemptInv, QueueInv, CapacityInv, JoinedInv, OnceInv
  <2>3. \A p \in Posts : stage[p] \notin {"arrive", "gone", "killed"} => holder = p
    BY DEF AdmissionInv, ShapeInv, MutexInv, Places, Locked, Seeking
  <2>4. QED
    BY <2>1, <2>2, <2>3
       DEF AdmissionInv, ShapeInv, Records, RequestKeys, ContentKeys, AdmissionTypeOK
<1>2. QED
  BY <1>1, AdmissionInvariance, AttemptInvariance, CapacityInvariance, AttemptsAreSingle, PTL

=============================================================================
