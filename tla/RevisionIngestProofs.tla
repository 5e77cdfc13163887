------------------------- MODULE RevisionIngestProofs -------------------------
(***************************************************************************)
(* The transactions of RevisionIngest implement RevisionStore, for every    *)
(* number of requests, every batch, every hash function and pool size.      *)
(***************************************************************************)
EXTENDS RevisionIngest, RevisionStoreProofs, FiniteSetTheorems

\* The positions of the valid events: in the batch, no two the same, none left out.
LEMMA PositionsFacts ==
  ASSUME NEW b \in Seq(Events), NEW ps \in Positions(b)
  PROVE  /\ ps \in Seq(Nat) /\ Len(ps) \in Nat /\ DOMAIN ps = 1..Len(ps)
         /\ \A k \in DOMAIN ps : ps[k] \in DOMAIN b /\ ValidRevisionEvent(b[ps[k]])
         /\ \A i \in DOMAIN b : ValidRevisionEvent(b[i]) => \E k \in DOMAIN ps : ps[k] = i
  <1> DEFINE valid == {i \in DOMAIN b : ValidRevisionEvent(b[i])}
  <1>1. PICK n \in 0..Len(b) : ps \in [1..n -> valid]
    BY DEF Positions
  <1>2. n \in Nat /\ DOMAIN b \subseteq Nat
    BY <1>1
  <1>3. ps \in Seq(Nat) /\ Len(ps) = n /\ DOMAIN ps = 1..n
    BY <1>1, <1>2
  <1>4. \A i \in valid : \E k \in DOMAIN ps : ps[k] = i
    BY DEF Positions
  <1> QED BY <1>1, <1>2, <1>3, <1>4

LEMMA JobFacts ==
  ASSUME IngestTypeOK, NEW r \in Req
  PROVE  /\ job[r].events \in Seq(Events) /\ job[r].positions \in Positions(job[r].events)
         /\ Len(job[r].positions) \in Nat
         /\ at[r] \in Nat \ {0}
  <1>1. NoJob.positions \in Positions(NoJob.events)
    <2>1. NoJob.events = <<>> /\ NoJob.positions = <<>> /\ DOMAIN <<>> = {} /\ Len(<<>>) = 0
      BY DEF NoJob
    <2>2. <<>> \in [1..0 -> {i \in DOMAIN <<>> : ValidRevisionEvent(<<>>[i])}] /\ 0 \in 0..0
      OBVIOUS
    <2> QED BY <2>1, <2>2 DEF Positions
  <1>2. job[r].events \in Seq(Events) /\ job[r].positions \in Positions(job[r].events)
    <2>1. job[r] \in Job
      BY DEF IngestTypeOK
    <2>2. CASE job[r] = NoJob
      <3>1. NoJob.events = <<>> /\ <<>> \in Seq(Events)
        BY DEF NoJob
      <3> QED BY <1>1, <2>2, <3>1
    <2>3. CASE job[r] # NoJob
      BY <2>1, <2>3 DEF Job
    <2> QED BY <2>2, <2>3
  <1>3. Len(job[r].positions) \in Nat
    BY <1>2, PositionsFacts
  <1> QED BY <1>2, <1>3 DEF IngestTypeOK

\* The event a request works on.
LEMMA EvType ==
  ASSUME IngestTypeOK, NEW r \in Req, Pending(r)
  PROVE  /\ Ev(r) \in Events /\ ValidRevisionEvent(Ev(r))
         /\ job[r].positions[at[r]] \in DOMAIN job[r].events
  <1>1. at[r] \in DOMAIN job[r].positions
    BY JobFacts, PositionsFacts DEF Pending
  <1>2. job[r].positions[at[r]] \in DOMAIN job[r].events /\ ValidRevisionEvent(Ev(r))
    BY <1>1, JobFacts, PositionsFacts DEF Ev
  <1>3. job[r].events \in Seq(Events)
    BY JobFacts
  <1> QED BY <1>2, <1>3 DEF Ev

LEMMA InTransactionEv ==
  ASSUME IngestInv, NEW r \in Req, InTransaction(r)
  PROVE  /\ Ev(r) \in Events /\ Admissible(Ev(r)) /\ job[r].device \in Device
         /\ Ev(r).entity_id \in EntityId
  <1>1. Pending(r) /\ Admissible(Ev(r)) /\ job[r].device \in Device
    BY DEF IngestInv, Consistent, InTransaction
  <1>2. Ev(r) \in Events
    BY <1>1, EvType DEF IngestInv
  <1> QED BY <1>1, <1>2, AdmissibleEvent
-----------------------------------------------------------------------------
(* Refinement of the writes *)

\* What a transaction leaves behind is a step of RevisionStore or nothing.
LEMMA EffectIsStoreStep ==
  ASSUME IngestInv, NEW r \in Req, pc[r] = "commit", Effect(r)
  PROVE  [StoreNext]_storeVars
  <1> DEFINE e == Ev(r)
             d == job[r].device
             verdict == plan[r].verdict
  <1>1. e \in Events /\ Admissible(e) /\ d \in Device
    BY InTransactionEv DEF InTransaction
  <1>2. CASE verdict = "none"
    BY <1>2 DEF Effect, storeVars
  <1>3. CASE verdict # "none"
    <2>1. PlanStands(r) /\ Unseen(e) /\ RevisionStorable(e)
      BY <1>3 DEF IngestInv, Consistent, HasInserted
    <2>2. Recordable(e, verdict)
      BY <1>1, <2>1 DEF Recordable, PlanStands
    <2>3. CASE verdict = "synced"
      <3>1. IndexStorable(e)
        BY <2>3 DEF IngestInv, Consistent, HasIndexed
      <3>2. Accept(d, e)
        BY <2>2, <2>3, <3>1 DEF Accept, Effect
      <3> QED BY <1>1, <3>2 DEF StoreNext
    <2>4. CASE verdict \in {"conflict", "duplicate"}
      <3>1. RecordLoser(d, e, verdict)
        BY <2>1, <2>2, <2>4 DEF RecordLoser, Effect, PlanStands
      <3> QED BY <1>1, <2>4, <3>1 DEF StoreNext
    <2> QED BY <1>3, <2>3, <2>4 DEF Effect
  <1> QED BY <1>2, <1>3

LEMMA StepRefines == IngestInv /\ [IngestNext]_vars => [StoreNext]_storeVars
  <1> SUFFICES ASSUME IngestInv, [IngestNext]_vars PROVE [StoreNext]_storeVars
    OBVIOUS
  <1>1. CASE UNCHANGED vars
    BY <1>1 DEF vars
  <1>2. ASSUME NEW r \in Req, Commit(r) \/ CommitUnacknowledged(r)
        PROVE  [StoreNext]_storeVars
    BY <1>2, EffectIsStoreStep DEF Commit, CommitUnacknowledged
  <1>3. ASSUME NEW r \in Req, NEW d \in Device, NEW b \in Batches,
               Refuse(r, d, b) \/ Receive(r, d, b)
        PROVE  UNCHANGED storeVars
    BY <1>3 DEF Refuse, Receive
  <1>4. ASSUME NEW r \in Req, Progress(r) \/ Fail(r), ~ Commit(r)
        PROVE  UNCHANGED storeVars
    BY <1>4 DEF Progress, Reject, Respond, Begin, Lock, LookupRepeat, LookupFresh,
                Insert, Index, LockFails, LookupFails, InsertFails, IndexFails, Fail
  <1> QED BY <1>1, <1>2, <1>3, <1>4 DEF IngestNext
-----------------------------------------------------------------------------
(* Types *)

LEMMA IngestTypeInit == IngestInit => IngestTypeOK
  BY StoreTypeInit DEF IngestInit, IngestTypeOK, Stages, Job, Plan, NoPlan

LEMMA CheckedType ==
  ASSUME NEW b \in Seq(Events)
  PROVE  Checked(b) \in Seq(Answer \cup {NoAnswer}) /\ Len(Checked(b)) = Len(b)
  <1>1. \A i \in 1..Len(b) : Rejected(b[i]) \in Answer
    BY DEF Rejected, Answer
  <1> QED BY <1>1 DEF Checked

LEMMA PlaceType ==
  ASSUME NEW array \in Seq(Answer \cup {NoAnswer}), NEW answers \in Seq(Answer), NEW positions
  PROVE  /\ Place(array, positions, answers) \in Seq(Answer \cup {NoAnswer})
         /\ Len(Place(array, positions, answers)) = Len(array)
  <1>1. \A i \in 1..Len(array) :
          Place(array, positions, answers)[i] \in Answer \cup {NoAnswer}
    BY DEF Place
  <1>2. DOMAIN Place(array, positions, answers) = 1..Len(array)
    BY DEF Place
  <1>3. Place(array, positions, answers) = [i \in 1..Len(array) |-> Place(array, positions, answers)[i]]
    BY <1>2 DEF Place
  <1> HIDE DEF Place
  <1> QED BY <1>1, <1>2, <1>3

LEMMA RepeatAnswerType ==
  ASSUME StoreTypeOK, NEW e \in Events, NEW row \in revisions
  PROVE  RepeatAnswer(row, e) \in Answer
  <1>1. row.event \in Events /\ row.apply_status \in Status
    BY DEF StoreTypeOK, Revision
  <1> QED BY <1>1 DEF RepeatAnswer, Answer, Status

LEMMA FreshAnswerType ==
  ASSUME NEW row \in Entity \cup {NoRow}, NEW e \in Events
  PROVE  /\ Verdict(row, e) \in Status
         /\ FreshAnswer(Verdict(row, e), row, e) \in Answer
  <1>1. Verdict(row, e) \in Status
    BY DEF Verdict, Status
  <1>2. Verdict(row, e) # "synced" => row \in Entity
    BY DEF Verdict
  <1> QED BY <1>1, <1>2 DEF FreshAnswer, Answer, Entity

LEMMA IngestTypeStep ==
  ASSUME IngestInv, [IngestNext]_vars
  PROVE  IngestTypeOK'
  <1>1. StoreTypeOK'
    BY StepRefines, StoreTypeStep DEF IngestInv, IngestTypeOK
  <1> USE DEF IngestInv
  <1>2. CASE UNCHANGED vars
    BY <1>1, <1>2 DEF vars, ingestVars, IngestTypeOK
  <1>3. ASSUME NEW r \in Req, NEW d \in Device, NEW b \in Batches,
               Refuse(r, d, b) \/ Receive(r, d, b)
        PROVE  IngestTypeOK'
    <2>1. b \in Seq(Events)
      BY BatchesAssumption
    <2>2. PICK j : job' = [job EXCEPT ![r] = j] /\ j \in Job
      <3>1. CASE Refuse(r, d, b)
        BY <3>1 DEF Refuse, Job
      <3>2. CASE Receive(r, d, b)
        <4>1. PICK ps \in Positions(b) :
                job' = [job EXCEPT ![r] = [device |-> d, events |-> b, positions |-> ps]]
          BY <3>2 DEF Receive
        <4>2. ps \in Seq(Nat)
          BY <2>1, PositionsFacts
        <4>3. [device |-> d, events |-> b, positions |-> ps] \in Job
          BY <2>1, <4>2 DEF Job
        <4> QED BY <4>1, <4>3
      <3> QED BY <1>3, <3>1, <3>2
    <2>3. PICK x : results' = [results EXCEPT ![r] = x] /\ x \in Seq(Answer \cup {NoAnswer})
      <3>1. CASE Refuse(r, d, b)
        <4>1. <<>> \in Seq(Answer \cup {NoAnswer})
          OBVIOUS
        <4> QED BY <3>1, <4>1 DEF Refuse
      <3>2. CASE Receive(r, d, b)
        BY <2>1, <3>2, CheckedType DEF Receive
      <3> QED BY <1>3, <3>1, <3>2
    <2>4. /\ stored' = [stored EXCEPT ![r] = <<>>]
          /\ at' = [at EXCEPT ![r] = 1]
          /\ \E v \in {"none", "bad_request"} : reply' = [reply EXCEPT ![r] = v]
          /\ pc' = pc \/ pc' = [pc EXCEPT ![r] = "next"]
          /\ plan' = plan
      BY <1>3 DEF Refuse, Receive, Goto
    <2>5. /\ stored' \in [Req -> Seq(Answer)] /\ at' \in [Req -> Nat \ {0}]
          /\ job' \in [Req -> Job] /\ results' \in [Req -> Seq(Answer \cup {NoAnswer})]
      BY <2>2, <2>3, <2>4 DEF IngestTypeOK
    <2> QED BY <1>1, <2>4, <2>5 DEF IngestTypeOK, Stages
  <1>4. ASSUME NEW r \in Req, Reject(r) PROVE IngestTypeOK'
    <2>1. Rejected(Ev(r)) \in Answer
      BY <1>4, EvType DEF Reject, Answer, Rejected
    <2>2. /\ stored' = [stored EXCEPT ![r] = Append(@, Rejected(Ev(r)))]
          /\ at' = [at EXCEPT ![r] = @ + 1]
          /\ UNCHANGED <<pc, job, results, plan, reply>>
      BY <1>4 DEF Reject, Record
    <2> QED BY <1>1, <2>1, <2>2 DEF IngestTypeOK
  <1>10. ASSUME NEW r \in Req, Respond(r) PROVE IngestTypeOK'
    <2>1. PICK x : results' = [results EXCEPT ![r] = x] /\ x \in Seq(Answer \cup {NoAnswer})
      BY <1>10, PlaceType DEF Respond, IngestTypeOK
    <2> QED BY <1>1, <1>10, <2>1 DEF Respond, Goto, IngestTypeOK, Stages
  <1>5. ASSUME NEW r \in Req, Begin(r) \/ Lock(r) \/ Insert(r) \/ Index(r)
        PROVE  IngestTypeOK'
    BY <1>1, <1>5 DEF Begin, Lock, Insert, Index, Goto, IngestTypeOK, Stages
  <1>6. ASSUME NEW r \in Req, LookupRepeat(r) PROVE IngestTypeOK'
    <2>1. Ev(r) \in Events
      BY <1>6, InTransactionEv DEF LookupRepeat, InTransaction
    <2>2. PICK row \in Earlier(Ev(r)) :
            plan' = [plan EXCEPT ![r] = [NoPlan EXCEPT !.answer = RepeatAnswer(row, Ev(r))]]
      BY <1>6 DEF LookupRepeat
    <2>3. RepeatAnswer(row, Ev(r)) \in Answer
      BY <2>1, RepeatAnswerType DEF Earlier, IngestTypeOK
    <2>4. [NoPlan EXCEPT !.answer = RepeatAnswer(row, Ev(r))] \in Plan
      BY <2>3 DEF NoPlan, Plan
    <2> QED BY <1>1, <1>6, <2>2, <2>4 DEF LookupRepeat, Goto, IngestTypeOK, Stages
  <1>7. ASSUME NEW r \in Req, LookupFresh(r) PROVE IngestTypeOK'
    <2> DEFINE e == Ev(r)
               row == entities[e.entity_id]
    <2>1. e \in Events /\ e.entity_id \in EntityId
      BY <1>7, InTransactionEv DEF LookupFresh, InTransaction
    <2>2. row \in Entity \cup {NoRow}
      BY <2>1 DEF IngestTypeOK, StoreTypeOK
    <2>3. [verdict |-> Verdict(row, e), row |-> row,
           answer |-> FreshAnswer(Verdict(row, e), row, e)] \in Plan
      BY <2>1, <2>2, FreshAnswerType DEF Plan
    <2> QED BY <1>1, <1>7, <2>3 DEF LookupFresh, Goto, IngestTypeOK, Stages
  <1>8. ASSUME NEW r \in Req, Commit(r) PROVE IngestTypeOK'
    <2>1. plan[r].answer \in Answer
      BY <1>8 DEF Commit, Consistent
    <2>2. /\ stored' \in [Req -> Seq(Answer)]
          /\ at' \in [Req -> Nat \ {0}]
      BY <1>8, <2>1 DEF Commit, Record, IngestTypeOK
    <2>3. NoPlan \in Plan
      BY DEF NoPlan, Plan
    <2> QED BY <1>1, <1>8, <2>2, <2>3 DEF Commit, Goto, IngestTypeOK, Stages
  <1>9. ASSUME NEW r \in Req,
               \/ Fail(r) \/ CommitUnacknowledged(r) \/ LockFails(r) \/ LookupFails(r)
               \/ InsertFails(r) \/ IndexFails(r)
        PROVE  IngestTypeOK'
    <2>1. GiveUp(r)
      BY <1>9 DEF Fail, CommitUnacknowledged, LockFails, LookupFails, InsertFails, IndexFails
    <2> QED BY <1>1, <2>1 DEF GiveUp, Goto, IngestTypeOK, Stages, NoPlan, Plan
  <1> QED BY <1>2, <1>3, <1>4, <1>5, <1>6, <1>7, <1>8, <1>9, <1>10 DEF IngestNext, Progress
-----------------------------------------------------------------------------
(* What the other requests rely on *)

\* The step is one of request r: the others keep their local state.
Frame(r) ==
  \A q \in Req \ {r} :
    /\ pc'[q] = pc[q] /\ job'[q] = job[q] /\ at'[q] = at[q] /\ plan'[q] = plan[q]

LEMMA FrameEv ==
  ASSUME NEW r \in Req, Frame(r), NEW q \in Req \ {r}
  PROVE  /\ Ev(q)' = Ev(q) /\ Pending(q)' = Pending(q)
         /\ InTransaction(q)' = InTransaction(q)
         /\ HoldsLock(q)' = HoldsLock(q)
         /\ HasInserted(q)' = HasInserted(q)
         /\ HasIndexed(q)' = HasIndexed(q)
  BY DEF Frame, Ev, Pending, InTransaction, HoldsLock, HasInserted, HasIndexed

\* As long as the tables do not change, the others stay consistent.
LEMMA OthersConsistent ==
  ASSUME IngestInv, NEW r \in Req, Frame(r), UNCHANGED storeVars,
         NEW q \in Req \ {r}
  PROVE  Consistent(q)'
  <1>1. Consistent(q)
    BY DEF IngestInv
  <1>2. /\ pc'[q] = pc[q] /\ job'[q] = job[q] /\ at'[q] = at[q] /\ plan'[q] = plan[q]
        /\ revisions' = revisions /\ entities' = entities
    BY DEF Frame, storeVars
  <1>3. PlanStands(q)' <=> PlanStands(q)
    BY <1>2, FrameEv DEF PlanStands
  <1>4. Unseen(Ev(q))' <=> Unseen(Ev(q))
    BY <1>2, FrameEv DEF Unseen
  <1> QED BY <1>1, <1>2, <1>3, <1>4, FrameEv DEF Consistent

\* Requests stay apart unless the step takes a lock or inserts.
LEMMA StaysApart ==
  ASSUME IngestInv, NEW r \in Req, Frame(r),
         HoldsLock(r)' => HoldsLock(r) /\ Ev(r)' = Ev(r),
         HasInserted(r)' => HasInserted(r) /\ Ev(r)' = Ev(r)
  PROVE  \A p, q \in Req : p # q => Apart(p, q)'
  <1> SUFFICES ASSUME NEW p \in Req, NEW q \in Req, p # q PROVE Apart(p, q)'
    OBVIOUS
  <1>1. Apart(p, q)
    BY DEF IngestInv
  <1>2. ASSUME NEW s \in {p, q}
        PROVE  /\ HoldsLock(s)' => HoldsLock(s) /\ Ev(s)' = Ev(s)
               /\ HasInserted(s)' => HasInserted(s) /\ Ev(s)' = Ev(s)
    BY FrameEv
  <1> QED BY <1>1, <1>2 DEF Apart

\* A step of r that leaves the tables alone and takes no lock or key only has to
\* keep r itself consistent.
LEMMA LocalStep ==
  ASSUME IngestInv, IngestTypeOK', NEW r \in Req, Frame(r), UNCHANGED storeVars,
         HoldsLock(r)' => HoldsLock(r) /\ Ev(r)' = Ev(r),
         HasInserted(r)' => HasInserted(r) /\ Ev(r)' = Ev(r),
         Consistent(r)'
  PROVE  IngestInv'
  BY OthersConsistent, StaysApart DEF IngestInv

\* A request that leaves its transaction holds nothing.
LEMMA OutsideHoldsNothing ==
  ASSUME NEW r \in Req, pc[r] \in {"idle", "next", "locking"}
  PROVE  ~ HoldsLock(r) /\ ~ HasInserted(r) /\ ~ HasIndexed(r)
  BY DEF HoldsLock, HasInserted, HasIndexed
-----------------------------------------------------------------------------
(* The steps *)

LEMMA ReceiveStep ==
  ASSUME IngestInv, IngestTypeOK', NEW r \in Req, NEW d \in Device, NEW b \in Batches,
         Refuse(r, d, b) \/ Receive(r, d, b)
  PROVE  IngestInv'
  <1>1. /\ pc'[r] \in {"idle", "next"} /\ (pc'[r] = "next" => job'[r].device = d)
        /\ Frame(r) /\ UNCHANGED storeVars
    BY DEF Refuse, Receive, IngestInv, IngestTypeOK, Goto, Frame
  <1>2. Consistent(r)'
    BY <1>1 DEF Consistent, InTransaction, HasInserted, HasIndexed
  <1>3. ~ HoldsLock(r)' /\ ~ HasInserted(r)'
    BY <1>1 DEF HoldsLock, HasInserted
  <1> QED BY <1>1, <1>2, <1>3, LocalStep

LEMMA OutsideStep ==
  ASSUME IngestInv, IngestTypeOK', NEW r \in Req, Reject(r) \/ Respond(r)
  PROVE  IngestInv'
  <1>1. /\ pc[r] = "next" /\ pc'[r] \in {"idle", "next"} /\ job' = job
        /\ Frame(r) /\ UNCHANGED storeVars
    BY DEF Reject, Respond, Record, IngestInv, IngestTypeOK, Goto, Frame
  <1>2. Consistent(r)'
    BY <1>1 DEF IngestInv, Consistent, InTransaction, HasInserted, HasIndexed
  <1>3. ~ HoldsLock(r)' /\ ~ HasInserted(r)'
    BY <1>1 DEF HoldsLock, HasInserted
  <1> QED BY <1>1, <1>2, <1>3, LocalStep

LEMMA BeginStep ==
  ASSUME IngestInv, IngestTypeOK', NEW r \in Req, Begin(r)
  PROVE  IngestInv'
  <1>1. /\ pc[r] = "next" /\ pc'[r] = "locking" /\ job' = job /\ at' = at
        /\ Frame(r) /\ UNCHANGED storeVars
    BY DEF Begin, IngestInv, IngestTypeOK, Goto, Frame
  <1>2. Ev(r)' = Ev(r) /\ Pending(r)' /\ Admissible(Ev(r))
    BY <1>1, EvType DEF Begin, Ev, Pending, Admissible, IngestInv
  <1>4. Consistent(r)'
    BY <1>1, <1>2 DEF IngestInv, Consistent, InTransaction, HasInserted, HasIndexed
  <1>3. ~ HoldsLock(r)' /\ ~ HasInserted(r)'
    BY <1>1 DEF HoldsLock, HasInserted
  <1> QED BY <1>1, <1>3, <1>4, LocalStep

LEMMA LockStep ==
  ASSUME IngestInv, IngestTypeOK', NEW r \in Req, Lock(r)
  PROVE  IngestInv'
  <1>1. /\ pc[r] = "locking" /\ pc'[r] = "lookup" /\ job' = job /\ at' = at
        /\ Frame(r) /\ UNCHANGED storeVars
    BY DEF Lock, IngestInv, IngestTypeOK, Goto, Frame
  <1>2. Ev(r)' = Ev(r) /\ Pending(r)' = Pending(r)
    BY <1>1 DEF Ev, Pending
  <1>3. Consistent(r)'
    BY <1>1, <1>2 DEF IngestInv, Consistent, InTransaction, HasInserted, HasIndexed
  <1>4. ASSUME NEW q \in Req \ {r} PROVE Apart(q, r)' /\ Apart(r, q)'
    <2>1. ~ HasInserted(r)'
      BY <1>1 DEF HasInserted
    <2>2. HoldsLock(q) => HashText[Ev(q).entity_id] # HashText[Ev(r).entity_id]
      BY DEF Lock, WaitsForLock
    <2> QED BY <1>1, <1>2, <2>1, <2>2, FrameEv DEF Apart
  <1>5. ASSUME NEW p \in Req \ {r}, NEW q \in Req \ {r}, p # q PROVE Apart(p, q)'
    BY <1>1, <1>5, FrameEv DEF IngestInv, Apart
  <1>6. \A p, q \in Req : p # q => Apart(p, q)'
    BY <1>4, <1>5
  <1>7. \A q \in Req : Consistent(q)'
    BY <1>1, <1>3, OthersConsistent
  <1> QED BY <1>6, <1>7 DEF IngestInv

LEMMA LookupRepeatStep ==
  ASSUME IngestInv, IngestTypeOK', NEW r \in Req, LookupRepeat(r)
  PROVE  IngestInv'
  <1>1. /\ pc[r] = "lookup" /\ pc'[r] = "commit" /\ job' = job /\ at' = at
        /\ Frame(r) /\ UNCHANGED storeVars
    BY DEF LookupRepeat, IngestInv, IngestTypeOK, Goto, Frame
  <1>2. Ev(r)' = Ev(r) /\ Pending(r)' = Pending(r)
    BY <1>1 DEF Ev, Pending
  <1>3. Ev(r) \in Events /\ Admissible(Ev(r))
    BY <1>1, InTransactionEv DEF InTransaction
  <1>4. plan'[r].verdict = "none" /\ plan'[r].answer \in Answer
    <2>1. PICK row \in Earlier(Ev(r)) :
            plan' = [plan EXCEPT ![r] = [NoPlan EXCEPT !.answer = RepeatAnswer(row, Ev(r))]]
      BY DEF LookupRepeat
    <2>2. RepeatAnswer(row, Ev(r)) \in Answer
      BY <1>3, RepeatAnswerType DEF Earlier, IngestInv, IngestTypeOK
    <2> QED BY <2>1, <2>2 DEF NoPlan, IngestInv, IngestTypeOK
  <1>5. Consistent(r)'
    BY <1>1, <1>2, <1>4 DEF IngestInv, Consistent, InTransaction, HasInserted, HasIndexed
  <1>6. HoldsLock(r) /\ ~ HasInserted(r)'
    BY <1>1, <1>4 DEF HoldsLock, HasInserted
  <1> QED BY <1>1, <1>2, <1>5, <1>6, LocalStep

LEMMA LookupFreshStep ==
  ASSUME IngestInv, IngestTypeOK', NEW r \in Req, LookupFresh(r)
  PROVE  IngestInv'
  <1> DEFINE e == Ev(r)
             row == entities[e.entity_id]
  <1>1. /\ pc[r] = "lookup" /\ pc'[r] = "insert" /\ job' = job /\ at' = at
        /\ Frame(r) /\ UNCHANGED storeVars
        /\ plan'[r] = [verdict |-> Verdict(row, e), row |-> row,
                       answer |-> FreshAnswer(Verdict(row, e), row, e)]
    BY DEF LookupFresh, IngestInv, IngestTypeOK, Goto, Frame
  <1>2. Ev(r)' = e /\ Pending(r)' = Pending(r)
    BY <1>1 DEF Ev, Pending
  <1>3. e \in Events /\ Admissible(e) /\ e.entity_id \in EntityId
    BY <1>1, InTransactionEv DEF InTransaction
  <1>4. row \in Entity \cup {NoRow}
    BY <1>3 DEF IngestInv, IngestTypeOK, StoreTypeOK
  <1>5. plan'[r].verdict \in Status /\ plan'[r].answer \in Answer
    BY <1>1, <1>3, <1>4, FreshAnswerType
  <1>6. PlanStands(r)'
    <2>1. \A s \in revisions : ~ SameRevision(s, e)
      BY DEF LookupFresh, Earlier
    <2> QED BY <1>1, <1>2, <2>1 DEF PlanStands, storeVars
  <1>7. ~ HasInserted(r)' /\ ~ HasIndexed(r)'
    BY <1>1 DEF HasInserted, HasIndexed
  <1>8. Consistent(r)'
    BY <1>1, <1>2, <1>5, <1>6, <1>7 DEF IngestInv, Consistent, InTransaction, Status
  <1>9. HoldsLock(r)
    BY <1>1 DEF HoldsLock
  <1> QED BY <1>1, <1>2, <1>7, <1>8, <1>9, LocalStep

LEMMA InsertStep ==
  ASSUME IngestInv, IngestTypeOK', NEW r \in Req, Insert(r)
  PROVE  IngestInv'
  <1>1. /\ pc[r] = "insert" /\ pc'[r] \in {"index", "commit"}
        /\ pc'[r] = "index" <=> plan[r].verdict = "synced"
        /\ job' = job /\ at' = at /\ plan' = plan
        /\ Frame(r) /\ UNCHANGED storeVars
    BY DEF Insert, IngestInv, IngestTypeOK, Goto, Frame
  <1>2. Ev(r)' = Ev(r) /\ Pending(r)' = Pending(r)
    BY <1>1 DEF Ev, Pending
  <1>3. Unseen(Ev(r))' /\ RevisionStorable(Ev(r)')
    BY <1>1, <1>2 DEF Insert, Unseen, storeVars
  <1>4. PlanStands(r)' <=> PlanStands(r)
    BY <1>1, <1>2 DEF PlanStands, storeVars
  <1>5. ~ HasIndexed(r)'
    BY <1>1 DEF HasIndexed
  <1>6. Consistent(r)'
    BY <1>1, <1>2, <1>3, <1>4, <1>5 DEF IngestInv, Consistent, InTransaction
  <1>7. HoldsLock(r)
    BY <1>1 DEF HoldsLock
  <1>8. ASSUME NEW q \in Req \ {r} PROVE Apart(q, r)' /\ Apart(r, q)'
    <2>1. Apart(q, r)
      BY DEF IngestInv
    <2>2. HasInserted(q) => Ev(q).event_id # Ev(r).event_id
      BY DEF Insert, WaitsForKey
    <2> QED BY <1>1, <1>2, <1>7, <2>1, <2>2, FrameEv DEF Apart
  <1>9. ASSUME NEW p \in Req \ {r}, NEW q \in Req \ {r}, p # q PROVE Apart(p, q)'
    BY <1>1, <1>9, FrameEv DEF IngestInv, Apart
  <1>10. \A p, q \in Req : p # q => Apart(p, q)'
    BY <1>8, <1>9
  <1>11. \A q \in Req : Consistent(q)'
    BY <1>1, <1>6, OthersConsistent
  <1> QED BY <1>10, <1>11 DEF IngestInv

LEMMA IndexStep ==
  ASSUME IngestInv, IngestTypeOK', NEW r \in Req, Index(r)
  PROVE  IngestInv'
  <1>1. /\ pc[r] = "index" /\ pc'[r] = "commit"
        /\ job' = job /\ at' = at /\ plan' = plan
        /\ Frame(r) /\ UNCHANGED storeVars
    BY DEF Index, IngestInv, IngestTypeOK, Goto, Frame
  <1>2. Ev(r)' = Ev(r) /\ Pending(r)' = Pending(r)
    BY <1>1 DEF Ev, Pending
  <1>3. /\ PlanStands(r)' <=> PlanStands(r)
        /\ Unseen(Ev(r))' <=> Unseen(Ev(r))
    BY <1>1, <1>2 DEF PlanStands, Unseen, storeVars
  <1>4. HoldsLock(r) /\ HasInserted(r)
    BY <1>1 DEF HoldsLock, HasInserted, IngestInv, Consistent
  <1>5. IndexStorable(Ev(r)')
    BY <1>2 DEF Index
  <1>6. Consistent(r)'
    BY <1>1, <1>2, <1>3, <1>4, <1>5 DEF IngestInv, Consistent, InTransaction
  <1> QED BY <1>1, <1>2, <1>4, <1>6, LocalStep

LEMMA GiveUpStep ==
  ASSUME IngestInv, IngestTypeOK', NEW r \in Req, GiveUp(r), UNCHANGED storeVars
  PROVE  IngestInv'
  <1>1. pc'[r] = "idle" /\ Frame(r)
    BY DEF GiveUp, IngestInv, IngestTypeOK, Goto, Frame
  <1>2. Consistent(r)'
    BY <1>1 DEF Consistent, InTransaction, HasInserted, HasIndexed
  <1>3. ~ HoldsLock(r)' /\ ~ HasInserted(r)'
    BY <1>1 DEF HoldsLock, HasInserted
  <1> QED BY <1>1, <1>2, <1>3, LocalStep

\* A commit changes the tables under the other transactions.  The lock keeps
\* their entities out of it, the unique key their event ids.
LEMMA CommitStep ==
  ASSUME IngestInv, IngestTypeOK', NEW r \in Req, Commit(r) \/ CommitUnacknowledged(r)
  PROVE  IngestInv'
  <1> DEFINE e == Ev(r)
             verdict == plan[r].verdict
  <1>1. /\ pc[r] = "commit" /\ pc'[r] \in {"idle", "next"} /\ job' = job
        /\ Frame(r) /\ Effect(r)
    BY DEF Commit, CommitUnacknowledged, GiveUp, Record, IngestInv, IngestTypeOK, Goto, Frame
  <1>2. Consistent(r)'
    BY <1>1 DEF IngestInv, Consistent, InTransaction, HasInserted, HasIndexed
  <1>3. ~ HoldsLock(r)' /\ ~ HasInserted(r)'
    BY <1>1 DEF HoldsLock, HasInserted
  <1>4. CASE verdict = "none"
    <2>1. UNCHANGED storeVars
      BY <1>1, <1>4 DEF Effect
    <2> QED BY <1>1, <1>2, <1>3, <2>1, LocalStep
  <1>5. CASE verdict # "none"
    <2>1. HoldsLock(r) /\ HasInserted(r) /\ e.entity_id \in EntityId
      BY <1>1, <1>5, InTransactionEv DEF HoldsLock, HasInserted, InTransaction
    <2>2. PICK new : revisions' = revisions \cup {new} /\ new.event = e
      <3>1. PICK status, c : InsertRevision(job[r].device, e, status, c)
        BY <1>1, <1>5 DEF Effect
      <3> DEFINE row == [event |-> e, device |-> job[r].device,
                         apply_status |-> status, conflict_of |-> c]
      <3>2. revisions' = revisions \cup {row} /\ row.event = e
        BY <3>1 DEF InsertRevision
      <3> HIDE DEF row
      <3> QED BY <3>2
    <2>3. \A x \in EntityId \ {e.entity_id} : entities'[x] = entities[x]
      BY <1>1, <1>5 DEF Effect, UpsertEntity, IngestInv, IngestTypeOK, StoreTypeOK
    <2>4. ASSUME NEW q \in Req \ {r} PROVE Consistent(q)'
      <3>1. Consistent(q) /\ Apart(q, r)
        BY DEF IngestInv
      <3>2. /\ pc'[q] = pc[q] /\ job'[q] = job[q] /\ at'[q] = at[q] /\ plan'[q] = plan[q]
        BY <1>1 DEF Frame
      <3>3. HoldsLock(q) => Ev(q).entity_id \in EntityId \ {e.entity_id}
        BY <2>1, <3>1, InTransactionEv DEF Apart, HoldsLock, InTransaction
      <3>4. HoldsLock(q) /\ PlanStands(q) => PlanStands(q)'
        BY <1>1, <2>2, <2>3, <3>2, <3>3, FrameEv DEF PlanStands, SameRevision
      <3>5. HasInserted(q) => HoldsLock(q) /\ Ev(q).event_id # e.event_id
        BY <2>1, <3>1 DEF HasInserted, HoldsLock, Apart
      <3>6. HasInserted(q) /\ Unseen(Ev(q)) => Unseen(Ev(q))'
        BY <1>1, <2>2, <3>3, <3>5, FrameEv DEF Unseen, SameEvent, SameRevision
      <3>7. pc[q] \in {"insert", "index", "commit"} => HoldsLock(q)
        BY DEF HoldsLock
      <3> QED BY <1>1, <3>1, <3>2, <3>4, <3>6, <3>7, FrameEv DEF Consistent
    <2> QED BY <1>1, <1>2, <1>3, <2>4, StaysApart DEF IngestInv
  <1> QED BY <1>4, <1>5
-----------------------------------------------------------------------------
(* The invariant and the refinement *)

LEMMA IngestInvInit == IngestInit => IngestInv
  <1> SUFFICES ASSUME IngestInit PROVE IngestInv
    OBVIOUS
  <1>1. \A r \in Req : pc[r] = "idle"
    BY DEF IngestInit
  <1>2. \A r \in Req : Consistent(r)
    BY <1>1 DEF Consistent, InTransaction, HasInserted, HasIndexed
  <1>3. \A q, r \in Req : Apart(q, r)
    BY <1>1 DEF Apart, HoldsLock, HasInserted
  <1> QED BY <1>2, <1>3, IngestTypeInit DEF IngestInv

LEMMA IngestInvStep == IngestInv /\ [IngestNext]_vars => IngestInv'
  <1> SUFFICES ASSUME IngestInv, [IngestNext]_vars PROVE IngestInv'
    OBVIOUS
  <1>1. IngestTypeOK'
    BY IngestTypeStep
  <1>2. CASE UNCHANGED vars
    <2>1. \A r \in Req : Ev(r)' = Ev(r) /\ Pending(r)' = Pending(r)
      BY <1>2 DEF Ev, Pending, vars, ingestVars
    <2>2. \A r \in Req : Consistent(r)'
      BY <1>2, <2>1 DEF IngestInv, Consistent, PlanStands, Unseen, InTransaction,
                        HasInserted, HasIndexed, vars, storeVars, ingestVars
    <2>3. \A q, r \in Req : q # r => Apart(q, r)'
      BY <1>2, <2>1 DEF IngestInv, Apart, HoldsLock, HasInserted, vars, ingestVars
    <2> QED BY <1>1, <2>2, <2>3 DEF IngestInv
  <1>3. ASSUME NEW r \in Req, NEW d \in Device, NEW b \in Batches,
               Refuse(r, d, b) \/ Receive(r, d, b)
        PROVE  IngestInv'
    BY <1>1, <1>3, ReceiveStep
  <1>4. ASSUME NEW r \in Req, Progress(r) PROVE IngestInv'
    <2>1. CASE Reject(r) \/ Respond(r)
      BY <1>1, <2>1, OutsideStep
    <2>2. CASE Begin(r)
      BY <1>1, <2>2, BeginStep
    <2>3. CASE Lock(r)
      BY <1>1, <2>3, LockStep
    <2>4. CASE LookupRepeat(r)
      BY <1>1, <2>4, LookupRepeatStep
    <2>5. CASE LookupFresh(r)
      BY <1>1, <2>5, LookupFreshStep
    <2>6. CASE Insert(r)
      BY <1>1, <2>6, InsertStep
    <2>7. CASE Index(r)
      BY <1>1, <2>7, IndexStep
    <2>8. CASE Commit(r)
      BY <1>1, <2>8, CommitStep
    <2>9. CASE LockFails(r) \/ LookupFails(r) \/ InsertFails(r) \/ IndexFails(r)
      BY <1>1, <2>9, GiveUpStep DEF LockFails, LookupFails, InsertFails, IndexFails
    <2> QED BY <1>4, <2>1, <2>2, <2>3, <2>4, <2>5, <2>6, <2>7, <2>8, <2>9 DEF Progress
  <1>5. ASSUME NEW r \in Req, Fail(r) PROVE IngestInv'
    BY <1>1, <1>5, GiveUpStep DEF Fail
  <1>6. ASSUME NEW r \in Req, CommitUnacknowledged(r) PROVE IngestInv'
    BY <1>1, <1>6, CommitStep
  <1> QED BY <1>2, <1>3, <1>4, <1>5, <1>6 DEF IngestNext

\* The invariant holds in every reachable state; its first part is the type
\* invariant of the requests and the tables.
THEOREM IngestInvariant == IngestSafe => []IngestInv
  BY IngestInvInit, IngestInvStep, PTL DEF IngestSafe

\* The concurrent, failing transactions of all requests change the tables like
\* some serial order of single events: the store specification is implemented.
THEOREM IngestImplementsStore == IngestSafe => ImplementsStore
  <1>1. IngestInit => StoreInit
    BY DEF IngestInit
  <1> QED BY <1>1, StepRefines, IngestInvariant, PTL DEF IngestSafe, ImplementsStore, StoreSpec

\* No interleaving of requests lets two revisions of one version both win.
THEOREM IngestOneWinner == IngestSafe => []OneWinnerPerVersion
  BY IngestImplementsStore, OneWinnerCorrect, PTL DEF ImplementsStore

\* No interleaving takes the projection away from the newest accepted revision.
THEOREM IngestProjection == IngestSafe => []ProjectionIsNewest
  BY IngestImplementsStore, ProjectionCorrect, PTL DEF ImplementsStore

\* No interleaving leaves a loser without the accepted revision that it lost to.
THEOREM IngestLosers == IngestSafe => []LosersNameTheirWinner
  BY IngestImplementsStore, LosersCorrect, PTL DEF ImplementsStore

\* No interleaving of the transactions that upsert one content row loses a content
\* or answers for one that no accepted event has.
THEOREM IngestContentIndex == IngestSafe => []ContentIndexSound
  BY IngestImplementsStore, ContentIndexCorrect, PTL DEF ImplementsStore

\* No interleaving of the transactions that upsert one archive row loses what one of
\* them said, although each computes the row from the row that it finds.
THEOREM IngestArchiveIndex == IngestSafe => []ArchiveIndexAggregates
  BY IngestImplementsStore, ArchiveIndexCorrect, PTL DEF ImplementsStore

\* No step of any request, and no failure, rewrites history or takes a table back.
THEOREM IngestNothingIsUndone == IngestSafe => NothingIsUndone
  BY IngestImplementsStore, NothingIsUndoneCorrect, PTL DEF ImplementsStore
-----------------------------------------------------------------------------
(* Waiting *)

\* The stages of a transaction are the order in which it takes what others may wait
\* for, so the request of a group that is furthest waits for none of the group.
LEMMA FurthestGoesOn ==
  ASSUME NEW S \in SUBSET Req, S # {}
  PROVE  \E r \in S : \A q \in S : ~ WaitsFor(r, q)
  <1> SUFFICES ASSUME \A r \in S : \E q \in S : WaitsFor(r, q) PROVE FALSE
    OBVIOUS
  <1>1. \A r \in S : pc[r] \in {"next", "locking", "insert", "index"}
    BY DEF WaitsFor
  <1>2. \A r \in S : pc[r] # "index"
    BY <1>1 DEF WaitsFor, WaitsForIndex, HasIndexed
  <1>3. \A r \in S : pc[r] # "insert"
    BY <1>1, <1>2 DEF WaitsFor, WaitsForKey, HasInserted
  <1>4. \A r \in S : pc[r] # "locking"
    BY <1>1, <1>2, <1>3 DEF WaitsFor, WaitsForLock, HoldsLock
  <1>5. \A r \in S : pc[r] = "next"
    BY <1>1, <1>2, <1>3, <1>4
  <1>6. \A r \in S : ~ InTransaction(r)
    BY <1>5 DEF InTransaction
  <1> QED BY <1>5, <1>6 DEF WaitsFor

\* NoCircularWait: no group of requests waits for each other, however many there are,
\* however few connections, and whatever collides in the hash function.
THEOREM NoCircularWaitCorrect == IngestSafe => []NoCircularWait
  <1>1. NoCircularWait
    BY FurthestGoesOn DEF NoCircularWait
  <1> QED BY <1>1, PTL

\* What Progress(r) asks for besides the stage of r.
CanGoOn(r) ==
  \/ /\ pc[r] = "next"
     /\ ~ Pending(r) \/ ~ IndexOK(Ev(r)) \/ PoolHasRoom
  \/ pc[r] = "locking" /\ \A q \in Req : ~ WaitsForLock(r, q)
  \/ pc[r] = "lookup"
  \/ pc[r] = "insert" /\ \A q \in Req : ~ WaitsForKey(r, q)
  \/ pc[r] = "index" /\ \A q \in Req : ~ WaitsForIndex(r, q)
  \/ pc[r] = "commit"

\* As long as a batch has no reply, a request can go on.
SomeoneCanGoOn == (\E r \in Req : pc[r] # "idle") => \E r \in Req : CanGoOn(r)

LEMMA SomeoneGoesOn ==
  ASSUME IngestTypeOK
  PROVE  SomeoneCanGoOn
  <1> DEFINE Busy == {r \in Req : pc[r] # "idle"}
  <1> SUFFICES ASSUME Busy # {} PROVE \E r \in Req : CanGoOn(r)
    BY DEF SomeoneCanGoOn
  <1>1. PICK r \in Busy : \A q \in Busy : ~ WaitsFor(r, q)
    BY FurthestGoesOn
  <1>2. \A q \in Req : HoldsLock(q) \/ HasInserted(q) \/ HasIndexed(q) \/ InTransaction(q) => q \in Busy
    BY DEF HoldsLock, HasInserted, HasIndexed, InTransaction
  <1>3. \A q \in Req : ~ WaitsFor(r, q)
    BY <1>1, <1>2 DEF WaitsFor, WaitsForLock, WaitsForKey, WaitsForIndex
  <1>4. pc[r] \in Stages \ {"idle"}
    BY DEF IngestTypeOK
  <1>5. CASE pc[r] = "next" /\ Pending(r) /\ IndexOK(Ev(r))
    <2>1. CASE \E q \in Req : InTransaction(q)
      BY <1>3, <1>5, <2>1 DEF WaitsFor, CanGoOn
    <2>2. CASE \A q \in Req : ~ InTransaction(q)
      <3>1. {q \in Req : InTransaction(q)} = {}
        BY <2>2
      <3>2. PoolHasRoom
        BY <3>1, FS_EmptySet, LimitAssumption DEF PoolHasRoom
      <3> QED BY <1>5, <3>2 DEF CanGoOn
    <2> QED BY <2>1, <2>2
  <1>6. CASE pc[r] = "next" /\ ~ (Pending(r) /\ IndexOK(Ev(r)))
    BY <1>6 DEF CanGoOn
  <1>7. CASE pc[r] # "next"
    BY <1>3, <1>4, <1>7 DEF WaitsFor, CanGoOn, Stages
  <1> QED BY <1>5, <1>6, <1>7

\* The locks, the unique keys and the pool never bring the server to a standstill.
THEOREM IngestNeverStandsStill == IngestSafe => []SomeoneCanGoOn
  <1>1. IngestInv => SomeoneCanGoOn
    BY SomeoneGoesOn DEF IngestInv
  <1> QED BY <1>1, IngestInvariant, PTL
-----------------------------------------------------------------------------
(* The replies *)

\* What the answer a tells about event e of device d is true of the rows.
Holds(rows, a, e, d) ==
  /\ (a.status = "rejected") <=> ~ Admissible(e)
  /\ a.status = "synced" =>
       [event |-> e, device |-> d, apply_status |-> "synced",
        conflict_of |-> NoRow] \in rows
  /\ a.status = "conflict" =>
       \E row \in rows : SameRevision(row, e) /\ row.apply_status = "conflict"
  /\ a.status = "duplicate" => \E row \in rows : SameEvent(row, e) \/ SameRevision(row, e)
  /\ a.status = "conflict" /\ a.cloud # NoRow => IsConflict(a.cloud, e)
  /\ a.cloud # NoRow =>
       \E row \in rows : /\ row.apply_status = "synced" /\ row.event = a.cloud
                        /\ row.event.entity_id = e.entity_id

\* The answer is one about event e.
Answers(a, e) == a # NoAnswer /\ a.event.event_id = e.event_id

\* What the reply has at position i.
Told200(r, i) ==
  /\ Holds(revisions, results[r][i], job[r].events[i], job[r].device)
  /\ Answers(results[r][i], job[r].events[i])

\* As long as ApplyRevisions works, the results are those of the checks and there is
\* an answer for every valid event before the current one; what will be answered
\* next is true already or will be so with the commit.
Replying(r) ==
  /\ pc[r] # "idle" =>
       /\ results[r] = Checked(job[r].events)
       /\ at[r] <= Len(job[r].positions) + 1
       /\ Len(stored[r]) = at[r] - 1
       /\ \A k \in DOMAIN stored[r] :
            /\ Holds(revisions, stored[r][k], job[r].events[job[r].positions[k]], job[r].device)
            /\ Answers(stored[r][k], job[r].events[job[r].positions[k]])
  /\ pc[r] \in {"insert", "index", "commit"} =>
       IF plan[r].verdict = "none"
       THEN Holds(revisions, plan[r].answer, Ev(r), job[r].device) /\ Answers(plan[r].answer, Ev(r))
       ELSE plan[r].answer = FreshAnswer(plan[r].verdict, plan[r].row, Ev(r))
  /\ reply[r] = "ok" =>
       /\ pc[r] = "idle" /\ Len(results[r]) = Len(job[r].events)
       /\ \A i \in DOMAIN results[r] : Told200(r, i)

ReplyInv == IngestInv /\ StoreInv /\ \A r \in Req : Replying(r)

LEMMA RevisionsGrow == [StoreNext]_storeVars => revisions \subseteq revisions'
  BY DEF StoreNext, Accept, RecordLoser, InsertRevision, storeVars

\* What was true stays true, because no revision is ever removed.
LEMMA HoldsOn ==
  ASSUME NEW rows, NEW more, rows \subseteq more, NEW a, NEW e, NEW d, Holds(rows, a, e, d)
  PROVE  Holds(more, a, e, d)
  BY DEF Holds

LEMMA RepeatHolds ==
  ASSUME StoreTypeOK, NEW e \in Events, Admissible(e), NEW d, NEW row \in Earlier(e)
  PROVE  Holds(revisions, RepeatAnswer(row, e), e, d) /\ Answers(RepeatAnswer(row, e), e)
  <1>1. row \in revisions /\ (SameEvent(row, e) \/ SameRevision(row, e))
    BY DEF Earlier
  <1>2. row.apply_status \in Status
    BY <1>1 DEF StoreTypeOK, Revision
  <1>3. \E s \in revisions : SameEvent(s, e) \/ SameRevision(s, e)
    BY <1>1
  <1>4. CASE SameEvent(row, e)
    BY <1>3, <1>4 DEF RepeatAnswer, Holds, Answers, NoAnswer, SameEvent
  <1>5. CASE ~ SameEvent(row, e)
    <2>1. SameRevision(row, e)
      BY <1>1, <1>5
    <2> DEFINE a == [status |-> IF row.apply_status = "synced" THEN "duplicate" ELSE row.apply_status,
                     event |-> e, cloud |-> NoRow]
    <2>2. RepeatAnswer(row, e) = a
      BY <1>5 DEF RepeatAnswer
    <2>3. a.event = e /\ a.cloud = NoRow /\ a.status \in {"duplicate", "conflict"}
      BY <1>2 DEF Status
    <2>4. a.status = "conflict" => row.apply_status = "conflict"
      OBVIOUS
    <2> HIDE DEF a
    <2> QED BY <1>1, <1>3, <2>1, <2>2, <2>3, <2>4 DEF Holds, Answers, NoAnswer
  <1> QED BY <1>4, <1>5

\* The answer that was decided with the verdict holds once the row is stored.
LEMMA FreshHolds ==
  ASSUME NEW e, Admissible(e), NEW d, NEW row, NEW c,
         NEW verdict, verdict = Verdict(row, e),
         verdict = "synced" => c = NoRow,
         verdict # "synced" =>
           \E w \in revisions : /\ w.apply_status = "synced" /\ w.event = row.event
                               /\ w.event.entity_id = e.entity_id,
         InsertRevision(d, e, verdict, c)
  PROVE  /\ Holds(revisions', FreshAnswer(verdict, row, e), e, d)
         /\ Answers(FreshAnswer(verdict, row, e), e)
  <1> DEFINE a == FreshAnswer(verdict, row, e)
             new == [event |-> e, device |-> d, apply_status |-> verdict, conflict_of |-> c]
  <1>1. /\ a.status = verdict /\ a.event = e
        /\ a.cloud = IF verdict = "synced" THEN NoRow ELSE row.event
    BY DEF FreshAnswer
  <1>2. new \in revisions' /\ new.event = e /\ new.apply_status = verdict
    BY DEF InsertRevision
  <1>3. SameEvent(new, e) /\ SameRevision(new, e)
    BY <1>2 DEF SameEvent, SameRevision
  <1>4. verdict \in {"synced", "conflict", "duplicate"}
        /\ (verdict = "conflict" => IsConflict(row.event, e))
    BY DEF Verdict
  <1>5. verdict = "synced" =>
          new = [event |-> e, device |-> d, apply_status |-> "synced", conflict_of |-> NoRow]
    OBVIOUS
  <1>6. Answers(a, e)
    BY <1>1, <1>4 DEF Answers, NoAnswer
  <1>7. revisions \subseteq revisions'
    BY DEF InsertRevision
  <1> HIDE DEF a, new
  <1>8. Holds(revisions', a, e, d)
    BY <1>1, <1>2, <1>3, <1>4, <1>5, <1>7 DEF Holds
  <1> QED BY <1>6, <1>8 DEF a

LEMMA KeepsReplying ==
  ASSUME NEW r \in Req, Replying(r), revisions \subseteq revisions',
         pc'[r] = pc[r], job'[r] = job[r], at'[r] = at[r], stored'[r] = stored[r],
         results'[r] = results[r], plan'[r] = plan[r], reply'[r] = reply[r]
  PROVE  Replying(r)'
  <1>1. Ev(r)' = Ev(r)
    BY DEF Ev
  <1>2. pc[r] # "idle" => \A k \in DOMAIN stored[r] :
          Holds(revisions', stored[r][k], job[r].events[job[r].positions[k]], job[r].device)
    BY HoldsOn DEF Replying
  <1>3. pc[r] \in {"insert", "index", "commit"} /\ plan[r].verdict = "none" =>
          Holds(revisions', plan[r].answer, Ev(r), job[r].device)
    BY HoldsOn DEF Replying
  <1>4. reply[r] = "ok" => \A i \in DOMAIN results[r] : Told200(r, i)'
    BY HoldsOn DEF Replying, Told200
  <1> QED BY <1>1, <1>2, <1>3, <1>4 DEF Replying

\* One more true answer for the current event.
LEMMA AppendsReply ==
  ASSUME IngestTypeOK, NEW r \in Req, Replying(r), revisions \subseteq revisions',
         Pending(r), pc[r] # "idle", pc'[r] = "next",
         job' = job, results' = results, reply' = reply, NEW a \in Answer,
         Holds(revisions', a, Ev(r), job[r].device), Answers(a, Ev(r)),
         at'[r] = at[r] + 1, stored'[r] = Append(stored[r], a)
  PROVE  Replying(r)'
  <1> DEFINE n == Len(stored[r])
             e(k) == job[r].events[job[r].positions[k]]
  <1>1. stored[r] \in Seq(Answer) /\ n \in Nat /\ at[r] = n + 1 /\ at[r] \in Nat
        /\ Len(job[r].positions) \in Nat
    BY JobFacts DEF IngestTypeOK, Replying
  <1>2. /\ Len(stored'[r]) = n + 1 /\ DOMAIN stored'[r] = 1..(n + 1)
        /\ stored'[r][n + 1] = a
        /\ \A k \in 1..n : stored'[r][k] = stored[r][k]
        /\ DOMAIN stored[r] = 1..n
    BY <1>1
  <1> HIDE DEF n
  <1>3. \A k \in 1..n :
          /\ Holds(revisions', stored'[r][k], e(k), job[r].device)
          /\ Answers(stored'[r][k], e(k))
    BY <1>2, HoldsOn DEF Replying
  <1>4. Ev(r) = e(n + 1)
    BY <1>1 DEF Ev
  <1>5. \A k \in 1..(n + 1) :
          /\ Holds(revisions', stored'[r][k], e(k), job[r].device)
          /\ Answers(stored'[r][k], e(k))
    BY <1>1, <1>2, <1>3, <1>4
  <1>6. reply[r] # "ok" /\ results[r] = Checked(job[r].events)
    BY DEF Replying
  <1>7. at'[r] <= Len(job[r].positions) + 1
    BY <1>1 DEF Pending
  <1> QED BY <1>1, <1>2, <1>5, <1>6, <1>7 DEF Replying

LEMMA GiveUpReplies ==
  ASSUME IngestTypeOK, NEW r \in Req, GiveUp(r)
  PROVE  Replying(r)'
  <1>1. pc'[r] = "idle" /\ reply'[r] = "unavailable"
    BY DEF GiveUp, Goto, IngestTypeOK
  <1> QED BY <1>1 DEF Replying

\* The answers of the second pass fill exactly the gaps that the first one left.
LEMMA PlaceFills ==
  ASSUME NEW b \in Seq(Events), NEW ps \in Positions(b), NEW answers \in Seq(Answer),
         Len(answers) = Len(ps), NEW i \in 1..Len(b)
  PROVE  /\ ValidRevisionEvent(b[i]) =>
              \E k \in DOMAIN answers :
                ps[k] = i /\ Place(Checked(b), ps, answers)[i] = answers[k]
         /\ ~ ValidRevisionEvent(b[i]) =>
              Place(Checked(b), ps, answers)[i] = Rejected(b[i])
  <1>1. DOMAIN answers = DOMAIN ps
    BY PositionsFacts
  <1>2. DOMAIN Checked(b) = 1..Len(b) /\ DOMAIN b = 1..Len(b)
    BY DEF Checked
  <1>3. CASE ValidRevisionEvent(b[i])
    <2>1. \E k \in DOMAIN answers : ps[k] = i
      <3>1. i \in DOMAIN b
        BY <1>2
      <3>2. \A j \in DOMAIN b : ValidRevisionEvent(b[j]) => \E k \in DOMAIN ps : ps[k] = j
        BY PositionsFacts
      <3> QED BY <1>1, <1>3, <3>1, <3>2
    <2> DEFINE c == CHOOSE k \in DOMAIN answers : ps[k] = i
    <2>2. c \in DOMAIN answers /\ ps[c] = i
      BY <2>1
    <2>3. Place(Checked(b), ps, answers)[i] = answers[c]
      BY <1>2, <2>1 DEF Place
    <2> HIDE DEF c
    <2> QED BY <1>3, <2>2, <2>3
  <1>4. CASE ~ ValidRevisionEvent(b[i])
    <2>1. ~ \E k \in DOMAIN answers : ps[k] = i
      BY <1>1, <1>4, PositionsFacts
    <2>2. Checked(b)[i] = Rejected(b[i])
      BY <1>4 DEF Checked
    <2> QED BY <1>2, <1>4, <2>1, <2>2 DEF Place
  <1> QED BY <1>3, <1>4

LEMMA RejectedHolds ==
  ASSUME NEW e, ~ Admissible(e), NEW d, NEW rows
  PROVE  Holds(rows, Rejected(e), e, d) /\ Answers(Rejected(e), e)
  BY DEF Holds, Answers, Rejected, NoAnswer

LEMMA RespondReplies ==
  ASSUME IngestInv, NEW r \in Req, Replying(r), Respond(r)
  PROVE  Replying(r)'
  <1> DEFINE b == job[r].events
             ps == job[r].positions
  <1>1. /\ pc[r] = "next" /\ pc'[r] = "idle" /\ ~ Pending(r) /\ reply'[r] = "ok"
        /\ results'[r] = Place(results[r], ps, stored[r])
        /\ job' = job /\ revisions' = revisions
    BY DEF Respond, Goto, IngestInv, IngestTypeOK, storeVars
  <1>2. /\ b \in Seq(Events) /\ ps \in Positions(b) /\ Len(ps) \in Nat /\ at[r] \in Nat
        /\ stored[r] \in Seq(Answer)
    BY JobFacts DEF IngestInv, IngestTypeOK
  <1>3. Len(stored[r]) = Len(ps) /\ results[r] = Checked(b)
    BY <1>1, <1>2 DEF Replying, Pending
  <1>4. results'[r] = Place(Checked(b), ps, stored[r])
    BY <1>1, <1>3
  <1>5. Len(results'[r]) = Len(b) /\ DOMAIN results'[r] = 1..Len(b)
    <2>1. Checked(b) \in Seq(Answer \cup {NoAnswer}) /\ Len(Checked(b)) = Len(b)
      BY <1>2, CheckedType
    <2>2. /\ results'[r] \in Seq(Answer \cup {NoAnswer})
          /\ Len(results'[r]) = Len(b)
      BY <1>2, <1>4, <2>1, PlaceType
    <2> QED BY <2>2
  <1>6. ASSUME NEW i \in 1..Len(b)
        PROVE  /\ Holds(revisions, results'[r][i], b[i], job[r].device)
               /\ Answers(results'[r][i], b[i])
    <2>1. CASE ValidRevisionEvent(b[i])
      <3>1. \E k \in DOMAIN stored[r] :
              ps[k] = i /\ Place(Checked(b), ps, stored[r])[i] = stored[r][k]
        BY <1>2, <1>3, <2>1, PlaceFills
      <3>2. PICK k \in DOMAIN stored[r] : ps[k] = i /\ results'[r][i] = stored[r][k]
        BY <1>4, <3>1
      <3> QED BY <1>1, <3>2 DEF Replying
    <2>2. CASE ~ ValidRevisionEvent(b[i])
      <3>1. Place(Checked(b), ps, stored[r])[i] = Rejected(b[i])
        BY <1>2, <1>3, <2>2, PlaceFills
      <3> QED BY <1>4, <2>2, <3>1, RejectedHolds DEF Admissible
    <2> QED BY <2>1, <2>2
  <1>7. \A i \in DOMAIN results'[r] : Told200(r, i)'
    BY <1>1, <1>5, <1>6 DEF Told200
  <1> QED BY <1>1, <1>5, <1>7 DEF Replying

\* A step on the way through the transaction that decides nothing.
LEMMA PassesOn ==
  ASSUME IngestTypeOK, NEW r \in Req, Replying(r), UNCHANGED storeVars,
         job' = job, at' = at, stored' = stored, results' = results, reply' = reply,
         pc[r] # "idle",
         \/ pc'[r] \notin {"insert", "index", "commit"}
         \/ pc[r] \in {"insert", "index", "commit"} /\ plan' = plan
  PROVE  Replying(r)'
  <1>1. Ev(r)' = Ev(r) /\ revisions' = revisions
    BY DEF Ev, storeVars
  <1>2. reply[r] # "ok"
    BY DEF Replying
  <1> QED BY <1>1, <1>2 DEF Replying

LEMMA LookupReplies ==
  ASSUME IngestInv, NEW r \in Req, Replying(r), LookupRepeat(r) \/ LookupFresh(r)
  PROVE  Replying(r)'
  <1> DEFINE e == Ev(r)
             row == entities[e.entity_id]
  <1>1. /\ pc[r] = "lookup" /\ job' = job /\ at' = at /\ stored' = stored
        /\ results' = results /\ reply' = reply /\ revisions' = revisions
    BY DEF LookupRepeat, LookupFresh, storeVars
  <1>2. reply[r] # "ok" /\ e \in Events /\ Admissible(e) /\ Ev(r)' = e
    BY <1>1, InTransactionEv DEF Replying, InTransaction, Ev
  <1>3. CASE LookupRepeat(r)
    <2>1. PICK s \in Earlier(e) :
            plan' = [plan EXCEPT ![r] = [NoPlan EXCEPT !.answer = RepeatAnswer(s, e)]]
      BY <1>3 DEF LookupRepeat
    <2>2. plan'[r].verdict = "none" /\ plan'[r].answer = RepeatAnswer(s, e)
      BY <2>1 DEF NoPlan, IngestInv, IngestTypeOK
    <2>3. /\ Holds(revisions, RepeatAnswer(s, e), e, job[r].device)
          /\ Answers(RepeatAnswer(s, e), e)
      BY <1>2, RepeatHolds DEF IngestInv, IngestTypeOK
    <2> QED BY <1>1, <1>2, <2>2, <2>3 DEF Replying
  <1>4. CASE LookupFresh(r)
    <2>1. /\ plan'[r].verdict = Verdict(row, e) /\ plan'[r].row = row
          /\ plan'[r].answer = FreshAnswer(Verdict(row, e), row, e)
      BY <1>4 DEF LookupFresh, IngestInv, IngestTypeOK
    <2>2. Verdict(row, e) # "none"
      BY DEF Verdict
    <2> QED BY <1>1, <1>2, <2>1, <2>2 DEF Replying
  <1> QED BY <1>3, <1>4

LEMMA CommitReplies ==
  ASSUME IngestInv, ProjectionIsNewest, NEW r \in Req, Replying(r),
         revisions \subseteq revisions', Commit(r)
  PROVE  Replying(r)'
  <1> DEFINE e == Ev(r)
             d == job[r].device
             a == plan[r].answer
             verdict == plan[r].verdict
  <1>1. /\ pc[r] = "commit" /\ pc'[r] = "next" /\ job' = job /\ results' = results
        /\ reply' = reply
        /\ at'[r] = at[r] + 1 /\ stored'[r] = Append(stored[r], a) /\ Effect(r)
    BY DEF Commit, Record, Goto, IngestInv, IngestTypeOK
  <1>2. a \in Answer /\ Pending(r) /\ Admissible(e)
    BY <1>1 DEF IngestInv, Consistent, InTransaction
  <1>3. CASE verdict = "none"
    <2>1. Holds(revisions', a, e, d) /\ Answers(a, e)
      BY <1>1, <1>3, HoldsOn DEF Replying
    <2> QED BY <1>1, <1>2, <2>1, AppendsReply DEF IngestInv
  <1>4. CASE verdict # "none"
    <2>1. a = FreshAnswer(verdict, plan[r].row, e)
      BY <1>1, <1>4 DEF Replying
    <2>2. verdict = Verdict(plan[r].row, e)
      BY <1>1, <1>4 DEF IngestInv, Consistent, PlanStands
    <2>3. PICK c : InsertRevision(d, e, verdict, c) /\ (verdict = "synced" => c = NoRow)
      <3>1. CASE verdict = "synced"
        BY <1>1, <3>1 DEF Effect
      <3>2. CASE verdict \in {"conflict", "duplicate"}
        BY <1>1, <3>2 DEF Effect
      <3> QED BY <1>1, <1>4, <3>1, <3>2 DEF Effect
    <2>5. verdict # "synced" =>
            \E w \in revisions : /\ w.apply_status = "synced" /\ w.event = plan[r].row.event
                                /\ w.event.entity_id = e.entity_id
      <3>1. plan[r].row = entities[e.entity_id] /\ e.entity_id \in EntityId
        BY <1>1, <1>2, <1>4, InTransactionEv, AdmissibleEvent
           DEF IngestInv, Consistent, PlanStands, InTransaction
      <3>2. verdict # "synced" => entities[e.entity_id] # NoRow
        BY <2>2, <3>1 DEF Verdict
      <3> HIDE DEF e, verdict
      <3> QED BY <3>1, <3>2 DEF ProjectionIsNewest, Rows
    <2> HIDE DEF e, d, a, verdict
    <2>4. Holds(revisions', a, e, d) /\ Answers(a, e)
      BY <1>2, <2>1, <2>2, <2>3, <2>5, FreshHolds
    <2> USE DEF e, d, a, verdict
    <2> QED BY <1>1, <1>2, <2>4, AppendsReply DEF IngestInv
  <1> QED BY <1>3, <1>4

LEMMA ReceiveReplies ==
  ASSUME IngestTypeOK, IngestTypeOK', NEW r \in Req, NEW d \in Device, NEW b \in Batches,
         Refuse(r, d, b) \/ Receive(r, d, b)
  PROVE  Replying(r)'
  <1>1. CASE Refuse(r, d, b)
    <2>1. pc'[r] = "idle" /\ reply'[r] = "bad_request"
      BY <1>1 DEF Refuse, IngestTypeOK
    <2> QED BY <2>1 DEF Replying
  <1>2. CASE Receive(r, d, b)
    <2>1. /\ pc'[r] = "next" /\ reply'[r] = "none" /\ at'[r] = 1 /\ stored'[r] = <<>>
          /\ results'[r] = Checked(b)
      BY <1>2 DEF Receive, Goto, IngestTypeOK
    <2>2. job'[r].events = b
      BY <1>2 DEF Receive, IngestTypeOK
    <2>3. Len(job'[r].positions) \in Nat
      BY JobFacts
    <2> QED BY <2>1, <2>2, <2>3 DEF Replying
  <1> QED BY <1>1, <1>2

LEMMA ReplyInvStep == ReplyInv /\ [IngestNext]_vars => ReplyInv'
  <1> SUFFICES ASSUME ReplyInv, [IngestNext]_vars PROVE ReplyInv'
    OBVIOUS
  <1> USE DEF ReplyInv
  <1>1. IngestInv' /\ StoreInv'
    BY IngestInvStep, StepRefines, StoreInvStep
  <1>2. revisions \subseteq revisions'
    BY StepRefines, RevisionsGrow
  <1>3. CASE UNCHANGED vars
    BY <1>1, <1>2, <1>3, KeepsReplying DEF vars, ingestVars
  <1>4. ASSUME NEW r \in Req,
               \A q \in Req \ {r} :
                 /\ pc'[q] = pc[q] /\ job'[q] = job[q] /\ at'[q] = at[q]
                 /\ stored'[q] = stored[q] /\ results'[q] = results[q]
                 /\ plan'[q] = plan[q] /\ reply'[q] = reply[q],
               Replying(r)'
        PROVE  ReplyInv'
    BY <1>1, <1>2, <1>4, KeepsReplying
  <1>5. ASSUME NEW r \in Req, NEW d \in Device, NEW b \in Batches,
               Refuse(r, d, b) \/ Receive(r, d, b)
        PROVE  ReplyInv'
    <2>1. Replying(r)'
      BY <1>1, <1>5, ReceiveReplies DEF IngestInv
    <2> QED BY <1>4, <1>5, <2>1 DEF Refuse, Receive, Goto, IngestInv, IngestTypeOK
  <1>6. ASSUME NEW r \in Req, Reject(r) PROVE ReplyInv'
    <2> DEFINE a == Rejected(Ev(r))
    <2>1. a \in Answer
      BY <1>6, EvType DEF Reject, Answer, Rejected, IngestInv
    <2>2. Holds(revisions', a, Ev(r), job[r].device) /\ Answers(a, Ev(r))
      BY <1>6, RejectedHolds DEF Reject, Admissible
    <2>3. /\ pc[r] = "next" /\ pc' = pc /\ job' = job /\ results' = results /\ reply' = reply
          /\ at'[r] = at[r] + 1 /\ stored'[r] = Append(stored[r], a)
          /\ Pending(r)
      BY <1>6 DEF Reject, Record, IngestInv, IngestTypeOK
    <2> HIDE DEF a
    <2>4. Replying(r)'
      BY <1>2, <2>1, <2>2, <2>3, AppendsReply DEF IngestInv
    <2> QED BY <1>4, <1>6, <2>4 DEF Reject, Record, IngestInv, IngestTypeOK
  <1>7. ASSUME NEW r \in Req, Respond(r) PROVE ReplyInv'
    <2>1. Replying(r)'
      BY <1>7, RespondReplies
    <2> QED BY <1>4, <1>7, <2>1 DEF Respond, Goto, IngestInv, IngestTypeOK
  <1>8. ASSUME NEW r \in Req, Begin(r) \/ Lock(r) \/ Insert(r) \/ Index(r)
        PROVE  ReplyInv'
    <2>1. /\ UNCHANGED storeVars /\ job' = job /\ at' = at /\ stored' = stored
          /\ results' = results /\ reply' = reply /\ pc[r] # "idle" /\ plan' = plan
      BY <1>8 DEF Begin, Lock, Insert, Index
    <2>2. \/ pc'[r] \notin {"insert", "index", "commit"}
          \/ pc[r] \in {"insert", "index", "commit"}
      BY <1>8 DEF Begin, Lock, Insert, Index, Goto, IngestInv, IngestTypeOK
    <2>3. Replying(r)'
      BY <2>1, <2>2, PassesOn DEF IngestInv
    <2> QED BY <1>4, <1>8, <2>3 DEF Begin, Lock, Insert, Index, Goto, IngestInv, IngestTypeOK
  <1>9. ASSUME NEW r \in Req, LookupRepeat(r) \/ LookupFresh(r) PROVE ReplyInv'
    <2>1. Replying(r)'
      BY <1>9, LookupReplies
    <2> QED BY <1>4, <1>9, <2>1 DEF LookupRepeat, LookupFresh, Goto, IngestInv, IngestTypeOK
  <1>10. ASSUME NEW r \in Req, Commit(r) PROVE ReplyInv'
    <2>1. Replying(r)'
      BY <1>2, <1>10, CommitReplies DEF StoreInv
    <2> QED BY <1>4, <1>10, <2>1 DEF Commit, Record, Goto, IngestInv, IngestTypeOK
  <1>11. ASSUME NEW r \in Req,
                \/ Fail(r) \/ CommitUnacknowledged(r) \/ LockFails(r) \/ LookupFails(r)
                \/ InsertFails(r) \/ IndexFails(r)
         PROVE  ReplyInv'
    <2>1. GiveUp(r)
      BY <1>11 DEF Fail, CommitUnacknowledged, LockFails, LookupFails, InsertFails, IndexFails
    <2>2. Replying(r)'
      BY <2>1, GiveUpReplies DEF IngestInv
    <2> QED BY <1>4, <2>1, <2>2 DEF GiveUp, Goto, IngestInv, IngestTypeOK
  <1> QED BY <1>3, <1>5, <1>6, <1>7, <1>8, <1>9, <1>10, <1>11 DEF IngestNext, Progress

LEMMA ReplyInvariant == IngestSafe => []ReplyInv
  <1>1. IngestInit => ReplyInv
    <2>1. IngestInit => \A r \in Req : Replying(r)
      BY DEF IngestInit, Replying
    <2>2. IngestInit => StoreInit
      BY DEF IngestInit
    <2> QED BY <2>1, <2>2, IngestInvInit, StoreInvInit DEF ReplyInv
  <1> QED BY <1>1, ReplyInvStep, PTL DEF IngestSafe

\* Nothing a client was told about an event becomes false: what is answered synced
\* is stored as accepted, a conflict as lost, and a rejected event never was.
THEOREM RepliesTruthfulCorrect == IngestSafe => []RepliesTruthful
  <1>1. ReplyInv => RepliesTruthful
    <2> SUFFICES ASSUME ReplyInv, NEW r \in {q \in Req : reply[q] = "ok"},
                        NEW i \in DOMAIN results[r]
                 PROVE  LET a == results[r][i]
                            e == job[r].events[i]
                        IN /\ (a.status = "rejected") <=> ~ Admissible(e)
                           /\ a.status = "synced" =>
                                [event |-> e, device |-> job[r].device, apply_status |-> "synced",
                                 conflict_of |-> NoRow] \in revisions
                           /\ a.status = "conflict" =>
                                \E row \in revisions : SameRevision(row, e) /\ row.apply_status = "conflict"
                           /\ a.status = "duplicate" => ~ Unseen(e)
                           /\ a.cloud # NoRow =>
                                /\ a.status = "conflict" => IsConflict(a.cloud, e)
                                /\ \E row \in Synced :
                                     row.event = a.cloud /\ row.event.entity_id = e.entity_id
      BY DEF RepliesTruthful
    <2>1. Holds(revisions, results[r][i], job[r].events[i], job[r].device)
      BY DEF ReplyInv, Replying, Told200
    <2> QED BY <2>1 DEF Holds, Unseen, Synced
  <1> QED BY <1>1, ReplyInvariant, PTL

\* RepliesComplete: what the checks refused and what ApplyRevisions answered about the
\* rest, put back by position, is one answer for every event, in the place of the event.
THEOREM RepliesCompleteCorrect == IngestSafe => []RepliesComplete
  <1>1. ReplyInv => RepliesComplete
    BY DEF ReplyInv, Replying, Told200, Answers, RepliesComplete
  <1> QED BY <1>1, ReplyInvariant, PTL
-----------------------------------------------------------------------------
(* The batches that are answered 503 *)

\* Between its reads and its INSERT the event id of a request can only be taken for
\* another entity; once its batch was given up, what gave it up is still there.
Refusing(r) ==
  /\ pc[r] = "insert" =>
       \A row \in revisions : SameEvent(row, Ev(r)) => row.event.entity_id # Ev(r).entity_id
  /\ ~ DatabaseFails /\ reply[r] = "unavailable" =>
       /\ pc[r] = "idle"
       /\ Pending(r) /\ Admissible(Ev(r)) /\ Unstorable(Ev(r))

RefusalInv == IngestInv /\ \A r \in Req : Refusing(r)

LEMMA UnstorableStays ==
  ASSUME revisions \subseteq revisions', NEW e, Unstorable(e)
  PROVE  \/ ~ RevisionStorable(e)
         \/ ~ IndexStorable(e)
         \/ \E row \in revisions' : SameEvent(row, e) /\ row.event.entity_id # e.entity_id
  BY DEF Unstorable

\* The rows that a commit adds are of an entity that no other lock holder works on.
LEMMA NewRowsElsewhere ==
  ASSUME IngestInv, NEW r \in Req, Commit(r) \/ CommitUnacknowledged(r),
         NEW q \in Req \ {r}, HoldsLock(q)
  PROVE  \A row \in revisions' \ revisions : row.event.entity_id # Ev(q).entity_id
  <1>1. pc[r] = "commit" /\ Effect(r) /\ HoldsLock(r) /\ Apart(q, r)
    BY DEF Commit, CommitUnacknowledged, HoldsLock, IngestInv
  <1>2. Ev(r).entity_id # Ev(q).entity_id
    BY <1>1 DEF Apart
  <1>3. CASE plan[r].verdict = "none"
    BY <1>1, <1>3 DEF Effect, storeVars
  <1>4. CASE plan[r].verdict # "none"
    <2>1. PICK status, c : InsertRevision(job[r].device, Ev(r), status, c)
      BY <1>1, <1>4 DEF Effect
    <2>2. \A row \in revisions' \ revisions : row.event = Ev(r)
      BY <2>1 DEF InsertRevision
    <2> QED BY <1>2, <2>2
  <1> QED BY <1>3, <1>4

\* The requests that do not take the step.
LEMMA OthersRefusing ==
  ASSUME RefusalInv, [IngestNext]_vars, NEW r \in Req, NEW q \in Req \ {r},
         UNCHANGED storeVars \/ Commit(r) \/ CommitUnacknowledged(r),
         pc'[q] = pc[q], job'[q] = job[q], at'[q] = at[q], reply'[q] = reply[q]
  PROVE  Refusing(q)'
  <1>1. Ev(q)' = Ev(q) /\ Pending(q)' = Pending(q) /\ Refusing(q)
    BY DEF Ev, Pending, RefusalInv
  <1>2. revisions \subseteq revisions'
    BY StepRefines, RevisionsGrow DEF RefusalInv
  <1>3. ASSUME pc[q] = "insert", NEW row \in revisions', SameEvent(row, Ev(q))
        PROVE  row.event.entity_id # Ev(q).entity_id
    <2>1. HoldsLock(q)
      BY <1>3 DEF HoldsLock
    <2>2. CASE row \in revisions
      BY <1>1, <1>3, <2>2 DEF Refusing
    <2>3. CASE row \notin revisions
      BY <1>3, <2>1, <2>3, NewRowsElsewhere DEF RefusalInv, storeVars
    <2> QED BY <2>2, <2>3
  <1>4. ASSUME ~ DatabaseFails, reply[q] = "unavailable"
        PROVE  /\ pc[q] = "idle" /\ Pending(q) /\ Admissible(Ev(q))
               /\ Unstorable(Ev(q))'
    BY <1>1, <1>2, <1>4, UnstorableStays DEF Refusing, Unstorable
  <1> QED BY <1>1, <1>3, <1>4 DEF Refusing

LEMMA RefusalInvStep == RefusalInv /\ [IngestNext]_vars => RefusalInv'
  <1> SUFFICES ASSUME RefusalInv, [IngestNext]_vars PROVE RefusalInv'
    OBVIOUS
  <1>1. IngestInv' /\ IngestInv /\ IngestTypeOK
    BY IngestInvStep DEF RefusalInv, IngestInv
  <1>2. revisions \subseteq revisions'
    BY <1>1, StepRefines, RevisionsGrow
  <1>3. CASE UNCHANGED vars
    <2>1. ASSUME NEW r \in Req PROVE Refusing(r)'
      <3>1. Ev(r)' = Ev(r) /\ Pending(r)' = Pending(r) /\ revisions' = revisions
        BY <1>3 DEF Ev, Pending, vars, ingestVars, storeVars
      <3>2. Unstorable(Ev(r))' <=> Unstorable(Ev(r))
        BY <3>1 DEF Unstorable
      <3> QED BY <1>3, <3>1, <3>2 DEF RefusalInv, Refusing, vars, ingestVars
    <2> QED BY <1>1, <2>1 DEF RefusalInv
  <1>4. ASSUME NEW r \in Req,
               UNCHANGED storeVars \/ Commit(r) \/ CommitUnacknowledged(r),
               \A q \in Req \ {r} : /\ pc'[q] = pc[q] /\ job'[q] = job[q]
                                    /\ at'[q] = at[q] /\ reply'[q] = reply[q],
               Refusing(r)'
        PROVE  RefusalInv'
    BY <1>1, <1>4, OthersRefusing DEF RefusalInv
  <1>5. ASSUME NEW r \in Req, NEW d \in Device, NEW b \in Batches,
               Refuse(r, d, b) \/ Receive(r, d, b)
        PROVE  RefusalInv'
    <2>1. pc'[r] # "insert" /\ reply'[r] # "unavailable"
      BY <1>1, <1>5 DEF Refuse, Receive, Goto, IngestTypeOK
    <2> QED BY <1>1, <1>4, <1>5, <2>1 DEF Refuse, Receive, Goto, IngestTypeOK, Refusing
  <1>6. ASSUME NEW r \in Req,
               \/ Reject(r) \/ Respond(r) \/ Begin(r) \/ Lock(r)
               \/ LookupRepeat(r) \/ LookupFresh(r) \/ Insert(r) \/ Index(r) \/ Commit(r)
        PROVE  RefusalInv'
    <2>1. /\ pc[r] # "idle"
          /\ reply'[r] = reply[r] \/ reply'[r] = "ok"
          /\ UNCHANGED storeVars \/ Commit(r)
          /\ \A q \in Req \ {r} : /\ pc'[q] = pc[q] /\ job'[q] = job[q]
                                  /\ at'[q] = at[q] /\ reply'[q] = reply[q]
      BY <1>1, <1>6 DEF Reject, Respond, Begin, Lock, LookupRepeat, LookupFresh, Insert,
           Index, Commit, Record, Goto, IngestTypeOK
    <2>2. ~ DatabaseFails => reply'[r] # "unavailable"
      BY <2>1 DEF RefusalInv, Refusing
    <2>3. pc'[r] = "insert" => LookupFresh(r)
      BY <1>1, <1>6 DEF Reject, Respond, Begin, Lock, LookupRepeat, Insert,
           Index, Commit, Record, Goto, IngestTypeOK
    <2>4. LookupFresh(r) => \A row \in revisions' : ~ SameEvent(row, Ev(r)')
      BY DEF LookupFresh, Earlier, Ev, storeVars
    <2>5. Refusing(r)'
      BY <2>2, <2>3, <2>4 DEF Refusing
    <2> QED BY <1>4, <2>1, <2>5
  <1>7. ASSUME NEW r \in Req, Fail(r) \/ CommitUnacknowledged(r) PROVE RefusalInv'
    <2>1. GiveUp(r) /\ DatabaseFails /\ (UNCHANGED storeVars \/ CommitUnacknowledged(r))
      BY <1>7 DEF Fail, CommitUnacknowledged
    <2>2. Refusing(r)'
      BY <1>1, <2>1 DEF GiveUp, Goto, IngestTypeOK, Refusing
    <2> QED BY <1>1, <1>4, <2>1, <2>2 DEF GiveUp, Goto, IngestTypeOK
  <1>8. ASSUME NEW r \in Req,
               LockFails(r) \/ LookupFails(r) \/ InsertFails(r) \/ IndexFails(r)
        PROVE  RefusalInv'
    <2>1. /\ GiveUp(r) /\ UNCHANGED storeVars /\ InTransaction(r)
          /\ pc'[r] = "idle" /\ Ev(r)' = Ev(r) /\ Pending(r)' = Pending(r)
          /\ revisions' = revisions
      BY <1>1, <1>8 DEF LockFails, LookupFails, InsertFails, IndexFails, InTransaction, GiveUp,
           Goto, IngestTypeOK, Ev, Pending, storeVars
    <2>2. Pending(r) /\ Admissible(Ev(r))
      BY <1>1, <2>1 DEF IngestInv, Consistent
    <2>3. Unstorable(Ev(r))
      <3>1. CASE IndexFails(r)
        BY <3>1 DEF IndexFails, Unstorable
      <3>2. CASE InsertFails(r)
        <4>1. pc[r] = "insert" /\ (~ Unseen(Ev(r)) \/ ~ RevisionStorable(Ev(r)))
          BY <3>2 DEF InsertFails
        <4>2. PlanStands(r) /\ Refusing(r)
          BY <1>1, <4>1 DEF IngestInv, Consistent, RefusalInv
        <4> QED BY <4>1, <4>2 DEF Unseen, PlanStands, Refusing, Unstorable
      <3>3. CASE LockFails(r) \/ LookupFails(r)
        <4>1. Nul \in {Ev(r).entity_id, Ev(r).event_id, Ev(r).revision_id}
          BY <3>3 DEF LockFails, LookupFails, LookupRefused
        <4>2. ~ RevisionStorable(Ev(r))
          BY <4>1 DEF RevisionStorable
        <4> QED BY <4>2 DEF Unstorable
      <3> QED BY <1>8, <3>1, <3>2, <3>3
    <2>4. Unstorable(Ev(r))' <=> Unstorable(Ev(r))
      BY <2>1 DEF Unstorable
    <2>5. Refusing(r)'
      BY <2>1, <2>2, <2>3, <2>4 DEF GiveUp, Refusing
    <2> QED BY <1>1, <1>4, <2>1, <2>5 DEF GiveUp, Goto, IngestTypeOK
  <1> QED BY <1>3, <1>5, <1>6, <1>7, <1>8 DEF IngestNext, Progress

\* UnavailableHasACause: no order of requests and batches makes the server answer 503
\* to events that it could store, as long as the database does not fail.
THEOREM UnavailableHasACauseCorrect == IngestSafe => []UnavailableHasACause
  <1>1. IngestInit => RefusalInv
    <2>1. IngestInit => \A r \in Req : Refusing(r)
      BY DEF IngestInit, Refusing
    <2> QED BY <2>1, IngestInvInit DEF RefusalInv
  <1>2. RefusalInv => UnavailableHasACause
    BY DEF RefusalInv, Refusing, UnavailableHasACause
  <1> QED BY <1>1, <1>2, RefusalInvStep, PTL DEF IngestSafe
=============================================================================
