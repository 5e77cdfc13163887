---------------------------- MODULE RevisionIngest ----------------------------
(***************************************************************************)
(* POST /v1/sync/revisions as the server runs it: handleSyncRevisions takes *)
(* a batch, checks all its events and gives the valid ones to               *)
(* PostgresStore.ApplyRevisions, which runs one database transaction per    *)
(* event, at READ COMMITTED, behind an advisory lock on the hash of the     *)
(* entity id; the handler then puts the answers where the events were.      *)
(* Requests interleave between any two statements, any statement may fail,  *)
(* a commit may succeed without the server learning it, and clients send a  *)
(* batch again (Receive of the same batch).                                 *)
(*                                                                          *)
(* A statement of a transaction takes effect for the others at its commit,  *)
(* so the writes of a transaction are one step, Commit, and the steps before*)
(* it are the reads and the waits.  A process crash is a Fail of every      *)
(* request in flight: the server keeps no other state in memory.            *)
(***************************************************************************)
EXTENDS RevisionStore, Sequences, FiniteSets

CONSTANTS
  Req,          \* requests that the server may handle at the same time
  Batches,      \* the event lists that clients send
  MaxEvents,    \* the limit of a batch, 100 in the code
  PoolSize,     \* connections of the pgx pool
  LockKey,      \* the results of hashtext
  HashText,     \* hashtext on entity ids, which may collide
  DatabaseFails \* whether statements may fail for reasons outside the code

ASSUME BatchesAssumption == Batches \subseteq Seq(Events)
ASSUME HashAssumption == HashText \in [EntityId -> LockKey]
ASSUME LimitAssumption == MaxEvents \in Nat /\ PoolSize \in Nat \ {0}

VARIABLES
  pc,           \* where each request is
  job,          \* the device, the events of its latest batch and the positions
                \* of those that are valid
  at,           \* the valid event it works on
  stored,       \* storeResults: the answers to the valid events so far
  results,      \* the answers by position, as the handler replies with them
  plan,         \* what the reads of its transaction decided
  reply         \* the reply to its latest batch

ingestVars == <<pc, job, at, stored, results, plan, reply>>
vars == <<storeVars, ingestVars>>

\* validPositions: the positions of the valid events of batch b in their order, the
\* only member of the set.
Positions(b) ==
  LET valid == {i \in DOMAIN b : ValidRevisionEvent(b[i])}
  IN {ps \in UNION {[1..n -> valid] : n \in 0..Len(b)} :
        /\ \A k, l \in DOMAIN ps : k < l => ps[k] < ps[l]
        /\ \A i \in valid : \E k \in DOMAIN ps : ps[k] = i}

NoJob == [device |-> NoRow, events |-> <<>>, positions |-> <<>>]
NoPlan == [verdict |-> "none", row |-> NoRow, answer |-> NoRow]

Job == {j \in [device: Device, events: Seq(Events), positions: Seq(Nat)] :
          j.positions \in Positions(j.events)} \cup {NoJob}
Answer == [status: Status \cup {"rejected"}, event: Events, cloud: Events \cup {NoRow}]

\* The zero RevisionResult.
NoAnswer == [status |-> "none", event |-> NoRow, cloud |-> NoRow]
Rejected(e) == [status |-> "rejected", event |-> e, cloud |-> NoRow]

\* The results after the handler has checked the batch.
Checked(b) ==
  [i \in 1..Len(b) |-> IF ValidRevisionEvent(b[i]) THEN NoAnswer ELSE Rejected(b[i])]

Plan == [verdict: Status \cup {"none"}, row: Entity \cup {NoRow}, answer: Answer \cup {NoRow}]

Stages == {"idle", "next", "locking", "lookup", "insert", "index", "commit"}

IngestTypeOK ==
  /\ StoreTypeOK
  /\ pc \in [Req -> Stages]
  /\ job \in [Req -> Job]
  /\ at \in [Req -> Nat \ {0}]
  /\ stored \in [Req -> Seq(Answer)]
  /\ results \in [Req -> Seq(Answer \cup {NoAnswer})]
  /\ plan \in [Req -> Plan]
  /\ reply \in [Req -> {"none", "ok", "bad_request", "unavailable"}]

IngestInit ==
  /\ StoreInit
  /\ pc = [r \in Req |-> "idle"]
  /\ job = [r \in Req |-> NoJob]
  /\ at = [r \in Req |-> 1]
  /\ stored = [r \in Req |-> <<>>]
  /\ results = [r \in Req |-> <<>>]
  /\ plan = [r \in Req |-> NoPlan]
  /\ reply = [r \in Req |-> "none"]

\* ApplyRevisions has an event to work on, and the event.
Pending(r) == at[r] <= Len(job[r].positions)
Ev(r) == job[r].events[job[r].positions[at[r]]]

\* Variant: a request keeps a connection for itself between its transactions.
InTransactionAlways(r) == pc[r] # "idle"

\* A transaction has a connection of the pool to itself.
InTransaction(r) == pc[r] \in {"locking", "lookup", "insert", "index", "commit"}
HoldsLock(r) == pc[r] \in {"lookup", "insert", "index", "commit"}
HasInserted(r) == pc[r] \in {"index", "commit"} /\ plan[r].verdict # "none"
HasIndexed(r) == pc[r] = "commit" /\ plan[r].verdict = "synced"

Goto(r, stage) == pc' = [pc EXCEPT ![r] = stage]

\* What requests wait for: a connection, the advisory lock, and rows that another
\* transaction has inserted or updated and not committed.
PoolHasRoom == Cardinality({q \in Req : InTransaction(q)}) < PoolSize
WaitsForLock(r, q) == HoldsLock(q) /\ HashText[Ev(q).entity_id] = HashText[Ev(r).entity_id]
WaitsForKey(r, q) == q # r /\ HasInserted(q) /\ Ev(q).event_id = Ev(r).event_id
WaitsForIndex(r, q) ==
  /\ HasIndexed(q)
  /\ \/ IsContent(Ev(q)) /\ IsContent(Ev(r)) /\ ContentKey(Ev(q)) = ContentKey(Ev(r))
     \/ IsArchive(Ev(q)) /\ IsArchive(Ev(r)) /\ ArchiveKey(Ev(q)) = ArchiveKey(Ev(r))

\* Append the answer to the current event and turn to the next one.
Record(r, answer) ==
  /\ stored' = [stored EXCEPT ![r] = Append(@, answer)]
  /\ at' = [at EXCEPT ![r] = @ + 1]

\* Variant: the answers are put in the order of the valid events.
PlaceInOrder(array, positions, answers) ==
  [i \in DOMAIN array |-> IF i \in DOMAIN answers THEN answers[i] ELSE array[i]]

\* The answer to the k-th valid event goes where that event was.
Place(array, positions, answers) ==
  [i \in DOMAIN array |->
     IF \E k \in DOMAIN answers : positions[k] = i
     THEN answers[CHOOSE k \in DOMAIN answers : positions[k] = i]
     ELSE array[i]]
-----------------------------------------------------------------------------
(* handleSyncRevisions *)

\* A batch with no event or with too many is refused as a whole.
Refuse(r, d, b) ==
  /\ pc[r] = "idle"
  /\ Len(b) = 0 \/ Len(b) > MaxEvents
  /\ job' = [job EXCEPT ![r] = NoJob]
  /\ stored' = [stored EXCEPT ![r] = <<>>]
  /\ results' = [results EXCEPT ![r] = <<>>]
  /\ at' = [at EXCEPT ![r] = 1]
  /\ reply' = [reply EXCEPT ![r] = "bad_request"]
  /\ UNCHANGED <<storeVars, pc, plan>>

\* The whole batch is checked before ApplyRevisions is called.
Receive(r, d, b) ==
  /\ pc[r] = "idle"
  /\ Len(b) \in 1..MaxEvents
  /\ Goto(r, "next")
  /\ \E ps \in Positions(b) :
       job' = [job EXCEPT ![r] = [device |-> d, events |-> b, positions |-> ps]]
  /\ stored' = [stored EXCEPT ![r] = <<>>]
  /\ results' = [results EXCEPT ![r] = Checked(b)]
  /\ at' = [at EXCEPT ![r] = 1]
  /\ reply' = [reply EXCEPT ![r] = "none"]
  /\ UNCHANGED <<storeVars, plan>>

\* What ApplyRevisions returned is put into the reply.
Respond(r) ==
  /\ pc[r] = "next" /\ ~ Pending(r)
  /\ Goto(r, "idle")
  /\ results' = [results EXCEPT ![r] = Place(@, job[r].positions, stored[r])]
  /\ stored' = [stored EXCEPT ![r] = <<>>]
  /\ reply' = [reply EXCEPT ![r] = "ok"]
  /\ UNCHANGED <<storeVars, job, at, plan>>
-----------------------------------------------------------------------------
(* applyRevision *)

\* An event that the index extraction refuses is answered without the database.
Reject(r) ==
  /\ pc[r] = "next" /\ Pending(r)
  /\ ~ IndexOK(Ev(r))
  /\ Record(r, Rejected(Ev(r)))
  /\ UNCHANGED <<storeVars, pc, job, results, plan, reply>>

\* BeginTx takes a connection of the pool.
Begin(r) ==
  /\ pc[r] = "next" /\ Pending(r)
  /\ IndexOK(Ev(r))
  /\ PoolHasRoom
  /\ Goto(r, "locking")
  /\ UNCHANGED <<storeVars, job, at, stored, results, plan, reply>>

\* Variant: no advisory lock.
LockNothing(r) ==
  /\ pc[r] = "locking"
  /\ Goto(r, "lookup")
  /\ UNCHANGED <<storeVars, job, at, stored, results, plan, reply>>

\* pg_advisory_xact_lock: held until the transaction ends.
Lock(r) ==
  /\ pc[r] = "locking"
  /\ Ev(r).entity_id # Nul
  /\ \A q \in Req : ~ WaitsForLock(r, q)
  /\ Goto(r, "lookup")
  /\ UNCHANGED <<storeVars, job, at, stored, results, plan, reply>>

\* The row of the same event id or, failing that, of the same revision.
Earlier(e) ==
  LET byEvent == {row \in revisions : SameEvent(row, e)}
  IN IF byEvent # {} THEN byEvent ELSE {row \in revisions : SameRevision(row, e)}

\* Variant: whatever was stored under the event id counts as synced.
RepeatAnswerSynced(row, e) ==
  [status |-> IF SameEvent(row, e) THEN "synced" ELSE row.apply_status,
   event |-> e, cloud |-> NoRow]

\* The answer to an event that a stored row repeats: found by its event id it
\* is a duplicate whatever became of it, found by its revision it gets the
\* stored status.
RepeatAnswer(row, e) ==
  IF SameEvent(row, e)
  THEN [status |-> "duplicate", event |-> row.event, cloud |-> NoRow]
  ELSE [status |-> IF row.apply_status = "synced" THEN "duplicate" ELSE row.apply_status,
        event |-> e, cloud |-> NoRow]

FreshAnswer(verdict, row, e) ==
  [status |-> verdict, event |-> e,
   cloud  |-> IF verdict = "synced" THEN NoRow ELSE row.event]

\* A query of the reads is given a text that PostgreSQL refuses.
LookupRefused(e) ==
  \/ e.event_id = Nul
  \/ e.revision_id = Nul /\ \A row \in revisions : ~ SameEvent(row, e)

\* The reads under the lock: revisionExistsByEventID, revisionExistsByEntityRevision
\* and getCloudEntityForUpdate.  The lock freezes what the last two read, so they
\* are one step with the first.
LookupRepeat(r) ==
  /\ pc[r] = "lookup"
  /\ ~ LookupRefused(Ev(r))
  /\ \E row \in Earlier(Ev(r)) :
       plan' = [plan EXCEPT ![r] = [NoPlan EXCEPT !.answer = RepeatAnswer(row, Ev(r))]]
  /\ Goto(r, "commit")
  /\ UNCHANGED <<storeVars, job, at, stored, results, reply>>

LookupFresh(r) ==
  LET row == entities[Ev(r).entity_id]
      verdict == Verdict(row, Ev(r))
  IN /\ pc[r] = "lookup"
     /\ ~ LookupRefused(Ev(r)) /\ Earlier(Ev(r)) = {}
     /\ plan' = [plan EXCEPT ![r] = [verdict |-> verdict, row |-> row,
                                     answer |-> FreshAnswer(verdict, row, Ev(r))]]
     /\ Goto(r, "insert")
     /\ UNCHANGED <<storeVars, job, at, stored, results, reply>>

\* Variant: entity_revisions has no unique event_id.
InsertUnchecked(r) ==
  /\ pc[r] = "insert"
  /\ RevisionStorable(Ev(r))
  /\ Goto(r, IF plan[r].verdict = "synced" THEN "index" ELSE "commit")
  /\ UNCHANGED <<storeVars, job, at, stored, results, plan, reply>>

\* insertEntityRevision.  An uncommitted row with the same unique key makes it
\* wait; a committed one, or a value the column refuses, makes it fail.
Insert(r) ==
  /\ pc[r] = "insert"
  /\ \A q \in Req : ~ WaitsForKey(r, q)
  /\ Unseen(Ev(r)) /\ RevisionStorable(Ev(r))
  /\ Goto(r, IF plan[r].verdict = "synced" THEN "index" ELSE "commit")
  /\ UNCHANGED <<storeVars, job, at, stored, results, plan, reply>>

\* upsertContentObject or upsertArchiveObject.  The row stays locked until the
\* commit, so the values it is computed from are those the commit still finds.
Index(r) ==
  /\ pc[r] = "index"
  /\ \A q \in Req : ~ WaitsForIndex(r, q)
  /\ IndexStorable(Ev(r))
  /\ Goto(r, "commit")
  /\ UNCHANGED <<storeVars, job, at, stored, results, plan, reply>>

\* What the transaction leaves behind.
Effect(r) ==
  \/ /\ plan[r].verdict = "none"
     /\ UNCHANGED storeVars
  \/ /\ plan[r].verdict \in {"conflict", "duplicate"}
     /\ InsertRevision(job[r].device, Ev(r), plan[r].verdict, plan[r].row.event.revision_id)
     /\ UNCHANGED <<entities, contents, archives>>
  \/ /\ plan[r].verdict = "synced"
     /\ InsertRevision(job[r].device, Ev(r), "synced", NoRow)
     /\ UpsertEntity(job[r].device, Ev(r))
     /\ UpsertIndexes(Ev(r))

Commit(r) ==
  /\ pc[r] = "commit"
  /\ Effect(r)
  /\ Record(r, plan[r].answer)
  /\ plan' = [plan EXCEPT ![r] = NoPlan]
  /\ Goto(r, "next")
  /\ UNCHANGED <<job, results, reply>>
-----------------------------------------------------------------------------
(* Errors: ApplyRevisions returns at the first one and no result, and the *)
(* reply is 503                                                            *)

GiveUp(r) ==
  /\ Goto(r, "idle")
  /\ reply' = [reply EXCEPT ![r] = "unavailable"]
  /\ plan' = [plan EXCEPT ![r] = NoPlan]
  /\ stored' = [stored EXCEPT ![r] = <<>>]
  /\ results' = [results EXCEPT ![r] = <<>>]
  /\ UNCHANGED <<job, at>>

\* A statement fails, or the server or the connection dies: rollback.
Fail(r) ==
  /\ DatabaseFails
  /\ \/ InTransaction(r)
     \/ pc[r] = "next" /\ Pending(r) /\ IndexOK(Ev(r))
  /\ GiveUp(r)
  /\ UNCHANGED storeVars

\* The commit took effect, its acknowledgement was lost.
CommitUnacknowledged(r) ==
  /\ DatabaseFails
  /\ pc[r] = "commit"
  /\ Effect(r)
  /\ GiveUp(r)

\* PostgreSQL refuses the text of a parameter.
LockFails(r) ==
  /\ pc[r] = "locking"
  /\ Ev(r).entity_id = Nul
  /\ GiveUp(r)
  /\ UNCHANGED storeVars

LookupFails(r) ==
  /\ pc[r] = "lookup"
  /\ LookupRefused(Ev(r))
  /\ GiveUp(r)
  /\ UNCHANGED storeVars

\* Variant: a unique violation is not reported.
InsertFailsOnColumn(r) ==
  /\ pc[r] = "insert"
  /\ ~ RevisionStorable(Ev(r))
  /\ GiveUp(r)
  /\ UNCHANGED storeVars

\* The row violates a unique key, or a column cannot hold its value.
InsertFails(r) ==
  /\ pc[r] = "insert"
  /\ \A q \in Req : ~ WaitsForKey(r, q)
  /\ ~ Unseen(Ev(r)) \/ ~ RevisionStorable(Ev(r))
  /\ GiveUp(r)
  /\ UNCHANGED storeVars

IndexFails(r) ==
  /\ pc[r] = "index"
  /\ ~ IndexStorable(Ev(r))
  /\ GiveUp(r)
  /\ UNCHANGED storeVars
-----------------------------------------------------------------------------
Progress(r) ==
  \/ Reject(r) \/ Respond(r) \/ Begin(r) \/ Lock(r)
  \/ LookupRepeat(r) \/ LookupFresh(r) \/ Insert(r) \/ Index(r) \/ Commit(r)
  \/ LockFails(r) \/ LookupFails(r) \/ InsertFails(r) \/ IndexFails(r)

IngestNext ==
  \E r \in Req :
    \/ \E d \in Device, b \in Batches : Refuse(r, d, b) \/ Receive(r, d, b)
    \/ Progress(r)
    \/ Fail(r)
    \/ CommitUnacknowledged(r)

\* PostgreSQL and the pgx pool queue their waiters first in, first out, so a
\* request that can go on again and again does go on.
Fairness == \A r \in Req : SF_vars(Progress(r))

IngestSafe == IngestInit /\ [][IngestNext]_vars
IngestSpec == IngestSafe /\ Fairness
-----------------------------------------------------------------------------
(* Properties *)

\* What a 200 reply tells a client stays true, at every later time too and
\* whatever fails afterwards: an event answered "synced" is stored as accepted,
\* "conflict" as lost, "duplicate" is stored under its event id or its revision,
\* and "rejected" is exactly what could never be stored.  A cloud revision that
\* an answer names was accepted for the entity, and explains a conflict.
RepliesTruthful ==
  \A r \in {q \in Req : reply[q] = "ok"} : \A i \in DOMAIN results[r] :
    LET a == results[r][i]
        e == job[r].events[i]
    IN /\ (a.status = "rejected") <=> ~ Admissible(e)
       /\ a.status = "synced" =>
            [event |-> e, device |-> job[r].device, apply_status |-> "synced",
             conflict_of |-> NoRow] \in revisions
       /\ a.status = "conflict" =>
            \E row \in revisions : SameRevision(row, e) /\ row.apply_status = "conflict"
       /\ a.status = "duplicate" => ~ Unseen(e)
       /\ a.cloud # NoRow =>
            /\ a.status = "conflict" => IsConflict(a.cloud, e)
            /\ \E row \in Synced : row.event = a.cloud /\ row.event.entity_id = e.entity_id

\* A 200 reply answers every event of the batch, each at its own position: the
\* answers of the two passes, the checks of the handler and ApplyRevisions, which
\* sees only a part of the batch, leave no gap and do not change places.
RepliesComplete ==
  \A r \in Req : reply[r] = "ok" =>
    /\ Len(results[r]) = Len(job[r].events)
    /\ \A i \in DOMAIN results[r] :
         /\ results[r][i] # NoAnswer
         /\ results[r][i].event.event_id = job[r].events[i].event_id

\* The transactions of the requests have the effect of one event after the
\* other: the store implements RevisionStore.
ImplementsStore == StoreSpec

\* Every batch gets a reply: the locks, the unique keys and the pool never leave
\* requests waiting for each other.
EveryBatchAnswered == \A r \in Req : (pc[r] # "idle") ~> (pc[r] = "idle")

\* r cannot go on before q does.
WaitsFor(r, q) ==
  \/ /\ pc[r] = "next" /\ Pending(r) /\ IndexOK(Ev(r))
     /\ ~ PoolHasRoom /\ InTransaction(q)
  \/ pc[r] = "locking" /\ WaitsForLock(r, q)
  \/ pc[r] = "insert" /\ WaitsForKey(r, q)
  \/ pc[r] = "index" /\ WaitsForIndex(r, q)

\* No group of requests waits for each other: connection, advisory lock, unique key
\* and index row are taken in one order, and what a request has while it waits is
\* never what those it waits for still need.
NoCircularWait ==
  \A S \in SUBSET Req : S # {} => \E r \in S : \A q \in S : ~ WaitsFor(r, q)

\* With a database that does not fail, a batch gets 503 only for its current event,
\* and only for one that passed the checks although PostgreSQL refuses a value of the
\* revision or of an index row, or whose event id is stored for another entity: never
\* because another request changed the entity or stored the revision in between.
Unstorable(e) ==
  \/ ~ RevisionStorable(e)
  \/ ~ IndexStorable(e)
  \/ \E row \in revisions : SameEvent(row, e) /\ row.event.entity_id # e.entity_id

UnavailableHasACause ==
  ~ DatabaseFails =>
    \A r \in Req : reply[r] = "unavailable" =>
      Pending(r) /\ Admissible(Ev(r)) /\ Unstorable(Ev(r))

\* docs/product_spec_v1.3.md calls "duplicate" an answer that the client may take
\* as success, so the store holds the event or its revision as current or as a
\* copy of the current record.  The event id lookup of applyRevision answers
\* "duplicate" for a revision that was stored as a conflict.
DuplicateIsSuccess ==
  \A r \in {q \in Req : reply[q] = "ok"} : \A i \in DOMAIN results[r] :
    results[r][i].status = "duplicate" =>
      \E row \in revisions :
        /\ SameEvent(row, job[r].events[i]) \/ SameRevision(row, job[r].events[i])
        /\ row.apply_status # "conflict"

\* docs/product_spec_v1.3.md promises 503 when PostgreSQL is not available and
\* "rejected" for an event with illegal fields.  Where the database never fails,
\* no reply should be 503; the columns refuse values that the checks let pass.
UnavailableOnlyWhenDatabaseFails ==
  ~ DatabaseFails => \A r \in Req : reply[r] # "unavailable"
-----------------------------------------------------------------------------
(* The inductive invariant *)

\* A plan says what the store would decide about the event now.
PlanStands(r) ==
  /\ plan[r].row = entities[Ev(r).entity_id]
  /\ plan[r].verdict = Verdict(plan[r].row, Ev(r))
  /\ \A row \in revisions : ~ SameRevision(row, Ev(r))

\* A request in a transaction works on an admissible event of its batch; from
\* its reads to its commit the plan stands and the key it took stays free.
Consistent(r) ==
  /\ pc[r] # "idle" => job[r].device \in Device
  /\ InTransaction(r) => Pending(r) /\ Admissible(Ev(r))
  /\ pc[r] \in {"insert", "index", "commit"} =>
       /\ plan[r].answer \in Answer
       /\ plan[r].verdict # "none" => PlanStands(r)
  /\ pc[r] = "insert" => plan[r].verdict # "none"
  /\ pc[r] = "index" => plan[r].verdict = "synced"
  /\ HasInserted(r) => Unseen(Ev(r)) /\ RevisionStorable(Ev(r))
  /\ HasIndexed(r) => IndexStorable(Ev(r))

\* The advisory lock excludes requests on one entity, the unique key requests
\* on one event id, uncommitted rows included.
Apart(q, r) ==
  /\ HoldsLock(q) /\ HoldsLock(r) =>
       HashText[Ev(q).entity_id] # HashText[Ev(r).entity_id]
  /\ HasInserted(q) /\ HasInserted(r) =>
       Ev(q).event_id # Ev(r).event_id

IngestInv ==
  /\ IngestTypeOK
  /\ \A r \in Req : Consistent(r)
  /\ \A q, r \in Req : q # r => Apart(q, r)
=============================================================================
