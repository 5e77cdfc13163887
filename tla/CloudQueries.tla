----------------------------- MODULE CloudQueries -----------------------------
(***************************************************************************)
(* The read side of cloud sync, next to a store that goes on changing: GET  *)
(* contents and archives read one row, and GET reconcile/entities reads the *)
(* current state of an entity and its latest revisions by two statements    *)
(* without a transaction, so that revisions are accepted between the two.   *)
(*                                                                          *)
(* Each reader is a device that asks one question after the other and keeps *)
(* the last answer to each.  PostgreSQL orders rows of one version by the   *)
(* start of their transactions, which the store does not keep: among them   *)
(* any may come first.                                                      *)
(***************************************************************************)
EXTENDS RevisionStore, FiniteSets

CONSTANTS
  Reader,         \* devices that read
  HistoryLimit    \* the LIMIT of the history, 10 in the code

ASSUME HistoryAssumption == HistoryLimit \in Nat \ {0}

VARIABLES
  asking,         \* what each reader has under way
  summary,        \* reader -> entity id -> the last summary it was given
  content,        \* reader -> content id -> the last content row it was given
  archive         \* reader -> archive digest -> the last archive row it was given

answers == <<summary, content, archive>>
queriesVars == <<storeVars, asking, answers>>

Nothing == [entity |-> NoRow, state |-> NoRow]
Asking == [entity: EntityId, state: Entity \cup {NoRow}] \cup {Nothing}
Summary == [state: Entity, history: SUBSET Revision]

ASSUME NoSummaryAssumption == NoRow \notin Summary

QueriesTypeOK ==
  /\ StoreTypeOK
  /\ asking \in [Reader -> Asking]
  /\ summary \in [Reader -> [EntityId -> Summary \cup {NoRow}]]
  /\ content \in [Reader -> [ContentId -> Content \cup {NoRow}]]
  /\ archive \in [Reader -> [ArchiveId -> Archive \cup {NoRow}]]

QueriesInit ==
  /\ StoreInit
  /\ asking = [q \in Reader |-> Nothing]
  /\ summary = [q \in Reader |-> [x \in EntityId |-> NoRow]]
  /\ content = [q \in Reader |-> [k \in ContentId |-> NoRow]]
  /\ archive = [q \in Reader |-> [k \in ArchiveId |-> NoRow]]
-----------------------------------------------------------------------------
(* GetEntitySummary *)

\* The first statement finds the current state.
ReadState(q, x) ==
  /\ asking[q] = Nothing
  /\ entities[x] # NoRow
  /\ asking' = [asking EXCEPT ![q] = [entity |-> x, state |-> entities[x]]]
  /\ UNCHANGED <<storeVars, answers>>

\* 404: the entity is not there, and the second statement is not run.
ReadNoState(q, x) ==
  /\ asking[q] = Nothing
  /\ entities[x] = NoRow
  /\ summary' = [summary EXCEPT ![q][x] = NoRow]
  /\ UNCHANGED <<storeVars, asking, content, archive>>

\* Variant, never used by ReaderNext: the oldest revisions come first.
LatestAscending(rows) ==
  {shown \in SUBSET rows :
     /\ Cardinality(shown) = IF Cardinality(rows) < HistoryLimit THEN Cardinality(rows)
                             ELSE HistoryLimit
     /\ \A row \in shown, other \in rows \ shown :
          other.event.data_version >= row.event.data_version}

\* ORDER BY data_version DESC ... LIMIT
Latest(rows) ==
  {shown \in SUBSET rows :
     /\ Cardinality(shown) = IF Cardinality(rows) < HistoryLimit THEN Cardinality(rows)
                             ELSE HistoryLimit
     /\ \A row \in shown, other \in rows \ shown :
          other.event.data_version <= row.event.data_version}

\* Variant, never used by ReaderNext: WHERE entity_id is missing.
ReadHistoryOfAll(q) ==
  /\ asking[q] # Nothing
  /\ \E shown \in Latest(revisions) :
       summary' = [summary EXCEPT ![q][asking[q].entity] =
                     [state |-> asking[q].state, history |-> shown]]
  /\ asking' = [asking EXCEPT ![q] = Nothing]
  /\ UNCHANGED <<storeVars, content, archive>>

\* The second statement, and the reply.
ReadHistory(q) ==
  /\ asking[q] # Nothing
  /\ \E shown \in Latest(Rows(asking[q].entity)) :
       summary' = [summary EXCEPT ![q][asking[q].entity] =
                     [state |-> asking[q].state, history |-> shown]]
  /\ asking' = [asking EXCEPT ![q] = Nothing]
  /\ UNCHANGED <<storeVars, content, archive>>

\* 503: the second statement fails, what the first one found is dropped.
ReadFails(q) ==
  /\ asking[q] # Nothing
  /\ asking' = [asking EXCEPT ![q] = Nothing]
  /\ UNCHANGED <<storeVars, answers>>
-----------------------------------------------------------------------------
(* GetContent and GetArchive; a row that is not there is answered 404 *)

GetContent(q, k) ==
  /\ asking[q] = Nothing
  /\ content' = [content EXCEPT ![q][k] = contents[k]]
  /\ UNCHANGED <<storeVars, asking, summary, archive>>

GetArchive(q, k) ==
  /\ asking[q] = Nothing
  /\ archive' = [archive EXCEPT ![q][k] = archives[k]]
  /\ UNCHANGED <<storeVars, asking, summary, content>>
-----------------------------------------------------------------------------
Write == StoreNext /\ UNCHANGED <<asking, answers>>

ReaderNext ==
  \E q \in Reader :
    \/ \E x \in EntityId : ReadState(q, x) \/ ReadNoState(q, x)
    \/ ReadHistory(q) \/ ReadFails(q)
    \/ \E k \in ContentId : GetContent(q, k)
    \/ \E k \in ArchiveId : GetArchive(q, k)

QueriesNext == Write \/ ReaderNext

QueriesSpec == QueriesInit /\ [][QueriesNext]_queriesVars
-----------------------------------------------------------------------------
(* Properties *)

AcceptedAs(state) == [event |-> state.event, device |-> state.device,
                      apply_status |-> "synced", conflict_of |-> NoRow]

Newer(row, state) == row.event.data_version > state.event.data_version

\* The history of a summary accounts for its state: it has the revision that made
\* the state, unless it is full of revisions that are at least as new, although
\* the two were read at different times.
HistoryReachesState ==
  \A q \in Reader, x \in EntityId :
    LET given == summary[q][x]
    IN given # NoRow =>
         \/ AcceptedAs(given.state) \in given.history
         \/ /\ Cardinality(given.history) = HistoryLimit
            /\ \A row \in given.history :
                 row.event.data_version >= given.state.event.data_version

\* A summary that looks torn was overtaken: if its history has a revision newer
\* than its state, accepted or not, the store has a newer state.  A client that
\* asks again gets past it.
TornIsOvertaken ==
  \A q \in Reader, x \in EntityId :
    LET given == summary[q][x]
    IN given # NoRow /\ (\E row \in given.history : Newer(row, given.state)) =>
         Newer(entities[x], given.state)

\* A device that asks again is never told of an older state, a shorter archive or
\* another digest than it was told before, nor that an archive it was told is
\* verified, and may have deleted its copy of, is not.
GoesOn ==
  \A q \in Reader :
    /\ \A x \in EntityId : summary[q][x] # NoRow =>
         /\ summary'[q][x] # NoRow
         /\ ~ Newer(summary[q][x].state, summary'[q][x].state)
    /\ \A k \in ContentId : content[q][k] # NoRow =>
         /\ content'[q][k] # NoRow
         /\ content'[q][k].file_sha256 = content[q][k].file_sha256
    /\ \A k \in ArchiveId : archive[q][k] # NoRow =>
         /\ archive'[q][k] # NoRow
         /\ archive[q][k].remote_verified => archive'[q][k].remote_verified
         /\ archive'[q][k].archive_size >= archive[q][k].archive_size

AnswersGoOn == [][GoesOn]_queriesVars
=============================================================================
