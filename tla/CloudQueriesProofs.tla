-------------------------- MODULE CloudQueriesProofs --------------------------
(***************************************************************************)
(* Theorems about CloudQueries, for every set of events, any number of      *)
(* readers and any limit of the history.  What a reader was given came from *)
(* the history of the store, which only grows; what the store holds now is  *)
(* at least as new as anything in its history.                              *)
(***************************************************************************)
EXTENDS CloudQueries, RevisionStoreProofs, FiniteSetTheorems

-----------------------------------------------------------------------------
(* The inductive invariant *)

\* What the first statement found was accepted, and is not older than the last
\* answer to the same question.
AskingIsStored ==
  \A q \in Reader : asking[q] # Nothing =>
    /\ asking[q].entity \in EntityId /\ asking[q].state \in Entity
    /\ AcceptedAs(asking[q].state) \in Rows(asking[q].entity)
    /\ summary[q][asking[q].entity] # NoRow =>
         ~ Newer(summary[q][asking[q].entity].state, asking[q].state)

\* State and history of a summary are in the history of the store.
SummaryIsStored ==
  \A q \in Reader, x \in EntityId : summary[q][x] # NoRow =>
    /\ AcceptedAs(summary[q][x].state) \in Rows(x)
    /\ summary[q][x].history \subseteq Rows(x)

\* An index row still has what a reader was told of it.
CopiesAreKept ==
  \A q \in Reader :
    /\ \A k \in ContentId : content[q][k] # NoRow =>
         /\ contents[k] # NoRow
         /\ contents[k].file_sha256 = content[q][k].file_sha256
    /\ \A k \in ArchiveId : archive[q][k] # NoRow =>
         /\ archives[k] # NoRow
         /\ archive[q][k].remote_verified => archives[k].remote_verified
         /\ archives[k].archive_size >= archive[q][k].archive_size

QueriesInv ==
  /\ StoreInv /\ IsFiniteSet(revisions)
  /\ QueriesTypeOK
  /\ AskingIsStored /\ SummaryIsStored /\ CopiesAreKept
  /\ HistoryReachesState

LEMMA QueriesInvInit == QueriesInit => QueriesInv
  <1> SUFFICES ASSUME QueriesInit PROVE QueriesInv
    OBVIOUS
  <1>1. StoreInv /\ StoreTypeOK
    BY StoreInvInit DEF QueriesInit, StoreInv
  <1>2. IsFiniteSet(revisions)
    BY FS_EmptySet DEF QueriesInit, StoreInit
  <1>3. QueriesTypeOK
    BY <1>1 DEF QueriesInit, QueriesTypeOK, Asking
  <1>4. AskingIsStored /\ SummaryIsStored /\ HistoryReachesState
    BY DEF QueriesInit, AskingIsStored, SummaryIsStored, HistoryReachesState
  <1>5. CopiesAreKept
    BY DEF QueriesInit, CopiesAreKept
  <1> QED BY <1>1, <1>2, <1>3, <1>4, <1>5 DEF QueriesInv
-----------------------------------------------------------------------------
(* What is stored *)

\* An entity with a revision has a current version, and none of its revisions is
\* newer than that.
LEMMA StoredIsNotNewer ==
  ASSUME StoreInv, NEW x \in EntityId, NEW row \in Rows(x)
  PROVE  /\ entities[x] # NoRow /\ entities[x] \in Entity
         /\ row.event.data_version \in Int
         /\ entities[x].event.data_version \in Int
         /\ row.event.data_version <= entities[x].event.data_version
  <1> USE DEF StoreInv
  <1>1. row \in revisions /\ row.event.entity_id = x
    BY DEF Rows
  <1>2. entities[x] # NoRow
    BY <1>1 DEF ProjectionIsNewest
  <1>3. entities[x] \in Entity
    BY <1>2, CurrentIsStored
  <1>4. PICK w \in Synced : w.event = entities[x].event
    BY <1>2, CurrentIsStored
  <1>5. row.event.data_version \in Int /\ w.event.data_version \in Int
    BY <1>1, <1>4, RowTypes DEF Synced
  <1> QED BY <1>1, <1>2, <1>3, <1>4, <1>5, CurrentIsStored

\* The same of the state that a row accepted.
LEMMA AcceptedIsNotNewer ==
  ASSUME StoreInv, NEW x \in EntityId, NEW state, AcceptedAs(state) \in Rows(x)
  PROVE  /\ entities[x] # NoRow /\ entities[x] \in Entity
         /\ state.event.data_version \in Int
         /\ entities[x].event.data_version \in Int
         /\ ~ Newer(state, entities[x])
  <1> DEFINE row == AcceptedAs(state)
  <1>1. row.event = state.event
    BY DEF AcceptedAs
  <1>2. /\ entities[x] # NoRow /\ entities[x] \in Entity
        /\ row.event.data_version \in Int
        /\ entities[x].event.data_version \in Int
        /\ row.event.data_version <= entities[x].event.data_version
    BY StoredIsNotNewer
  <1> HIDE DEF row
  <1> QED BY <1>1, <1>2 DEF Newer

\* The current version of an entity was accepted.
LEMMA CurrentIsAccepted ==
  ASSUME StoreInv, NEW x \in EntityId, entities[x] # NoRow
  PROVE  entities[x] \in Entity /\ AcceptedAs(entities[x]) \in Rows(x)
  BY DEF StoreInv, StoreTypeOK, ProjectionIsNewest, AcceptedAs

\* The latest revisions have the one that made the state, or they are as many as
\* the limit allows and none of them is older.
LEMMA LatestReaches ==
  ASSUME NEW rows, IsFiniteSet(rows), NEW row \in rows,
         \A r \in rows : r.event.data_version \in Int,
         NEW shown \in Latest(rows)
  PROVE  /\ shown \subseteq rows
         /\ \/ row \in shown
            \/ /\ Cardinality(shown) = HistoryLimit
               /\ \A r \in shown : r.event.data_version >= row.event.data_version
  <1>1. /\ shown \subseteq rows
        /\ Cardinality(shown) = IF Cardinality(rows) < HistoryLimit THEN Cardinality(rows)
                                ELSE HistoryLimit
        /\ \A r \in shown, other \in rows \ shown :
             other.event.data_version <= r.event.data_version
    BY DEF Latest
  <1>2. CASE Cardinality(rows) < HistoryLimit
    <2>1. shown = rows
      BY <1>1, <1>2, FS_Subset
    <2> QED BY <2>1
  <1>3. CASE ~ (Cardinality(rows) < HistoryLimit)
    <2>1. Cardinality(shown) = HistoryLimit
      BY <1>1, <1>3
    <2>2. row \notin shown => \A r \in shown : r.event.data_version >= row.event.data_version
      BY <1>1
    <2> QED BY <1>1, <2>1, <2>2
  <1> QED BY <1>2, <1>3
-----------------------------------------------------------------------------
(* Steps of the store *)

\* Indexes lose no row.
LEMMA StoreKeepsRows ==
  ASSUME StoreInv, [StoreNext]_storeVars
  PROVE  /\ revisions \subseteq revisions'
         /\ \A k \in ContentId : contents[k] # NoRow =>
              /\ contents'[k] # NoRow
              /\ contents'[k].file_sha256 = contents[k].file_sha256
         /\ \A k \in ArchiveId : archives[k] # NoRow =>
              /\ archives'[k] # NoRow
              /\ archives[k].remote_verified => archives'[k].remote_verified
              /\ archives'[k].archive_size >= archives[k].archive_size
              /\ archives[k].archive_size \in Int
              /\ archives'[k].archive_size \in Int
  <1>1. StoreTypeOK /\ StoreTypeOK'
    BY StoreInvStep DEF StoreInv
  <1>2. CASE UNCHANGED storeVars
    <2>1. \A k \in ArchiveId : archives[k] # NoRow => archives[k].archive_size \in Int
      BY <1>1 DEF StoreTypeOK, Archive
    <2> QED BY <1>2, <2>1 DEF storeVars
  <1>3. ASSUME NEW d \in Device, NEW e \in Events, Accept(d, e)
        PROVE  /\ \A k \in ContentId : contents[k] # NoRow => contents'[k] # NoRow
               /\ \A k \in ArchiveId : archives[k] # NoRow => archives'[k] # NoRow
    <2>1. Admissible(e)
      BY <1>3 DEF Accept, Recordable
    <2>2. ASSUME NEW k \in ContentId, contents[k] # NoRow PROVE contents'[k] # NoRow
      <3>1. CASE IsContent(e) /\ k = ContentKey(e)
        <4>1. contents[k] \in Content \cup {NoRow}
          BY <1>1 DEF StoreTypeOK
        <4>2. UpsertContent(contents[k], e) \in Content
          BY <2>1, <3>1, <4>1, ContentRowType
        <4>3. contents'[k] = UpsertContent(contents[k], e)
          BY <1>1, <1>3, <3>1 DEF Accept, UpsertIndexes, StoreTypeOK
        <4> QED BY <4>2, <4>3, NoRowAssumption
      <3>2. CASE ~ (IsContent(e) /\ k = ContentKey(e))
        <4>1. contents'[k] = contents[k]
          BY <1>1, <1>3, <3>2 DEF Accept, UpsertIndexes, StoreTypeOK
        <4> QED BY <2>2, <4>1
      <3> QED BY <3>1, <3>2
    <2>3. ASSUME NEW k \in ArchiveId, archives[k] # NoRow PROVE archives'[k] # NoRow
      <3>1. CASE IsArchive(e) /\ k = ArchiveKey(e)
        <4>1. archives[k] \in Archive \cup {NoRow}
          BY <1>1 DEF StoreTypeOK
        <4>2. UpsertArchive(archives[k], e) \in Archive
          BY <2>1, <3>1, <4>1, ArchiveRowType
        <4>3. archives'[k] = UpsertArchive(archives[k], e)
          BY <1>1, <1>3, <3>1 DEF Accept, UpsertIndexes, StoreTypeOK
        <4> QED BY <4>2, <4>3, NoRowAssumption
      <3>2. CASE ~ (IsArchive(e) /\ k = ArchiveKey(e))
        <4>1. archives'[k] = archives[k]
          BY <1>1, <1>3, <3>2 DEF Accept, UpsertIndexes, StoreTypeOK
        <4> QED BY <2>3, <4>1
      <3> QED BY <3>1, <3>2
    <2> QED BY <2>2, <2>3
  <1>4. CASE StoreNext
    <2>1. KeepsWhatIsStored
      BY <1>1, <1>4, AcceptKeepsWhatIsStored, LoserKeepsWhatIsStored DEF StoreNext
    <2>2. /\ \A k \in ContentId : contents[k] # NoRow => contents'[k] # NoRow
          /\ \A k \in ArchiveId : archives[k] # NoRow => archives'[k] # NoRow
      BY <1>3, <1>4 DEF StoreNext, RecordLoser
    <2>3. \A k \in ArchiveId : archives[k] # NoRow => archives[k].archive_size \in Int
      BY <1>1 DEF StoreTypeOK, Archive
    <2>4. \A k \in ArchiveId : archives'[k] # NoRow => archives'[k].archive_size \in Int
      BY <1>1 DEF StoreTypeOK, Archive
    <2> QED BY <2>1, <2>2, <2>3, <2>4 DEF KeepsWhatIsStored
  <1> QED BY <1>2, <1>4

LEMMA StoreStaysFinite ==
  ASSUME IsFiniteSet(revisions), [StoreNext]_storeVars
  PROVE  IsFiniteSet(revisions')
  <1>1. CASE UNCHANGED storeVars
    BY <1>1 DEF storeVars
  <1>2. CASE StoreNext
    <2>1. PICK row : revisions' = revisions \cup {row}
      BY <1>2 DEF StoreNext, Accept, RecordLoser, InsertRevision
    <2> QED BY <2>1, FS_AddElement
  <1> QED BY <1>1, <1>2

\* Whatever is recorded, what readers hold stays true.
LEMMA WriteKeepsInv ==
  ASSUME QueriesInv, [StoreNext]_storeVars, UNCHANGED <<asking, answers>>
  PROVE  QueriesInv'
  <1>1. StoreInv /\ QueriesTypeOK /\ IsFiniteSet(revisions)
    BY DEF QueriesInv
  <1>2. StoreInv' /\ IsFiniteSet(revisions')
    BY <1>1, StoreInvStep, StoreStaysFinite
  <1>3. /\ asking' = asking /\ summary' = summary
        /\ content' = content /\ archive' = archive
    BY DEF answers
  <1>4. QueriesTypeOK'
    BY <1>1, <1>2, <1>3 DEF QueriesTypeOK, StoreInv
  <1>5. revisions \subseteq revisions'
    BY <1>1, StoreKeepsRows
  <1>6. ASSUME NEW x \in EntityId, NEW row \in Rows(x) PROVE row \in Rows(x)'
    BY <1>5 DEF Rows
  <1>7. AskingIsStored'
    <2> SUFFICES ASSUME NEW q \in Reader, asking[q] # Nothing
                 PROVE  /\ asking[q].entity \in EntityId /\ asking[q].state \in Entity
                        /\ AcceptedAs(asking[q].state) \in Rows(asking[q].entity)'
                        /\ summary[q][asking[q].entity] # NoRow =>
                             ~ Newer(summary[q][asking[q].entity].state, asking[q].state)
      BY <1>3 DEF AskingIsStored, Rows, AcceptedAs, Newer
    <2> QED BY <1>6 DEF QueriesInv, AskingIsStored
  <1>8. SummaryIsStored'
    <2> SUFFICES ASSUME NEW q \in Reader, NEW x \in EntityId, summary[q][x] # NoRow
                 PROVE  /\ AcceptedAs(summary[q][x].state) \in Rows(x)'
                        /\ summary[q][x].history \subseteq Rows(x)'
      BY <1>3 DEF SummaryIsStored, Rows, AcceptedAs
    <2> QED BY <1>6 DEF QueriesInv, SummaryIsStored
  <1>9. CopiesAreKept'
    <2> SUFFICES ASSUME NEW q \in Reader
                 PROVE  /\ \A k \in ContentId : content[q][k] # NoRow =>
                             /\ contents'[k] # NoRow
                             /\ contents'[k].file_sha256 = content[q][k].file_sha256
                        /\ \A k \in ArchiveId : archive[q][k] # NoRow =>
                             /\ archives'[k] # NoRow
                             /\ archive[q][k].remote_verified => archives'[k].remote_verified
                             /\ archives'[k].archive_size >= archive[q][k].archive_size
      BY <1>3 DEF CopiesAreKept
    <2>1. CopiesAreKept
      BY DEF QueriesInv
    <2>2. \A k \in ArchiveId : archive[q][k] # NoRow => archive[q][k].archive_size \in Int
      BY <1>1 DEF QueriesTypeOK, Archive
    <2> QED BY <1>1, <2>1, <2>2, StoreKeepsRows DEF CopiesAreKept
  <1>10. HistoryReachesState'
    BY <1>3 DEF QueriesInv, HistoryReachesState, AcceptedAs
  <1> QED BY <1>2, <1>4, <1>7, <1>8, <1>9, <1>10 DEF QueriesInv
-----------------------------------------------------------------------------
(* Steps of the readers *)

\* A reader leaves the store as it is.
LEMMA ReaderKeepsStore ==
  ASSUME QueriesInv, UNCHANGED storeVars
  PROVE  /\ StoreInv' /\ StoreTypeOK' /\ IsFiniteSet(revisions')
         /\ \A x \in EntityId : Rows(x)' = Rows(x)
  <1>1. StoreInv' /\ StoreTypeOK'
    BY StoreInvStep DEF QueriesInv, StoreInv
  <1>2. revisions' = revisions
    BY DEF storeVars
  <1> QED BY <1>1, <1>2 DEF QueriesInv, Rows

LEMMA ReadStateKeepsInv ==
  ASSUME QueriesInv, NEW q \in Reader, NEW x \in EntityId, ReadState(q, x)
  PROVE  QueriesInv'
  <1> DEFINE ask == [entity |-> x, state |-> entities[x]]
  <1>1. StoreInv /\ QueriesTypeOK /\ AskingIsStored /\ SummaryIsStored
    BY DEF QueriesInv
  <1>2. /\ entities[x] # NoRow /\ UNCHANGED storeVars
        /\ summary' = summary /\ content' = content /\ archive' = archive
        /\ asking' = [asking EXCEPT ![q] = ask]
    BY DEF ReadState, answers
  <1>3. /\ StoreInv' /\ StoreTypeOK' /\ IsFiniteSet(revisions')
        /\ \A y \in EntityId : Rows(y)' = Rows(y)
    BY <1>2, ReaderKeepsStore
  <1>4. entities[x] \in Entity /\ AcceptedAs(entities[x]) \in Rows(x)
    BY <1>1, <1>2, CurrentIsAccepted
  <1>5. ask.entity = x /\ ask.state = entities[x] /\ ask \in Asking
    BY <1>4 DEF Asking
  <1>6. summary[q][x] # NoRow => ~ Newer(summary[q][x].state, entities[x])
    BY <1>1, AcceptedIsNotNewer DEF SummaryIsStored
  <1> HIDE DEF ask
  <1>7. asking' \in [Reader -> Asking]
    BY <1>1, <1>2, <1>5 DEF QueriesTypeOK
  <1>8. QueriesTypeOK'
    BY <1>1, <1>2, <1>3, <1>7 DEF QueriesTypeOK
  <1>9. AskingIsStored'
    <2> SUFFICES ASSUME NEW p \in Reader, asking'[p] # Nothing
                 PROVE  /\ asking'[p].entity \in EntityId /\ asking'[p].state \in Entity
                        /\ AcceptedAs(asking'[p].state) \in Rows(asking'[p].entity)
                        /\ summary[p][asking'[p].entity] # NoRow =>
                             ~ Newer(summary[p][asking'[p].entity].state, asking'[p].state)
      BY <1>2, <1>3 DEF AskingIsStored, AcceptedAs, Newer
    <2>1. CASE p = q
      <3>1. asking'[p] = ask
        BY <1>1, <1>2, <2>1 DEF QueriesTypeOK
      <3> QED BY <1>4, <1>5, <1>6, <2>1, <3>1
    <2>2. CASE p # q
      <3>1. asking'[p] = asking[p]
        BY <1>1, <1>2, <2>2 DEF QueriesTypeOK
      <3> QED BY <1>1, <3>1 DEF AskingIsStored
    <2> QED BY <2>1, <2>2
  <1>10. SummaryIsStored'
    BY <1>1, <1>2, <1>3 DEF SummaryIsStored, AcceptedAs
  <1>11. CopiesAreKept' /\ HistoryReachesState'
    BY <1>2 DEF QueriesInv, CopiesAreKept, HistoryReachesState, AcceptedAs, storeVars
  <1> QED BY <1>3, <1>8, <1>9, <1>10, <1>11 DEF QueriesInv

\* A reader that drops what it has under way, without an answer.
LEMMA ReadFailsKeepsInv ==
  ASSUME QueriesInv, NEW q \in Reader, ReadFails(q)
  PROVE  QueriesInv'
  <1>1. QueriesTypeOK /\ AskingIsStored /\ SummaryIsStored
    BY DEF QueriesInv
  <1>2. /\ UNCHANGED storeVars
        /\ summary' = summary /\ content' = content /\ archive' = archive
        /\ asking' = [asking EXCEPT ![q] = Nothing]
    BY DEF ReadFails, answers
  <1>3. /\ StoreInv' /\ StoreTypeOK' /\ IsFiniteSet(revisions')
        /\ \A y \in EntityId : Rows(y)' = Rows(y)
    BY <1>2, ReaderKeepsStore
  <1>4. \A p \in Reader : asking'[p] = Nothing \/ asking'[p] = asking[p]
    BY <1>1, <1>2 DEF QueriesTypeOK
  <1>5. QueriesTypeOK'
    <2>1. Nothing \in Asking
      BY DEF Asking
    <2> QED BY <1>1, <1>2, <1>3, <2>1 DEF QueriesTypeOK
  <1>6. AskingIsStored'
    <2> SUFFICES ASSUME NEW p \in Reader, asking'[p] # Nothing
                 PROVE  /\ asking'[p].entity \in EntityId /\ asking'[p].state \in Entity
                        /\ AcceptedAs(asking'[p].state) \in Rows(asking'[p].entity)
                        /\ summary[p][asking'[p].entity] # NoRow =>
                             ~ Newer(summary[p][asking'[p].entity].state, asking'[p].state)
      BY <1>2, <1>3 DEF AskingIsStored, AcceptedAs, Newer
    <2>1. asking'[p] = asking[p]
      BY <1>4
    <2> QED BY <1>1, <2>1 DEF AskingIsStored
  <1>7. SummaryIsStored'
    BY <1>1, <1>2, <1>3 DEF SummaryIsStored, AcceptedAs
  <1>8. CopiesAreKept' /\ HistoryReachesState'
    BY <1>2 DEF QueriesInv, CopiesAreKept, HistoryReachesState, AcceptedAs, storeVars
  <1> QED BY <1>3, <1>5, <1>6, <1>7, <1>8 DEF QueriesInv

\* How one answer changes the answers.
LEMMA AnswerChanges ==
  ASSUME NEW S, NEW q \in Reader, NEW K, NEW k \in K, NEW v, NEW f \in [Reader -> [K -> S]]
  PROVE  LET g == [f EXCEPT ![q][k] = v]
         IN /\ v \in S => g \in [Reader -> [K -> S]]
            /\ g[q][k] = v
            /\ \A p \in Reader, j \in K : p # q \/ j # k => g[p][j] = f[p][j]
  OBVIOUS

\* What is not answered: the last summary of an entity that is not there is none.
LEMMA ReadNoStateKeepsInv ==
  ASSUME QueriesInv, NEW q \in Reader, NEW x \in EntityId, ReadNoState(q, x)
  PROVE  /\ QueriesInv'
         /\ summary' = summary
  <1>1. StoreInv /\ QueriesTypeOK /\ SummaryIsStored
    BY DEF QueriesInv
  <1>2. summary[q][x] = NoRow
    BY <1>1, AcceptedIsNotNewer DEF SummaryIsStored, ReadNoState
  <1>3. summary' = summary
    BY <1>1, <1>2 DEF ReadNoState, QueriesTypeOK
  <1>4. UNCHANGED <<asking, answers>> /\ UNCHANGED storeVars
    BY <1>3 DEF ReadNoState, answers
  <1> QED BY <1>3, <1>4, WriteKeepsInv

\* The summary that a reader is given.
LEMMA GivenSummary ==
  ASSUME QueriesInv, NEW q \in Reader, ReadHistory(q)
  PROVE  \E x \in EntityId, given \in Summary :
           /\ x = asking[q].entity
           /\ summary' = [summary EXCEPT ![q][x] = given]
           /\ AcceptedAs(given.state) \in Rows(x)
           /\ given.history \subseteq Rows(x)
           /\ \/ AcceptedAs(given.state) \in given.history
              \/ /\ Cardinality(given.history) = HistoryLimit
                 /\ \A row \in given.history :
                      row.event.data_version >= given.state.event.data_version
           /\ summary[q][x] # NoRow => ~ Newer(summary[q][x].state, given.state)
  <1> DEFINE x == asking[q].entity
             state == asking[q].state
  <1>1. /\ x \in EntityId /\ state \in Entity
        /\ AcceptedAs(state) \in Rows(x)
        /\ summary[q][x] # NoRow => ~ Newer(summary[q][x].state, state)
    BY DEF QueriesInv, AskingIsStored, ReadHistory
  <1>2. PICK shown \in Latest(Rows(x)) :
          summary' = [summary EXCEPT ![q][x] = [state |-> state, history |-> shown]]
    BY DEF ReadHistory
  <1>3. Rows(x) \subseteq revisions /\ IsFiniteSet(Rows(x))
    <2>1. Rows(x) \in SUBSET revisions
      BY DEF Rows
    <2> QED BY <2>1, FS_Subset DEF QueriesInv
  <1>4. \A r \in Rows(x) : r.event.data_version \in Int /\ r \in Revision
    BY <1>3, RowTypes DEF QueriesInv, StoreInv
  <1>5. /\ shown \subseteq Rows(x)
        /\ \/ AcceptedAs(state) \in shown
           \/ /\ Cardinality(shown) = HistoryLimit
              /\ \A r \in shown : r.event.data_version >= AcceptedAs(state).event.data_version
    BY <1>1, <1>3, <1>4, LatestReaches
  <1>6. AcceptedAs(state).event = state.event
    BY DEF AcceptedAs
  <1> DEFINE given == [state |-> state, history |-> shown]
  <1>7. given \in Summary /\ given.state = state /\ given.history = shown
    BY <1>1, <1>4, <1>5 DEF Summary
  <1> HIDE DEF x, state, given
  <1>8. summary' = [summary EXCEPT ![q][x] = given] /\ x = asking[q].entity
    BY <1>2 DEF given, x
  <1> QED BY <1>1, <1>5, <1>6, <1>7, <1>8

\* A reader goes on: its last summary is replaced by none that is older.
LEMMA ReadHistoryKeepsInv ==
  ASSUME QueriesInv, NEW q \in Reader, ReadHistory(q)
  PROVE  /\ QueriesInv'
         /\ \A p \in Reader, y \in EntityId : summary[p][y] # NoRow =>
              /\ summary'[p][y] # NoRow
              /\ summary'[p][y] = summary[p][y] \/ ~ Newer(summary[p][y].state, summary'[p][y].state)
  <1>1. StoreInv /\ QueriesTypeOK /\ AskingIsStored /\ SummaryIsStored /\ HistoryReachesState
    BY DEF QueriesInv
  <1>2. PICK x \in EntityId, given \in Summary :
           /\ x = asking[q].entity
           /\ summary' = [summary EXCEPT ![q][x] = given]
           /\ AcceptedAs(given.state) \in Rows(x)
           /\ given.history \subseteq Rows(x)
           /\ \/ AcceptedAs(given.state) \in given.history
              \/ /\ Cardinality(given.history) = HistoryLimit
                 /\ \A row \in given.history :
                      row.event.data_version >= given.state.event.data_version
           /\ summary[q][x] # NoRow => ~ Newer(summary[q][x].state, given.state)
    BY GivenSummary
  <1>3. /\ UNCHANGED storeVars /\ content' = content /\ archive' = archive
        /\ asking' = [asking EXCEPT ![q] = Nothing]
    BY DEF ReadHistory
  <1>4. /\ StoreInv' /\ StoreTypeOK' /\ IsFiniteSet(revisions')
        /\ \A y \in EntityId : Rows(y)' = Rows(y)
    BY <1>3, ReaderKeepsStore
  <1>5. /\ summary' \in [Reader -> [EntityId -> Summary \cup {NoRow}]]
        /\ summary'[q][x] = given
        /\ \A p \in Reader, y \in EntityId : p # q \/ y # x => summary'[p][y] = summary[p][y]
    BY <1>1, <1>2, AnswerChanges DEF QueriesTypeOK
  <1>6. given # NoRow
    BY NoSummaryAssumption
  <1>7. asking'[q] = Nothing /\ \A p \in Reader : p # q => asking'[p] = asking[p]
    BY <1>1, <1>3 DEF QueriesTypeOK
  <1>8. QueriesTypeOK'
    <2>1. Nothing \in Asking
      BY DEF Asking
    <2> QED BY <1>1, <1>3, <1>4, <1>5, <2>1 DEF QueriesTypeOK
  <1>9. AskingIsStored'
    <2> SUFFICES ASSUME NEW p \in Reader, asking'[p] # Nothing
                 PROVE  /\ asking'[p].entity \in EntityId /\ asking'[p].state \in Entity
                        /\ AcceptedAs(asking'[p].state) \in Rows(asking'[p].entity)
                        /\ summary'[p][asking'[p].entity] # NoRow =>
                             ~ Newer(summary'[p][asking'[p].entity].state, asking'[p].state)
      BY <1>4 DEF AskingIsStored, AcceptedAs, Newer
    <2>1. p # q /\ asking'[p] = asking[p]
      BY <1>7
    <2>2. asking[p].entity \in EntityId
      BY <1>1, <2>1 DEF AskingIsStored
    <2>3. summary'[p][asking[p].entity] = summary[p][asking[p].entity]
      BY <1>5, <2>1, <2>2
    <2> QED BY <1>1, <2>1, <2>2, <2>3 DEF AskingIsStored
  <1>10. SummaryIsStored'
    <2> SUFFICES ASSUME NEW p \in Reader, NEW y \in EntityId, summary'[p][y] # NoRow
                 PROVE  /\ AcceptedAs(summary'[p][y].state) \in Rows(y)
                        /\ summary'[p][y].history \subseteq Rows(y)
      BY <1>4 DEF SummaryIsStored, AcceptedAs
    <2>1. CASE p = q /\ y = x
      BY <1>2, <1>5, <2>1
    <2>2. CASE p # q \/ y # x
      BY <1>1, <1>5, <2>2 DEF SummaryIsStored
    <2> QED BY <2>1, <2>2
  <1>11. HistoryReachesState'
    <2> SUFFICES ASSUME NEW p \in Reader, NEW y \in EntityId, summary'[p][y] # NoRow
                 PROVE  \/ AcceptedAs(summary'[p][y].state) \in summary'[p][y].history
                        \/ /\ Cardinality(summary'[p][y].history) = HistoryLimit
                           /\ \A row \in summary'[p][y].history :
                                row.event.data_version >= summary'[p][y].state.event.data_version
      BY DEF HistoryReachesState, AcceptedAs
    <2>1. CASE p = q /\ y = x
      BY <1>2, <1>5, <2>1
    <2>2. CASE p # q \/ y # x
      BY <1>1, <1>5, <2>2 DEF HistoryReachesState
    <2> QED BY <2>1, <2>2
  <1>12. CopiesAreKept'
    BY <1>3 DEF QueriesInv, CopiesAreKept, storeVars
  <1>13. ASSUME NEW p \in Reader, NEW y \in EntityId, summary[p][y] # NoRow
         PROVE  /\ summary'[p][y] # NoRow
                /\ summary'[p][y] = summary[p][y] \/ ~ Newer(summary[p][y].state, summary'[p][y].state)
    <2>1. CASE p = q /\ y = x
      BY <1>2, <1>5, <1>6, <1>13, <2>1
    <2>2. CASE p # q \/ y # x
      BY <1>5, <1>13, <2>2
    <2> QED BY <2>1, <2>2
  <1> QED BY <1>4, <1>8, <1>9, <1>10, <1>11, <1>12, <1>13 DEF QueriesInv

LEMMA GetContentKeepsInv ==
  ASSUME QueriesInv, NEW q \in Reader, NEW k \in ContentId, GetContent(q, k)
  PROVE  /\ QueriesInv'
         /\ \A p \in Reader, j \in ContentId : content[p][j] # NoRow =>
              /\ content'[p][j] # NoRow
              /\ content'[p][j].file_sha256 = content[p][j].file_sha256
  <1>1. QueriesTypeOK /\ AskingIsStored /\ SummaryIsStored /\ CopiesAreKept
    BY DEF QueriesInv
  <1>2. /\ UNCHANGED storeVars /\ asking' = asking /\ summary' = summary /\ archive' = archive
        /\ content' = [content EXCEPT ![q][k] = contents[k]]
    BY DEF GetContent
  <1>3. /\ StoreInv' /\ StoreTypeOK' /\ IsFiniteSet(revisions')
        /\ \A y \in EntityId : Rows(y)' = Rows(y)
    BY <1>2, ReaderKeepsStore
  <1>4. contents' = contents /\ archives' = archives /\ contents[k] \in Content \cup {NoRow}
    BY <1>1, <1>2 DEF storeVars, QueriesTypeOK, StoreTypeOK
  <1>5. /\ content' \in [Reader -> [ContentId -> Content \cup {NoRow}]]
        /\ content'[q][k] = contents[k]
        /\ \A p \in Reader, j \in ContentId : p # q \/ j # k => content'[p][j] = content[p][j]
    BY <1>1, <1>2, <1>4, AnswerChanges DEF QueriesTypeOK
  <1>6. QueriesTypeOK'
    BY <1>1, <1>2, <1>3, <1>5 DEF QueriesTypeOK
  <1>7. AskingIsStored' /\ SummaryIsStored'
    BY <1>1, <1>2, <1>3 DEF AskingIsStored, SummaryIsStored, AcceptedAs, Newer
  <1>8. HistoryReachesState'
    BY <1>2 DEF QueriesInv, HistoryReachesState, AcceptedAs
  <1>9. CopiesAreKept'
    <2>1. ASSUME NEW p \in Reader, NEW j \in ContentId, content'[p][j] # NoRow
          PROVE  contents[j] # NoRow /\ contents[j].file_sha256 = content'[p][j].file_sha256
      <3>1. CASE p = q /\ j = k
        BY <1>5, <2>1, <3>1
      <3>2. CASE p # q \/ j # k
        BY <1>1, <1>5, <2>1, <3>2 DEF CopiesAreKept
      <3> QED BY <3>1, <3>2
    <2> QED BY <1>1, <1>2, <1>4, <2>1 DEF CopiesAreKept
  <1>10. ASSUME NEW p \in Reader, NEW j \in ContentId, content[p][j] # NoRow
         PROVE  content'[p][j] # NoRow /\ content'[p][j].file_sha256 = content[p][j].file_sha256
    <2>1. CASE p = q /\ j = k
      BY <1>1, <1>5, <1>10, <2>1 DEF CopiesAreKept
    <2>2. CASE p # q \/ j # k
      BY <1>5, <1>10, <2>2
    <2> QED BY <2>1, <2>2
  <1> QED BY <1>3, <1>6, <1>7, <1>8, <1>9, <1>10 DEF QueriesInv

LEMMA GetArchiveKeepsInv ==
  ASSUME QueriesInv, NEW q \in Reader, NEW k \in ArchiveId, GetArchive(q, k)
  PROVE  /\ QueriesInv'
         /\ \A p \in Reader, j \in ArchiveId : archive[p][j] # NoRow =>
              /\ archive'[p][j] # NoRow
              /\ archive[p][j].remote_verified => archive'[p][j].remote_verified
              /\ archive'[p][j].archive_size >= archive[p][j].archive_size
  <1>1. QueriesTypeOK /\ AskingIsStored /\ SummaryIsStored /\ CopiesAreKept
    BY DEF QueriesInv
  <1>2. /\ UNCHANGED storeVars /\ asking' = asking /\ summary' = summary /\ content' = content
        /\ archive' = [archive EXCEPT ![q][k] = archives[k]]
    BY DEF GetArchive
  <1>3. /\ StoreInv' /\ StoreTypeOK' /\ IsFiniteSet(revisions')
        /\ \A y \in EntityId : Rows(y)' = Rows(y)
    BY <1>2, ReaderKeepsStore
  <1>4. contents' = contents /\ archives' = archives /\ archives[k] \in Archive \cup {NoRow}
    BY <1>1, <1>2 DEF storeVars, QueriesTypeOK, StoreTypeOK
  <1>5. /\ archive' \in [Reader -> [ArchiveId -> Archive \cup {NoRow}]]
        /\ archive'[q][k] = archives[k]
        /\ \A p \in Reader, j \in ArchiveId : p # q \/ j # k => archive'[p][j] = archive[p][j]
    BY <1>1, <1>2, <1>4, AnswerChanges DEF QueriesTypeOK
  <1>6. QueriesTypeOK'
    BY <1>1, <1>2, <1>3, <1>5 DEF QueriesTypeOK
  <1>7. AskingIsStored' /\ SummaryIsStored'
    BY <1>1, <1>2, <1>3 DEF AskingIsStored, SummaryIsStored, AcceptedAs, Newer
  <1>8. HistoryReachesState'
    BY <1>2 DEF QueriesInv, HistoryReachesState, AcceptedAs
  <1>9. \A j \in ArchiveId : archives[j] # NoRow => archives[j].archive_size \in Int
    BY <1>1 DEF QueriesTypeOK, StoreTypeOK, Archive
  <1>10. \A p \in Reader, j \in ArchiveId : archive[p][j] # NoRow => archive[p][j].archive_size \in Int
    BY <1>1 DEF QueriesTypeOK, Archive
  <1>11. CopiesAreKept'
    <2>1. ASSUME NEW p \in Reader, NEW j \in ArchiveId, archive'[p][j] # NoRow
          PROVE  /\ archives[j] # NoRow
                 /\ archive'[p][j].remote_verified => archives[j].remote_verified
                 /\ archives[j].archive_size >= archive'[p][j].archive_size
      <3>1. CASE p = q /\ j = k
        BY <1>5, <1>9, <2>1, <3>1
      <3>2. CASE p # q \/ j # k
        BY <1>1, <1>5, <2>1, <3>2 DEF CopiesAreKept
      <3> QED BY <3>1, <3>2
    <2> QED BY <1>1, <1>2, <1>4, <2>1 DEF CopiesAreKept
  <1>12. ASSUME NEW p \in Reader, NEW j \in ArchiveId, archive[p][j] # NoRow
         PROVE  /\ archive'[p][j] # NoRow
                /\ archive[p][j].remote_verified => archive'[p][j].remote_verified
                /\ archive'[p][j].archive_size >= archive[p][j].archive_size
    <2>1. CASE p = q /\ j = k
      BY <1>1, <1>5, <1>12, <2>1 DEF CopiesAreKept
    <2>2. CASE p # q \/ j # k
      BY <1>5, <1>10, <1>12, <2>2
    <2> QED BY <2>1, <2>2
  <1> QED BY <1>3, <1>6, <1>7, <1>8, <1>11, <1>12 DEF QueriesInv
-----------------------------------------------------------------------------
(* Every step, and the theorems *)

\* What does not change goes on: versions and sizes are integers.
LEMMA SameAnswerGoesOn ==
  ASSUME QueriesInv, NEW q \in Reader
  PROVE  /\ \A x \in EntityId : summary[q][x] # NoRow =>
              ~ Newer(summary[q][x].state, summary[q][x].state)
         /\ \A k \in ArchiveId : archive[q][k] # NoRow => archive[q][k].archive_size \in Int
  <1>1. \A k \in ArchiveId : archive[q][k] # NoRow => archive[q][k].archive_size \in Int
    BY DEF QueriesInv, QueriesTypeOK, Archive
  <1>2. ASSUME NEW x \in EntityId, summary[q][x] # NoRow
        PROVE  summary[q][x].state.event.data_version \in Int
    BY <1>2, AcceptedIsNotNewer DEF QueriesInv, SummaryIsStored
  <1> QED BY <1>1, <1>2 DEF Newer

LEMMA QueriesInvStep ==
  ASSUME QueriesInv, [QueriesNext]_queriesVars
  PROVE  QueriesInv' /\ GoesOn
  <1>1. ASSUME answers' = answers PROVE GoesOn
    <2>1. summary' = summary /\ content' = content /\ archive' = archive
      BY <1>1 DEF answers
    <2> QED BY <2>1, SameAnswerGoesOn DEF GoesOn, Newer
  <1>2. CASE Write \/ UNCHANGED queriesVars
    <2>1. [StoreNext]_storeVars /\ UNCHANGED <<asking, answers>>
      BY <1>2 DEF Write, queriesVars
    <2> QED BY <1>1, <2>1, WriteKeepsInv
  <1>3. ASSUME NEW q \in Reader, NEW x \in EntityId, ReadState(q, x)
        PROVE  QueriesInv' /\ GoesOn
    BY <1>1, <1>3, ReadStateKeepsInv DEF ReadState
  <1>4. ASSUME NEW q \in Reader, NEW x \in EntityId, ReadNoState(q, x)
        PROVE  QueriesInv' /\ GoesOn
    <2>1. QueriesInv' /\ summary' = summary
      BY <1>4, ReadNoStateKeepsInv
    <2>2. answers' = answers
      BY <1>4, <2>1 DEF ReadNoState, answers
    <2> QED BY <1>1, <2>1, <2>2
  <1>5. ASSUME NEW q \in Reader, ReadHistory(q)
        PROVE  QueriesInv' /\ GoesOn
    <2>1. /\ QueriesInv'
          /\ \A p \in Reader, y \in EntityId : summary[p][y] # NoRow =>
               /\ summary'[p][y] # NoRow
               /\ summary'[p][y] = summary[p][y] \/ ~ Newer(summary[p][y].state, summary'[p][y].state)
      BY <1>5, ReadHistoryKeepsInv
    <2>2. content' = content /\ archive' = archive
      BY <1>5 DEF ReadHistory
    <2>3. ASSUME NEW p \in Reader, NEW y \in EntityId, summary[p][y] # NoRow
          PROVE  summary'[p][y] # NoRow /\ ~ Newer(summary[p][y].state, summary'[p][y].state)
      <3>1. ~ Newer(summary[p][y].state, summary[p][y].state)
        BY <2>3, SameAnswerGoesOn
      <3> QED BY <2>1, <2>3, <3>1
    <2> QED BY <2>1, <2>2, <2>3, SameAnswerGoesOn DEF GoesOn, Newer
  <1>6. ASSUME NEW q \in Reader, ReadFails(q)
        PROVE  QueriesInv' /\ GoesOn
    BY <1>1, <1>6, ReadFailsKeepsInv DEF ReadFails
  <1>7. ASSUME NEW q \in Reader, NEW k \in ContentId, GetContent(q, k)
        PROVE  QueriesInv' /\ GoesOn
    <2>1. summary' = summary /\ archive' = archive
      BY <1>7 DEF GetContent
    <2> QED BY <1>7, <2>1, GetContentKeepsInv, SameAnswerGoesOn DEF GoesOn, Newer
  <1>8. ASSUME NEW q \in Reader, NEW k \in ArchiveId, GetArchive(q, k)
        PROVE  QueriesInv' /\ GoesOn
    <2>1. summary' = summary /\ content' = content
      BY <1>8 DEF GetArchive
    <2> QED BY <1>8, <2>1, GetArchiveKeepsInv, SameAnswerGoesOn DEF GoesOn, Newer
  <1> QED BY <1>2, <1>3, <1>4, <1>5, <1>6, <1>7, <1>8 DEF QueriesNext, ReaderNext

\* The inductive invariant holds next to a store that goes on changing.
THEOREM QueriesInvariant == QueriesSpec => []QueriesInv
  <1>1. QueriesInv /\ [QueriesNext]_queriesVars => QueriesInv'
    BY QueriesInvStep
  <1> QED BY <1>1, QueriesInvInit, PTL DEF QueriesSpec

\* Tables, questions and answers keep their types.
THEOREM QueriesTypeCorrect == QueriesSpec => []QueriesTypeOK
  <1>1. QueriesInv => QueriesTypeOK
    BY DEF QueriesInv
  <1> QED BY <1>1, QueriesInvariant, PTL

\* HistoryReachesState: the history in a summary accounts for its state, although
\* the two were read at different times and the history is cut.
THEOREM HistoryReachesStateCorrect == QueriesSpec => []HistoryReachesState
  <1>1. QueriesInv => HistoryReachesState
    BY DEF QueriesInv
  <1> QED BY <1>1, QueriesInvariant, PTL

\* TornIsOvertaken: a summary whose history is ahead of its state is out of date.
THEOREM TornIsOvertakenCorrect == QueriesSpec => []TornIsOvertaken
  <1>1. QueriesInv => TornIsOvertaken
    <2> SUFFICES ASSUME QueriesInv, NEW q \in Reader, NEW x \in EntityId,
                        summary[q][x] # NoRow,
                        NEW row \in summary[q][x].history,
                        Newer(row, summary[q][x].state)
                 PROVE  Newer(entities[x], summary[q][x].state)
      BY DEF TornIsOvertaken
    <2>1. /\ StoreInv /\ row \in Rows(x)
          /\ AcceptedAs(summary[q][x].state) \in Rows(x)
      BY DEF QueriesInv, SummaryIsStored
    <2>2. /\ row.event.data_version \in Int
          /\ entities[x].event.data_version \in Int
          /\ row.event.data_version <= entities[x].event.data_version
      BY <2>1, StoredIsNotNewer
    <2>3. summary[q][x].state.event.data_version \in Int
      BY <2>1, AcceptedIsNotNewer
    <2> QED BY <2>2, <2>3 DEF Newer
  <1> QED BY <1>1, QueriesInvariant, PTL

\* AnswersGoOn: a device that asks again is never taken back.
THEOREM AnswersGoOnCorrect == QueriesSpec => AnswersGoOn
  <1>1. QueriesInv /\ [QueriesNext]_queriesVars => [GoesOn]_queriesVars
    BY QueriesInvStep
  <1> QED BY <1>1, QueriesInvariant, PTL DEF QueriesSpec, AnswersGoOn
=============================================================================
