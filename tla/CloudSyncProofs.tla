---------------------------- MODULE CloudSyncProofs ----------------------------
(***************************************************************************)
(* Theorems about CloudSync, for any number of requests and readers: what   *)
(* was proved of the requests and of the questions each on their own holds  *)
(* of both on one database, and what replies told is what questions find.   *)
(***************************************************************************)
EXTENDS CloudSync, RevisionIngestProofs, CloudQueriesProofs

\* A step of the whole is a step of the requests or nothing to them, because
\* readers write nothing, and to the readers it is one step of the store.
LEMMA SyncStepProjects ==
  ASSUME IngestInv, [SyncNext]_syncVars
  PROVE  [IngestNext]_vars /\ [QueriesNext]_queriesVars
  <1>1. CASE UNCHANGED syncVars
    BY <1>1 DEF syncVars, vars, readerVars, queriesVars
  <1>2. CASE IngestNext /\ UNCHANGED readerVars
    <2>1. [StoreNext]_storeVars
      BY <1>2, StepRefines
    <2> QED BY <1>2, <2>1 DEF QueriesNext, Write, queriesVars, readerVars
  <1>3. CASE ReaderNext /\ UNCHANGED ingestVars
    <2>1. UNCHANGED storeVars
      BY <1>3 DEF ReaderNext, ReadState, ReadNoState, ReadHistory, ReadFails, GetContent, GetArchive
    <2> QED BY <1>3, <2>1 DEF QueriesNext, vars
  <1> QED BY <1>1, <1>2, <1>3 DEF SyncNext

LEMMA SyncInvariant == SyncSpec => []IngestInv
  <1>1. IngestInv /\ [SyncNext]_syncVars => IngestInv'
    BY SyncStepProjects, IngestInvStep
  <1>2. SyncInit => IngestInv
    BY IngestInvInit DEF SyncInit
  <1> QED BY <1>1, <1>2, PTL DEF SyncSpec

\* Readers disturb no request: the requests behave as if nobody asked.
THEOREM SyncImplementsIngest == SyncSpec => IngestSafe
  <1>1. IngestInv /\ [SyncNext]_syncVars => [IngestNext]_vars
    BY SyncStepProjects
  <1>2. SyncInit => IngestInit
    BY DEF SyncInit
  <1> QED BY <1>1, <1>2, SyncInvariant, PTL DEF SyncSpec, IngestSafe

\* Readers see the interleaved and failing transactions as single steps of the store.
THEOREM SyncImplementsQueries == SyncSpec => ImplementsQueries
  <1>1. IngestInv /\ [SyncNext]_syncVars => [QueriesNext]_queriesVars
    BY SyncStepProjects
  <1>2. SyncInit => QueriesInit
    BY DEF SyncInit
  <1> QED BY <1>1, <1>2, SyncInvariant, PTL DEF SyncSpec, ImplementsQueries, QueriesSpec

\* Whatever steps of transactions come between the two statements of a summary,
\* its history accounts for its state.
THEOREM SyncHistoryReachesState == SyncSpec => []HistoryReachesState
  BY SyncImplementsQueries, HistoryReachesStateCorrect, PTL DEF ImplementsQueries

\* A summary torn by a transaction that committed in between is out of date.
THEOREM SyncTornIsOvertaken == SyncSpec => []TornIsOvertaken
  BY SyncImplementsQueries, TornIsOvertakenCorrect, PTL DEF ImplementsQueries

\* No request, however it ends, makes a device that asks again be told less.
THEOREM SyncAnswersGoOn == SyncSpec => AnswersGoOn
  BY SyncImplementsQueries, AnswersGoOnCorrect, PTL DEF ImplementsQueries
-----------------------------------------------------------------------------
(* Replies and questions *)

\* What a reply told of is stored as accepted.
LEMMA ToldIsAccepted ==
  ASSUME ReplyInv, NEW r \in Req, NEW e \in Told(r)
  PROVE  \E row \in Synced : row.event = e
  <1>1. PICK i \in DOMAIN results[r] :
          \/ results[r][i].status = "synced" /\ e = job[r].events[i]
          \/ e = results[r][i].cloud /\ e # NoRow
    BY DEF Told
  <1>2. reply[r] = "ok"
    BY DEF Told
  <1>5. Holds(revisions, results[r][i], job[r].events[i], job[r].device)
    BY <1>2 DEF ReplyInv, Replying, Told200
  <1>3. CASE e = results[r][i].cloud /\ e # NoRow
    BY <1>5, <1>3 DEF Holds, Synced
  <1>4. CASE results[r][i].status = "synced" /\ e = job[r].events[i]
    BY <1>5, <1>4 DEF Holds, Synced
  <1> QED BY <1>1, <1>3, <1>4

\* An accepted revision is what its entity and its index rows show, or is behind it.
LEMMA AcceptedShows ==
  ASSUME StoreInv, IndexInv, NEW row \in Synced, NEW e, e = row.event
  PROVE  /\ entities[e.entity_id] # NoRow
         /\ entities[e.entity_id].event.data_version >= e.data_version
         /\ IsContent(e) => contents[ContentKey(e)] # NoRow
         /\ IsArchive(e) =>
              /\ archives[ArchiveKey(e)] # NoRow
              /\ archives[ArchiveKey(e)].archive_size >= NewArchive(e).archive_size
              /\ NewArchive(e).remote_verified => archives[ArchiveKey(e)].remote_verified
  <1>1. row \in revisions /\ e \in Events /\ Admissible(e) /\ e.entity_id \in EntityId
        /\ e.data_version \in Int
    BY RowTypes, AdmissibleEvent DEF Synced, IndexInv, HistoryAdmissible
  <1>2. row \in Rows(e.entity_id)
    BY <1>1 DEF Rows
  <1>3. entities[e.entity_id] # NoRow
    BY <1>1, <1>2 DEF StoreInv, ProjectionIsNewest
  <1>4. entities[e.entity_id].event.data_version >= e.data_version
    BY <1>1, <1>2, <1>3, StoredIsNotNewer
  <1>5. ASSUME IsContent(e) PROVE contents[ContentKey(e)] # NoRow
    <2>1. ContentKey(e) \in ContentId /\ NewContent(e) \in ContentSaid(ContentKey(e))
      BY <1>1, <1>5 DEF ContentId, ContentSaid
    <2> QED BY <2>1 DEF IndexInv, ContentIndexSound
  <1>6. ASSUME IsArchive(e)
        PROVE  /\ archives[ArchiveKey(e)] # NoRow
               /\ archives[ArchiveKey(e)].archive_size >= NewArchive(e).archive_size
               /\ NewArchive(e).remote_verified => archives[ArchiveKey(e)].remote_verified
    <2>1. ArchiveKey(e) \in ArchiveId /\ NewArchive(e) \in ArchiveSaid(ArchiveKey(e))
      BY <1>1, <1>6 DEF ArchiveId, ArchiveSaid
    <2> DEFINE k == ArchiveKey(e)
               a == NewArchive(e)
    <2>2. archives[k] # NoRow /\ archives[k] \in Archive /\ a.archive_size \in Int
      BY <2>1, <1>1, ArchiveSaidTypes DEF IndexInv, ArchiveIndexAggregates, StoreTypeOK
    <2>3. /\ a.archive_size <= archives[k].archive_size
          /\ archives[k].remote_verified = \E b \in ArchiveSaid(k) : b.remote_verified
      BY <2>1 DEF IndexInv, ArchiveIndexAggregates
    <2> HIDE DEF a
    <2>4. archives[k].archive_size >= a.archive_size
      BY <2>2, <2>3 DEF Archive
    <2>5. a.remote_verified => archives[k].remote_verified
      BY <2>1, <2>3 DEF a
    <2> QED BY <2>2, <2>4, <2>5 DEF a
  <1> QED BY <1>3, <1>4, <1>5, <1>6

\* RepliesShow: no question that is asked after a reply is answered with less than
\* the reply told, for any number of requests and readers.
THEOREM RepliesShowCorrect == SyncSpec => []RepliesShow
  <1>1. ReplyInv /\ StoreInv /\ IndexInv => RepliesShow
    <2> SUFFICES ASSUME ReplyInv, StoreInv, IndexInv,
                        NEW r \in Req, NEW e \in Told(r)
                 PROVE  /\ entities[e.entity_id] # NoRow
                        /\ entities[e.entity_id].event.data_version >= e.data_version
                        /\ IsContent(e) => contents[ContentKey(e)] # NoRow
                        /\ IsArchive(e) =>
                             /\ archives[ArchiveKey(e)] # NoRow
                             /\ archives[ArchiveKey(e)].archive_size >= NewArchive(e).archive_size
                             /\ NewArchive(e).remote_verified => archives[ArchiveKey(e)].remote_verified
      BY DEF RepliesShow
    <2>1. PICK row \in Synced : row.event = e
      BY ToldIsAccepted
    <2> QED BY <2>1, AcceptedShows
  <1> QED BY <1>1, SyncImplementsIngest, ReplyInvariant, IngestImplementsStore, StoreInvariant,
             IndexInvariant, PTL DEF ImplementsStore
=============================================================================
