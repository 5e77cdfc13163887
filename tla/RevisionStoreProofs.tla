------------------------- MODULE RevisionStoreProofs -------------------------
(***************************************************************************)
(* Theorems about RevisionStore, for every set of events and devices.       *)
(***************************************************************************)
EXTENDS RevisionStore, TLAPS

-----------------------------------------------------------------------------
(* What an admissible event contributes *)

\* An admissible event names an entity, and an index event has an object for
\* its payload.
LEMMA AdmissibleEvent ==
  ASSUME NEW e \in Events, Admissible(e)
  PROVE  /\ e.entity_id \in EntityId
         /\ e.revision_id \in Text /\ e.data_version \in Int
         /\ Deleted(e) \in BOOLEAN
         /\ IsContent(e) \/ IsArchive(e) => e.payload \in Fields
  BY EventsAssumption
  DEF EventTyped, Admissible, ValidRevisionEvent, IndexOK, ContentIndexOK,
      ArchiveIndexOK, Deleted

\* The readers of a JSON object return values of the columns' types.
LEMMA FieldTypes ==
  ASSUME NEW f \in Fields
  PROVE  /\ \A k \in {f.content_id, f.file_sha256, f.archive_sha256, f.remote_path} :
              StringOf(k) \in Text
         /\ IntOf(ContentSize(f)) \in Int
         /\ IntOf(ArchiveSize(f)) \in Int
         /\ BoolOf(f.remote_verified) \in BOOLEAN
  <1>1. /\ {f.content_id, f.file_sha256, f.archive_sha256, f.remote_path} \subseteq StringField
        /\ {f.size_bytes, f.size, f.archive_size} \subseteq IntField
        /\ f.remote_verified \in BoolField
    BY DEF Fields
  <1>2. ASSUME NEW k \in StringField PROVE StringOf(k) \in Text
    BY TextAssumption DEF StringField, StringOf
  <1>3. ContentSize(f) \in IntField /\ ArchiveSize(f) \in IntField
    BY <1>1 DEF ContentSize, ArchiveSize, FirstPresent
  <1>4. ASSUME NEW k \in IntField PROVE IntOf(k) \in Int
    BY DEF IntField, IntOf
  <1>5. BoolOf(f.remote_verified) \in BOOLEAN
    BY <1>1 DEF BoolField, BoolOf
  <1> QED BY <1>1, <1>2, <1>3, <1>4, <1>5

LEMMA ContentRowType ==
  ASSUME NEW e \in Events, Admissible(e), IsContent(e),
         NEW row \in Content \cup {NoRow}
  PROVE  /\ ContentKey(e) \in ContentId
         /\ UpsertContent(row, e) \in Content
  <1>1. ContentKey(e) \in ContentId
    BY DEF ContentId
  <1>2. e.entity_id \in EntityId /\ e.payload \in Fields
    BY AdmissibleEvent
  <1>3. StringOf(e.payload.file_sha256) \in Text /\ IntOf(ContentSize(e.payload)) \in Int
    BY <1>2, FieldTypes
  <1>4. CASE row = NoRow
    BY <1>1, <1>2, <1>3, <1>4 DEF UpsertContent, NewContent, Content
  <1>5. CASE row # NoRow
    BY <1>1, <1>2, <1>5 DEF UpsertContent, Content
  <1> QED BY <1>4, <1>5

LEMMA ArchiveRowType ==
  ASSUME NEW e \in Events, Admissible(e), IsArchive(e),
         NEW row \in Archive \cup {NoRow}
  PROVE  /\ ArchiveKey(e) \in ArchiveId
         /\ NewArchive(e) \in Archive
         /\ UpsertArchive(row, e) \in Archive
  <1>1. ArchiveKey(e) \in ArchiveId
    BY DEF ArchiveId
  <1>2. e.entity_id \in EntityId /\ e.payload \in Fields
    BY AdmissibleEvent
  <1>3. /\ StringOf(e.payload.remote_path) \in Text
        /\ IntOf(ArchiveSize(e.payload)) \in Int
        /\ BoolOf(e.payload.remote_verified) \in BOOLEAN
    BY <1>2, FieldTypes
  <1>4. NewArchive(e) \in Archive
    BY <1>2, <1>3 DEF NewArchive, Archive
  <1>5. CASE row = NoRow
    BY <1>1, <1>4, <1>5 DEF UpsertArchive
  <1>6. CASE row # NoRow
    BY <1>1, <1>2, <1>4, <1>6 DEF UpsertArchive, Archive, Greatest
  <1> QED BY <1>5, <1>6
-----------------------------------------------------------------------------
(* Type correctness *)

LEMMA StoreTypeInit == StoreInit => StoreTypeOK
  BY DEF StoreInit, StoreTypeOK

LEMMA InsertType ==
  ASSUME StoreTypeOK, NEW d \in Device, NEW e \in Events,
         NEW status \in Status, NEW c \in Text \cup {NoRow},
         InsertRevision(d, e, status, c)
  PROVE  revisions' \subseteq Revision
  BY DEF StoreTypeOK, InsertRevision, Revision

LEMMA AcceptType ==
  ASSUME StoreTypeOK, NEW d \in Device, NEW e \in Events, Accept(d, e)
  PROVE  StoreTypeOK'
  <1>1. Admissible(e)
    BY DEF Accept, Recordable
  <1>2. revisions' \subseteq Revision
    BY InsertType DEF Accept, Status
  <1>3. entities' \in [EntityId -> Entity \cup {NoRow}]
    <2>1. [event |-> e, device |-> d, deleted |-> Deleted(e)] \in Entity
      BY <1>1, AdmissibleEvent DEF Entity
    <2> QED BY <2>1 DEF StoreTypeOK, Accept, UpsertEntity
  <1>4. contents' \in [ContentId -> Content \cup {NoRow}]
    <2>1. CASE IsContent(e)
      <3>1. ContentKey(e) \in ContentId
        BY <1>1, <2>1 DEF ContentId
      <3>2. contents[ContentKey(e)] \in Content \cup {NoRow}
        BY <3>1 DEF StoreTypeOK
      <3>3. UpsertContent(contents[ContentKey(e)], e) \in Content
        BY <1>1, <2>1, <3>2, ContentRowType
      <3> QED BY <2>1, <3>1, <3>3 DEF StoreTypeOK, Accept, UpsertIndexes
    <2>2. CASE ~ IsContent(e)
      BY <2>2 DEF StoreTypeOK, Accept, UpsertIndexes
    <2> QED BY <2>1, <2>2
  <1>5. archives' \in [ArchiveId -> Archive \cup {NoRow}]
    <2>1. CASE IsArchive(e)
      <3>1. ArchiveKey(e) \in ArchiveId
        BY <1>1, <2>1 DEF ArchiveId
      <3>2. archives[ArchiveKey(e)] \in Archive \cup {NoRow}
        BY <3>1 DEF StoreTypeOK
      <3>3. UpsertArchive(archives[ArchiveKey(e)], e) \in Archive
        BY <1>1, <2>1, <3>2, ArchiveRowType
      <3> QED BY <2>1, <3>1, <3>3 DEF StoreTypeOK, Accept, UpsertIndexes
    <2>2. CASE ~ IsArchive(e)
      BY <2>2 DEF StoreTypeOK, Accept, UpsertIndexes
    <2> QED BY <2>1, <2>2
  <1> QED BY <1>2, <1>3, <1>4, <1>5 DEF StoreTypeOK

\* An event that loses finds a current version to lose against.
LEMMA LoserFindsWinner ==
  ASSUME StoreTypeOK, NEW e \in Events, NEW verdict,
         Recordable(e, verdict), verdict # "synced"
  PROVE  /\ e.entity_id \in EntityId
         /\ entities[e.entity_id] \in Entity
  <1>1. e.entity_id \in EntityId
    BY AdmissibleEvent DEF Recordable
  <1>2. entities[e.entity_id] # NoRow
    BY DEF Recordable, Verdict
  <1> QED BY <1>1, <1>2 DEF StoreTypeOK

LEMMA LoserType ==
  ASSUME StoreTypeOK, NEW d \in Device, NEW e \in Events,
         NEW verdict \in {"conflict", "duplicate"}, RecordLoser(d, e, verdict)
  PROVE  StoreTypeOK'
  <1>1. entities[e.entity_id] \in Entity
    BY LoserFindsWinner DEF RecordLoser
  <1>2. entities[e.entity_id].event.revision_id \in Text
    BY <1>1, EventsAssumption DEF Entity, EventTyped
  <1>3. revisions' \subseteq Revision
    BY <1>2, InsertType DEF RecordLoser, Status
  <1> QED BY <1>3 DEF RecordLoser, StoreTypeOK

LEMMA StoreTypeStep == StoreTypeOK /\ [StoreNext]_storeVars => StoreTypeOK'
  <1> SUFFICES ASSUME StoreTypeOK, [StoreNext]_storeVars PROVE StoreTypeOK'
    OBVIOUS
  <1>1. CASE UNCHANGED storeVars
    BY <1>1 DEF storeVars, StoreTypeOK
  <1>2. CASE StoreNext
    BY <1>2, AcceptType, LoserType DEF StoreNext
  <1> QED BY <1>1, <1>2

\* The tables keep their types.
THEOREM StoreTypeCorrect == StoreSpec => []StoreTypeOK
  BY StoreTypeInit, StoreTypeStep, PTL DEF StoreSpec
-----------------------------------------------------------------------------
(* The history and its projection *)

\* Rows of the history keep their types.
LEMMA RowTypes ==
  ASSUME StoreTypeOK, NEW row \in revisions
  PROVE  /\ row \in Revision /\ row.event \in Events
         /\ row.event.data_version \in Int
         /\ row.event.entity_id \in EntityId \cup {Blank}
  BY EventsAssumption DEF StoreTypeOK, Revision, EventTyped

\* The current version of an entity has its row in the history.
LEMMA CurrentIsStored ==
  ASSUME StoreTypeOK, ProjectionIsNewest,
         NEW x \in EntityId, entities[x] # NoRow
  PROVE  /\ entities[x] \in Entity
         /\ \E w \in Synced : /\ w.event = entities[x].event
                             /\ w.event.entity_id = x
         /\ \A row \in revisions : row.event.entity_id = x =>
              row.event.data_version <= entities[x].event.data_version
  <1>1. entities[x] \in Entity
    BY DEF StoreTypeOK
  <1> DEFINE w == [event |-> entities[x].event, device |-> entities[x].device,
                   apply_status |-> "synced", conflict_of |-> NoRow]
  <1>2. w \in Rows(x)
    BY DEF ProjectionIsNewest
  <1>3. w \in Synced /\ w.event = entities[x].event /\ w.event.entity_id = x
    BY <1>2 DEF Rows, Synced
  <1>4. \A row \in revisions : row.event.entity_id = x =>
          row.event.data_version <= entities[x].event.data_version
    BY DEF ProjectionIsNewest, Rows
  <1> QED BY <1>1, <1>3, <1>4

\* What is accepted is newer than everything its entity has.
LEMMA AcceptedIsNewer ==
  ASSUME StoreTypeOK, ProjectionIsNewest, NEW e \in Events, Recordable(e, "synced")
  PROVE  \A row \in revisions : row.event.entity_id = e.entity_id =>
           row.event.data_version < e.data_version
  <1> DEFINE x == e.entity_id
  <1>1. x \in EntityId /\ e.data_version \in Int
    BY AdmissibleEvent DEF Recordable
  <1>2. CASE entities[x] = NoRow
    BY <1>1, <1>2 DEF ProjectionIsNewest, Rows
  <1>3. CASE entities[x] # NoRow
    <2> DEFINE cur == entities[x].event
    <2>1. PICK w \in Synced : w.event = cur /\ w.event.entity_id = x
      BY <1>1, <1>3, CurrentIsStored
    <2>2. cur.data_version \in Int
      BY <2>1, RowTypes DEF Synced
    <2>3. ~ IsConflict(cur, e) /\ ~ SameRecord(cur, e)
      BY <1>3 DEF Recordable, Verdict
    <2>4. cur.revision_id # e.revision_id
      BY <2>1 DEF Recordable, Unseen, SameRevision, Synced
    <2>5. cur.data_version < e.data_version
      BY <1>1, <2>2, <2>3, <2>4 DEF IsConflict, SameRecord
    <2>6. \A row \in revisions : row.event.entity_id = x =>
            row.event.data_version <= cur.data_version
      BY <1>1, <1>3, CurrentIsStored
    <2> QED BY <1>1, <2>2, <2>5, <2>6, RowTypes
  <1> QED BY <1>2, <1>3

\* What loses is not newer than the current version.
LEMMA LoserIsNotNewer ==
  ASSUME StoreTypeOK, NEW e \in Events, NEW verdict \in {"conflict", "duplicate"},
         Recordable(e, verdict)
  PROVE  /\ IF verdict = "conflict" THEN IsConflict(entities[e.entity_id].event, e)
            ELSE SameRecord(entities[e.entity_id].event, e)
         /\ e.data_version <= entities[e.entity_id].event.data_version
  <1>1. e.entity_id \in EntityId /\ entities[e.entity_id] \in Entity
    BY LoserFindsWinner
  <1> DEFINE cur == entities[e.entity_id].event
  <1>2. e.data_version \in Int /\ cur.data_version \in Int
    BY <1>1, EventsAssumption DEF Entity, EventTyped
  <1>3. IF verdict = "conflict" THEN IsConflict(cur, e) ELSE SameRecord(cur, e)
    BY DEF Recordable, Verdict
  <1>4. e.data_version <= cur.data_version
    BY <1>2, <1>3 DEF IsConflict, SameRecord
  <1> QED BY <1>3, <1>4

StoreInv ==
  /\ StoreTypeOK
  /\ ProjectionIsNewest
  /\ OneWinnerPerVersion
  /\ LosersNameTheirWinner

LEMMA StoreInvInit == StoreInit => StoreInv
  <1> SUFFICES ASSUME StoreInit PROVE StoreInv
    OBVIOUS
  <1>1. StoreTypeOK
    BY StoreTypeInit
  <1>2. ProjectionIsNewest
    BY DEF StoreInit, ProjectionIsNewest, Rows
  <1>3. OneWinnerPerVersion /\ LosersNameTheirWinner
    BY DEF StoreInit, OneWinnerPerVersion, LosersNameTheirWinner
  <1> QED BY <1>1, <1>2, <1>3 DEF StoreInv

LEMMA AcceptKeepsInv ==
  ASSUME StoreInv, NEW d \in Device, NEW e \in Events, Accept(d, e)
  PROVE  StoreInv'
  <1> DEFINE x == e.entity_id
             new == [event |-> e, device |-> d, apply_status |-> "synced",
                     conflict_of |-> NoRow]
  <1> USE DEF StoreInv
  <1>1. StoreTypeOK'
    BY AcceptType
  <1>2. x \in EntityId /\ e.data_version \in Int
    BY AdmissibleEvent DEF Accept, Recordable
  <1>3. revisions' = revisions \cup {new}
    BY DEF Accept, InsertRevision
  <1>4. /\ entities'[x] = [event |-> e, device |-> d, deleted |-> Deleted(e)]
        /\ \A y \in EntityId \ {x} : entities'[y] = entities[y]
    BY <1>2 DEF Accept, UpsertEntity, StoreTypeOK
  <1>5. \A row \in revisions : row.event.entity_id = x =>
          row.event.data_version < e.data_version
    BY AcceptedIsNewer DEF Accept
  <1>6. ProjectionIsNewest'
    <2> SUFFICES ASSUME NEW y \in EntityId
                 PROVE  (IF entities[y] = NoRow THEN Rows(y) = {}
                         ELSE /\ [event |-> entities[y].event, device |-> entities[y].device,
                                  apply_status |-> "synced", conflict_of |-> NoRow] \in Rows(y)
                              /\ entities[y].deleted = Deleted(entities[y].event)
                              /\ \A row \in Rows(y) :
                                   row.event.data_version <= entities[y].event.data_version)'
      BY DEF ProjectionIsNewest
    <2>1. CASE y = x
      <3>1. entities'[x] # NoRow
        <4>1. entities'[x] \in Entity
          BY <1>2, <1>4, AdmissibleEvent DEF Entity, Accept, Recordable
        <4> QED BY <4>1, NoRowAssumption
      <3>2. new \in Rows(x)'
        BY <1>3 DEF Rows
      <3>3. \A row \in Rows(x)' : row.event.data_version <= e.data_version
        <4> TAKE row \in Rows(x)'
        <4>1. CASE row = new
          BY <1>2, <4>1
        <4>2. CASE row # new
          <5>1. row \in revisions /\ row.event.entity_id = x
            BY <1>3, <4>2 DEF Rows
          <5> QED BY <1>2, <1>5, <5>1, RowTypes
        <4> QED BY <4>1, <4>2
      <3> QED BY <1>4, <2>1, <3>1, <3>2, <3>3
    <2>2. CASE y # x
      <3>1. Rows(y)' = Rows(y)
        BY <1>3, <2>2 DEF Rows
      <3>2. entities'[y] = entities[y]
        BY <1>4, <2>2
      <3> QED BY <3>1, <3>2 DEF ProjectionIsNewest
    <2> QED BY <2>1, <2>2
  <1>7. OneWinnerPerVersion'
    <2>1. ASSUME NEW r \in revisions
          PROVE  /\ ~ SameEvent(r, e) /\ ~ SameRevision(r, e)
                 /\ r.event.entity_id # x \/ r.event.data_version # e.data_version
      BY <1>2, <1>5, <2>1, RowTypes DEF Accept, Recordable, Unseen
    <2> QED BY <1>3, <2>1 DEF OneWinnerPerVersion, SameEvent, SameRevision
  <1>8. LosersNameTheirWinner'
    <2>1. Synced \subseteq Synced' /\ (revisions \ Synced)' = revisions \ Synced
      BY <1>3 DEF Synced
    <2> QED BY <2>1 DEF LosersNameTheirWinner
  <1> QED BY <1>1, <1>6, <1>7, <1>8

LEMMA LoserKeepsInv ==
  ASSUME StoreInv, NEW d \in Device, NEW e \in Events,
         NEW verdict \in {"conflict", "duplicate"}, RecordLoser(d, e, verdict)
  PROVE  StoreInv'
  <1> DEFINE x == e.entity_id
             cur == entities[x].event
             new == [event |-> e, device |-> d, apply_status |-> verdict,
                     conflict_of |-> cur.revision_id]
  <1> USE DEF StoreInv
  <1>1. StoreTypeOK'
    BY LoserType
  <1>2. /\ x \in EntityId /\ entities[x] \in Entity
        /\ e.data_version <= cur.data_version
        /\ IF verdict = "conflict" THEN IsConflict(cur, e) ELSE SameRecord(cur, e)
    BY LoserFindsWinner, LoserIsNotNewer DEF RecordLoser
  <1>3. revisions' = revisions \cup {new} /\ entities' = entities
    BY DEF RecordLoser, InsertRevision
  <1>4. entities[x] # NoRow
    BY <1>2, NoRowAssumption
  <1>5. ProjectionIsNewest'
    <2> SUFFICES ASSUME NEW y \in EntityId
                 PROVE  (IF entities[y] = NoRow THEN Rows(y) = {}
                         ELSE /\ [event |-> entities[y].event, device |-> entities[y].device,
                                  apply_status |-> "synced", conflict_of |-> NoRow] \in Rows(y)
                              /\ entities[y].deleted = Deleted(entities[y].event)
                              /\ \A row \in Rows(y) :
                                   row.event.data_version <= entities[y].event.data_version)'
      BY DEF ProjectionIsNewest
    <2>1. CASE y = x
      <3>1. Rows(x)' = Rows(x) \cup {new}
        BY <1>3 DEF Rows
      <3> QED BY <1>2, <1>3, <1>4, <2>1, <3>1 DEF ProjectionIsNewest
    <2>2. CASE y # x
      <3>1. Rows(y)' = Rows(y)
        BY <1>3, <2>2 DEF Rows
      <3> QED BY <1>3, <3>1 DEF ProjectionIsNewest
    <2> QED BY <2>1, <2>2
  <1>6. OneWinnerPerVersion'
    <2>1. \A r \in revisions : ~ SameEvent(r, e) /\ ~ SameRevision(r, e)
      BY DEF RecordLoser, Recordable, Unseen
    <2>2. new.apply_status # "synced"
      OBVIOUS
    <2> QED BY <1>3, <2>1, <2>2 DEF OneWinnerPerVersion, SameEvent, SameRevision
  <1>7. LosersNameTheirWinner'
    <2>1. Synced' = Synced
      BY <1>3 DEF Synced
    <2>2. PICK w \in Synced : w.event = cur /\ w.event.entity_id = x
      BY <1>2, <1>4, CurrentIsStored
    <2> QED BY <1>2, <1>3, <2>1, <2>2 DEF LosersNameTheirWinner
  <1> QED BY <1>1, <1>5, <1>6, <1>7

LEMMA StoreInvStep == StoreInv /\ [StoreNext]_storeVars => StoreInv'
  <1> SUFFICES ASSUME StoreInv, [StoreNext]_storeVars PROVE StoreInv'
    OBVIOUS
  <1>1. CASE UNCHANGED storeVars
    BY <1>1 DEF storeVars, StoreInv, StoreTypeOK, ProjectionIsNewest, Rows,
                OneWinnerPerVersion, LosersNameTheirWinner, Synced
  <1>2. CASE StoreNext
    BY <1>2, AcceptKeepsInv, LoserKeepsInv DEF StoreNext
  <1> QED BY <1>1, <1>2

LEMMA StoreInvariant == StoreSpec => []StoreInv
  BY StoreInvInit, StoreInvStep, PTL DEF StoreSpec

\* The projection of every entity is its newest accepted revision.
THEOREM ProjectionCorrect == StoreSpec => []ProjectionIsNewest
  BY StoreInvariant, PTL DEF StoreInv

\* No two devices win the same version of an entity, nor the same revision or
\* event id.
THEOREM OneWinnerCorrect == StoreSpec => []OneWinnerPerVersion
  BY StoreInvariant, PTL DEF StoreInv

\* Every lost revision names an accepted one that explains why it lost.
THEOREM LosersCorrect == StoreSpec => []LosersNameTheirWinner
  BY StoreInvariant, PTL DEF StoreInv
-----------------------------------------------------------------------------
(* The indexes *)

\* A step without a new accepted row leaves what the events said about every key.
LEMMA SaidUnchanged ==
  ASSUME Synced' = Synced
  PROVE  /\ \A k : ContentSaid(k)' = ContentSaid(k)
         /\ \A k : ArchiveSaid(k)' = ArchiveSaid(k)
  BY DEF ContentSaid, ArchiveSaid

LEMMA LoserKeepsSynced ==
  ASSUME NEW d \in Device, NEW e \in Events,
         NEW verdict \in {"conflict", "duplicate"}, RecordLoser(d, e, verdict)
  PROVE  Synced' = Synced
  BY DEF RecordLoser, InsertRevision, Synced

\* Accepting an event adds what it says under its own key only.
LEMMA AcceptSaid ==
  ASSUME NEW d \in Device, NEW e \in Events, Accept(d, e)
  PROVE  /\ \A k : ContentSaid(k)' = IF IsContent(e) /\ ContentKey(e) = k
                                    THEN ContentSaid(k) \cup {NewContent(e)}
                                    ELSE ContentSaid(k)
         /\ \A k : ArchiveSaid(k)' = IF IsArchive(e) /\ ArchiveKey(e) = k
                                    THEN ArchiveSaid(k) \cup {NewArchive(e)}
                                    ELSE ArchiveSaid(k)
  <1> DEFINE new == [event |-> e, device |-> d, apply_status |-> "synced",
                     conflict_of |-> NoRow]
  <1>1. Synced' = Synced \cup {new} /\ new.event = e
    BY DEF Accept, InsertRevision, Synced
  <1>2. ASSUME NEW k
        PROVE  ContentSaid(k)' = IF IsContent(e) /\ ContentKey(e) = k
                                 THEN ContentSaid(k) \cup {NewContent(e)}
                                 ELSE ContentSaid(k)
    <2> HIDE DEF new
    <2> DEFINE C(S) == {r \in S : IsContent(r.event) /\ ContentKey(r.event) = k}
    <2>1. C(Synced') = IF IsContent(e) /\ ContentKey(e) = k
                       THEN C(Synced) \cup {new} ELSE C(Synced)
      BY <1>1
    <2> QED BY <1>1, <2>1 DEF ContentSaid
  <1>3. ASSUME NEW k
        PROVE  ArchiveSaid(k)' = IF IsArchive(e) /\ ArchiveKey(e) = k
                                 THEN ArchiveSaid(k) \cup {NewArchive(e)}
                                 ELSE ArchiveSaid(k)
    <2> HIDE DEF new
    <2> DEFINE A(S) == {r \in S : IsArchive(r.event) /\ ArchiveKey(r.event) = k}
    <2>1. A(Synced') = IF IsArchive(e) /\ ArchiveKey(e) = k
                       THEN A(Synced) \cup {new} ELSE A(Synced)
      BY <1>1
    <2> QED BY <1>1, <2>1 DEF ArchiveSaid
  <1> QED BY <1>2, <1>3

\* The history holds only events that passed the checks.
HistoryAdmissible == \A row \in revisions : Admissible(row.event)

IndexInv ==
  /\ StoreTypeOK
  /\ HistoryAdmissible
  /\ ContentIndexSound
  /\ ArchiveIndexAggregates

LEMMA HistoryAdmissibleStep ==
  ASSUME HistoryAdmissible, [StoreNext]_storeVars
  PROVE  HistoryAdmissible'
  BY DEF HistoryAdmissible, StoreNext, Accept, RecordLoser, Recordable, InsertRevision, storeVars

LEMMA IndexInvInit == StoreInit => IndexInv
  <1> SUFFICES ASSUME StoreInit PROVE IndexInv
    OBVIOUS
  <1>1. Synced = {}
    BY DEF StoreInit, Synced
  <1>2. HistoryAdmissible /\ ContentIndexSound /\ ArchiveIndexAggregates
    BY <1>1 DEF HistoryAdmissible, StoreInit, ContentIndexSound, ArchiveIndexAggregates, ContentSaid, ArchiveSaid
  <1> QED BY <1>2, StoreTypeInit DEF IndexInv

\* What accepted events say has the type of an index row.
LEMMA ArchiveSaidTypes ==
  ASSUME StoreTypeOK, HistoryAdmissible, NEW k, NEW a \in ArchiveSaid(k)
  PROVE  a.archive_size \in Int
  <1>1. PICK row \in revisions : IsArchive(row.event) /\ a = NewArchive(row.event)
    BY DEF ArchiveSaid, Synced
  <1>2. row.event.payload \in Fields
    BY <1>1, RowTypes, AdmissibleEvent DEF HistoryAdmissible
  <1> QED BY <1>1, <1>2, FieldTypes DEF NewArchive

LEMMA AcceptKeepsContents ==
  ASSUME IndexInv, NEW d \in Device, NEW e \in Events, Accept(d, e)
  PROVE  ContentIndexSound'
  <1> USE DEF IndexInv
  <1>1. Admissible(e)
    BY DEF Accept, Recordable
  <1>2. SUFFICES ASSUME NEW k \in ContentId
                 PROVE  (IF ContentSaid(k) = {} THEN contents[k] = NoRow
                         ELSE /\ contents[k] # NoRow
                              /\ \E c \in ContentSaid(k) :
                                   /\ c.file_sha256 = contents[k].file_sha256
                                   /\ c.size_bytes = contents[k].size_bytes
                              /\ \E c \in ContentSaid(k) : c.latest = contents[k].latest)'
    BY DEF ContentIndexSound
  <1>3. CASE IsContent(e) /\ ContentKey(e) = k
    <2>1. contents'[k] = UpsertContent(contents[k], e)
      BY <1>2, <1>3 DEF Accept, UpsertIndexes, StoreTypeOK
    <2>2. contents'[k] # NoRow
      BY <1>1, <1>2, <1>3, <2>1, ContentRowType, NoRowAssumption DEF StoreTypeOK
    <2>3. ContentSaid(k)' = ContentSaid(k) \cup {NewContent(e)}
      BY <1>3, AcceptSaid
    <2>4. CASE contents[k] = NoRow
      BY <2>1, <2>2, <2>3, <2>4 DEF UpsertContent
    <2>5. CASE contents[k] # NoRow
      <3>1. /\ contents'[k].file_sha256 = contents[k].file_sha256
            /\ contents'[k].size_bytes = contents[k].size_bytes
            /\ contents'[k].latest = NewContent(e).latest
        BY <2>1, <2>5 DEF UpsertContent, NewContent
      <3> QED BY <1>2, <2>2, <2>3, <2>5, <3>1 DEF ContentIndexSound
    <2> QED BY <2>4, <2>5
  <1>4. CASE ~ (IsContent(e) /\ ContentKey(e) = k)
    <2>1. contents'[k] = contents[k]
      BY <1>2, <1>4 DEF Accept, UpsertIndexes, StoreTypeOK
    <2>2. ContentSaid(k)' = ContentSaid(k)
      BY <1>4, AcceptSaid
    <2> QED BY <1>2, <2>1, <2>2 DEF ContentIndexSound
  <1> QED BY <1>3, <1>4

LEMMA AcceptKeepsArchives ==
  ASSUME IndexInv, NEW d \in Device, NEW e \in Events, Accept(d, e)
  PROVE  ArchiveIndexAggregates'
  <1> USE DEF IndexInv
  <1>1. Admissible(e)
    BY DEF Accept, Recordable
  <1>2. SUFFICES ASSUME NEW k \in ArchiveId
                 PROVE  (IF ArchiveSaid(k) = {} THEN archives[k] = NoRow
                         ELSE /\ archives[k] # NoRow
                              /\ archives[k].remote_verified = \E a \in ArchiveSaid(k) : a.remote_verified
                              /\ \A a \in ArchiveSaid(k) : a.archive_size <= archives[k].archive_size
                              /\ \E a \in ArchiveSaid(k) : a.archive_size = archives[k].archive_size
                              /\ \E a \in ArchiveSaid(k) : a.remote_path = archives[k].remote_path
                              /\ archives[k].remote_path = Blank =>
                                   \A a \in ArchiveSaid(k) : a.remote_path = Blank
                              /\ \E a \in ArchiveSaid(k) : a.latest = archives[k].latest)'
    BY DEF ArchiveIndexAggregates
  <1>3. CASE IsArchive(e) /\ ArchiveKey(e) = k
    <2> DEFINE new == NewArchive(e)
               old == archives[k]
    <2>1. archives'[k] = UpsertArchive(old, e)
      BY <1>2, <1>3 DEF Accept, UpsertIndexes, StoreTypeOK
    <2>2. old \in Archive \cup {NoRow}
      BY <1>2 DEF StoreTypeOK
    <2>3. archives'[k] \in Archive /\ new \in Archive
      BY <1>1, <1>3, <2>1, <2>2, ArchiveRowType
    <2>4. archives'[k] # NoRow
      BY <2>3, NoRowAssumption
    <2>5. ArchiveSaid(k)' = ArchiveSaid(k) \cup {new}
      BY <1>3, AcceptSaid
    <2>6. CASE old = NoRow
      <3>1. archives'[k] = new /\ ArchiveSaid(k)' = {new}
        BY <1>2, <2>1, <2>5, <2>6 DEF UpsertArchive, ArchiveIndexAggregates
      <3>2. new.archive_size <= new.archive_size
        BY <2>3 DEF Archive
      <3>3. new.remote_verified = \E a \in {new} : a.remote_verified
        BY <2>3 DEF Archive
      <3> HIDE DEF new
      <3> QED BY <2>4, <3>1, <3>2, <3>3
    <2>7. CASE old # NoRow
      <3> DEFINE S == ArchiveSaid(k)
                 row == archives'[k]
      <3>1. /\ S # {}
            /\ old.remote_verified = \E a \in S : a.remote_verified
            /\ \A a \in S : a.archive_size <= old.archive_size
            /\ \E a \in S : a.archive_size = old.archive_size
            /\ \E a \in S : a.remote_path = old.remote_path
            /\ old.remote_path = Blank => \A a \in S : a.remote_path = Blank
        BY <1>2, <2>7 DEF ArchiveIndexAggregates
      <3>2. /\ row.archive_size = Greatest(old.archive_size, new.archive_size)
            /\ row.remote_path = IF new.remote_path # Blank THEN new.remote_path ELSE old.remote_path
            /\ row.remote_verified = (old.remote_verified \/ new.remote_verified)
            /\ row.latest = new.latest
        BY <2>1, <2>7 DEF UpsertArchive, NewArchive
      <3>3. /\ old.archive_size \in Int /\ new.archive_size \in Int
            /\ old.remote_verified \in BOOLEAN /\ new.remote_verified \in BOOLEAN
        BY <2>2, <2>3, <2>7 DEF Archive
      <3>4. \A a \in S : a.archive_size \in Int
        BY ArchiveSaidTypes
      <3>5. \A a \in S \cup {new} : a.archive_size <= row.archive_size
        BY <3>1, <3>2, <3>3, <3>4 DEF Greatest
      <3>6. \E a \in S \cup {new} : a.archive_size = row.archive_size
        BY <3>1, <3>2, <3>3 DEF Greatest
      <3>7. row.remote_verified = \E a \in S \cup {new} : a.remote_verified
        BY <3>1, <3>2, <3>3
      <3>8. /\ \E a \in S \cup {new} : a.remote_path = row.remote_path
            /\ row.remote_path = Blank => \A a \in S \cup {new} : a.remote_path = Blank
        BY <3>1, <3>2
      <3>9. \E a \in S \cup {new} : a.latest = row.latest
        BY <3>2
      <3> QED BY <2>4, <2>5, <3>5, <3>6, <3>7, <3>8, <3>9
    <2> QED BY <2>6, <2>7
  <1>4. CASE ~ (IsArchive(e) /\ ArchiveKey(e) = k)
    <2>1. archives'[k] = archives[k]
      BY <1>2, <1>4 DEF Accept, UpsertIndexes, StoreTypeOK
    <2>2. ArchiveSaid(k)' = ArchiveSaid(k)
      BY <1>4, AcceptSaid
    <2> DEFINE Sums(S, row) ==
                 IF S = {} THEN row = NoRow
                 ELSE /\ row # NoRow
                      /\ row.remote_verified = \E a \in S : a.remote_verified
                      /\ \A a \in S : a.archive_size <= row.archive_size
                      /\ \E a \in S : a.archive_size = row.archive_size
                      /\ \E a \in S : a.remote_path = row.remote_path
                      /\ row.remote_path = Blank => \A a \in S : a.remote_path = Blank
                      /\ \E a \in S : a.latest = row.latest
    <2>3. Sums(ArchiveSaid(k), archives[k])
      BY <1>2 DEF ArchiveIndexAggregates
    <2> HIDE DEF Sums
    <2>4. Sums(ArchiveSaid(k)', archives'[k])
      BY <2>1, <2>2, <2>3
    <2> QED BY <2>4 DEF Sums
  <1> QED BY <1>3, <1>4

LEMMA IndexInvStep == IndexInv /\ [StoreNext]_storeVars => IndexInv'
  <1> SUFFICES ASSUME IndexInv, [StoreNext]_storeVars PROVE IndexInv'
    OBVIOUS
  <1>1. StoreTypeOK' /\ HistoryAdmissible'
    BY StoreTypeStep, HistoryAdmissibleStep DEF IndexInv
  <1>2. CASE Synced' = Synced /\ UNCHANGED <<contents, archives>>
    <2>1. ContentIndexSound'
      BY <1>2, SaidUnchanged DEF IndexInv, ContentIndexSound
    <2>2. ArchiveIndexAggregates'
      BY <1>2, SaidUnchanged DEF IndexInv, ArchiveIndexAggregates
    <2> QED BY <1>1, <2>1, <2>2 DEF IndexInv
  <1>3. CASE UNCHANGED storeVars
    BY <1>2, <1>3 DEF storeVars, Synced
  <1>4. ASSUME NEW d \in Device, NEW e \in Events, Accept(d, e) PROVE IndexInv'
    BY <1>1, <1>4, AcceptKeepsContents, AcceptKeepsArchives DEF IndexInv
  <1>5. ASSUME NEW d \in Device, NEW e \in Events,
               NEW verdict \in {"conflict", "duplicate"}, RecordLoser(d, e, verdict)
        PROVE  IndexInv'
    BY <1>2, <1>5, LoserKeepsSynced DEF RecordLoser
  <1> QED BY <1>3, <1>4, <1>5 DEF StoreNext

LEMMA IndexInvariant == StoreSpec => []IndexInv
  BY IndexInvInit, IndexInvStep, PTL DEF StoreSpec

\* The content index has a row exactly for the contents that accepted revisions
\* name; its digest and size are those that one of them gave together, and it
\* names an entity whose revision, maybe another, gave the content.
THEOREM ContentIndexCorrect == StoreSpec => []ContentIndexSound
  BY IndexInvariant, PTL DEF IndexInv

\* The archive index is the aggregate of all accepted events of an archive.
THEOREM ArchiveIndexCorrect == StoreSpec => []ArchiveIndexAggregates
  BY IndexInvariant, PTL DEF IndexInv
-----------------------------------------------------------------------------
(* Steps *)

LEMMA AcceptKeepsWhatIsStored ==
  ASSUME StoreInv, NEW d \in Device, NEW e \in Events, Accept(d, e)
  PROVE  KeepsWhatIsStored
  <1> USE DEF StoreInv
  <1>1. Admissible(e) /\ e.entity_id \in EntityId /\ e.data_version \in Int
    BY AdmissibleEvent DEF Accept, Recordable
  <1>2. StoreTypeOK'
    BY AcceptType
  <1>3. revisions \subseteq revisions'
    BY DEF Accept, InsertRevision
  <1>4. ASSUME NEW x \in EntityId, entities[x] # NoRow
        PROVE  /\ entities'[x] # NoRow
               /\ \/ entities'[x] = entities[x]
                  \/ entities'[x].event.data_version > entities[x].event.data_version
    <2>1. CASE x = e.entity_id
      <3>1. PICK w \in Synced : w.event = entities[x].event /\ w.event.entity_id = x
        BY <1>4, CurrentIsStored
      <3>2. w.event.data_version < e.data_version /\ w.event.data_version \in Int
        BY <2>1, <3>1, AcceptedIsNewer, RowTypes DEF Accept, Synced
      <3>3. entities'[x] = [event |-> e, device |-> d, deleted |-> Deleted(e)]
        BY <2>1 DEF Accept, UpsertEntity, StoreTypeOK
      <3>4. entities'[x] # NoRow
        BY <1>1, <3>3, AdmissibleEvent, NoRowAssumption DEF Entity
      <3> QED BY <1>1, <3>1, <3>2, <3>3, <3>4
    <2>2. CASE x # e.entity_id
      BY <1>4, <2>2 DEF Accept, UpsertEntity, StoreTypeOK
    <2> QED BY <2>1, <2>2
  <1>5. ASSUME NEW k \in ContentId, contents[k] # NoRow
        PROVE  /\ contents'[k].file_sha256 = contents[k].file_sha256
               /\ contents'[k].size_bytes = contents[k].size_bytes
    <2>1. \/ contents'[k] = contents[k]
          \/ contents'[k] = UpsertContent(contents[k], e)
      BY DEF Accept, UpsertIndexes, StoreTypeOK
    <2> QED BY <1>5, <2>1 DEF UpsertContent
  <1>7. ASSUME NEW k \in ContentId, contents'[k] # contents[k]
        PROVE  \E row \in Synced' \ Synced : ChangesContent(k, row.event)
    <2> DEFINE new == [event |-> e, device |-> d, apply_status |-> "synced",
                       conflict_of |-> NoRow]
    <2>1. new \in Synced' /\ new.event = e /\ new.event.entity_id = e.entity_id
      BY DEF Accept, InsertRevision, Synced
    <2>2. \A row \in revisions : row.event.entity_id = e.entity_id =>
            row.event.data_version < e.data_version
      BY AcceptedIsNewer DEF Accept
    <2>3. new \notin Synced
      <3> SUFFICES ASSUME new \in revisions PROVE FALSE
        BY DEF Synced
      <3>1. e.data_version < e.data_version
        BY <2>1, <2>2
      <3> QED BY <1>1, <3>1
    <2>4. /\ IsContent(e) /\ ContentKey(e) = k
          /\ contents'[k] = UpsertContent(contents[k], e)
      BY <1>7 DEF Accept, UpsertIndexes, StoreTypeOK
    <2>5. ChangesContent(k, e)
      BY <2>4 DEF ChangesContent, UpsertContent, NewContent
    <2> HIDE DEF new
    <2> QED BY <2>1, <2>3, <2>5
  <1>6. ASSUME NEW k \in ArchiveId, archives[k] # NoRow
        PROVE  /\ archives[k].remote_verified => archives'[k].remote_verified
               /\ archives'[k].archive_size >= archives[k].archive_size
    <2>1. archives[k] \in Archive
      BY <1>6 DEF StoreTypeOK
    <2>2. CASE IsArchive(e) /\ ArchiveKey(e) = k
      <3>1. archives'[k] = UpsertArchive(archives[k], e) /\ NewArchive(e) \in Archive
        BY <1>1, <2>1, <2>2, ArchiveRowType DEF Accept, UpsertIndexes, StoreTypeOK
      <3> QED BY <1>6, <2>1, <3>1 DEF UpsertArchive, Archive, Greatest
    <2>3. CASE ~ (IsArchive(e) /\ ArchiveKey(e) = k)
      <3>1. archives'[k] = archives[k]
        BY <2>3 DEF Accept, UpsertIndexes, StoreTypeOK
      <3> QED BY <2>1, <3>1 DEF Archive
    <2> QED BY <2>2, <2>3
  <1> QED BY <1>3, <1>4, <1>5, <1>6, <1>7 DEF KeepsWhatIsStored

LEMMA LoserKeepsWhatIsStored ==
  ASSUME StoreTypeOK, NEW d \in Device, NEW e \in Events,
         NEW verdict \in {"conflict", "duplicate"}, RecordLoser(d, e, verdict)
  PROVE  KeepsWhatIsStored
  <1>1. \A k \in ArchiveId : archives[k] # NoRow => archives[k].archive_size \in Int
    BY DEF StoreTypeOK, Archive
  <1> QED BY <1>1 DEF RecordLoser, InsertRevision, KeepsWhatIsStored

\* No step of the store undoes what an earlier one stored.
THEOREM NothingIsUndoneCorrect == StoreSpec => NothingIsUndone
  <1>1. StoreInv /\ [StoreNext]_storeVars => [KeepsWhatIsStored]_storeVars
    BY AcceptKeepsWhatIsStored, LoserKeepsWhatIsStored DEF StoreNext, StoreInv
  <1> QED BY <1>1, StoreInvariant, PTL DEF StoreSpec, NothingIsUndone
=============================================================================
