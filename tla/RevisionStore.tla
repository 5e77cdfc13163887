---------------------------- MODULE RevisionStore ----------------------------
(***************************************************************************)
(* What the cloud store promises: the four tables of cloud sync, changed by *)
(* one revision event at a time, atomically and in some serial order.  The  *)
(* detailed transactions of RevisionIngest implement this specification.    *)
(*                                                                          *)
(* A row of entity_revisions and of cloud_entities copies the columns of    *)
(* its event, so the model keeps the event itself in the row.               *)
(***************************************************************************)
EXTENDS RevisionRules

CONSTANT Device     \* the registered devices

VARIABLES
  revisions,        \* the rows of entity_revisions
  entities,         \* cloud_entities: entity id -> row
  contents,         \* content_objects: content id -> row
  archives          \* archive_objects: archive digest -> row

storeVars == <<revisions, entities, contents, archives>>

Status == {"synced", "duplicate", "conflict"}

\* The keys of the index rows that events may ask for.
ContentId == {ContentKey(e) : e \in {f \in Events : Admissible(f) /\ IsContent(f)}}
ArchiveId == {ArchiveKey(e) : e \in {f \in Events : Admissible(f) /\ IsArchive(f)}}

Revision == [event: Events, device: Device, apply_status: Status,
             conflict_of: Text \cup {NoRow}]
Entity   == [event: Events, device: Device, deleted: BOOLEAN]
Content  == [file_sha256: Text, size_bytes: Int, latest: EntityId]
Archive  == [archive_size: Int, remote_path: Text, remote_verified: BOOLEAN,
             latest: EntityId]

ASSUME NoRowAssumption == NoRow \notin Entity \cup Content \cup Archive \cup Text

StoreTypeOK ==
  /\ revisions \subseteq Revision
  /\ entities \in [EntityId -> Entity \cup {NoRow}]
  /\ contents \in [ContentId -> Content \cup {NoRow}]
  /\ archives \in [ArchiveId -> Archive \cup {NoRow}]

StoreInit ==
  /\ revisions = {}
  /\ entities = [x \in EntityId |-> NoRow]
  /\ contents = [k \in ContentId |-> NoRow]
  /\ archives = [k \in ArchiveId |-> NoRow]
-----------------------------------------------------------------------------
\* revisionExistsByEventID and revisionExistsByEntityRevision: the two unique
\* keys of entity_revisions.
SameEvent(row, e) == row.event.event_id = e.event_id
SameRevision(row, e) == /\ row.event.entity_id = e.entity_id
                        /\ row.event.revision_id = e.revision_id

Unseen(e) == \A row \in revisions : ~ SameEvent(row, e) /\ ~ SameRevision(row, e)

\* insertEntityRevision
InsertRevision(d, e, status, conflictOf) ==
  revisions' = revisions \cup {[event |-> e, device |-> d,
                                apply_status |-> status, conflict_of |-> conflictOf]}

\* upsertCloudEntity: a delete leaves a tombstone, never removes the row.
UpsertEntity(d, e) ==
  entities' = [entities EXCEPT ![e.entity_id] =
                 [event |-> e, device |-> d, deleted |-> Deleted(e)]]

UpsertIndexes(e) ==
  /\ contents' = IF IsContent(e)
                 THEN [contents EXCEPT ![ContentKey(e)] = UpsertContent(@, e)]
                 ELSE contents
  /\ archives' = IF IsArchive(e)
                 THEN [archives EXCEPT ![ArchiveKey(e)] = UpsertArchive(@, e)]
                 ELSE archives

Recordable(e, verdict) ==
  /\ Admissible(e) /\ RevisionStorable(e)
  /\ Unseen(e)
  /\ Verdict(entities[e.entity_id], e) = verdict

\* The event becomes the current version of its entity.
Accept(d, e) ==
  /\ Recordable(e, "synced") /\ IndexStorable(e)
  /\ InsertRevision(d, e, "synced", NoRow)
  /\ UpsertEntity(d, e)
  /\ UpsertIndexes(e)

\* Variant: the row of a loser names its own revision.
RecordLoserItself(d, e, verdict) ==
  /\ Recordable(e, verdict)
  /\ InsertRevision(d, e, verdict, e.revision_id)
  /\ UNCHANGED <<entities, contents, archives>>

\* The event loses against the current version, which its row names.
RecordLoser(d, e, verdict) ==
  /\ Recordable(e, verdict)
  /\ InsertRevision(d, e, verdict, entities[e.entity_id].event.revision_id)
  /\ UNCHANGED <<entities, contents, archives>>

StoreNext ==
  \E d \in Device, e \in Events :
    \/ Accept(d, e)
    \/ RecordLoser(d, e, "conflict")
    \/ RecordLoser(d, e, "duplicate")

StoreSpec == StoreInit /\ [][StoreNext]_storeVars
-----------------------------------------------------------------------------
(* Properties *)

Rows(x) == {row \in revisions : row.event.entity_id = x}
Synced == {row \in revisions : row.apply_status = "synced"}

\* The unique keys hold, and one version of an entity has one accepted
\* revision: two devices that wrote the same version cannot both have won.
OneWinnerPerVersion ==
  \A r, s \in revisions :
    \/ r = s
    \/ /\ ~ SameEvent(r, s.event) /\ ~ SameRevision(r, s.event)
       /\ \/ r.event.entity_id # s.event.entity_id
          \/ r.event.data_version # s.event.data_version
          \/ {r.apply_status, s.apply_status} # {"synced"}

\* cloud_entities is the projection of the history: an entity's row is its
\* accepted revision of the highest version, and no stored revision, not even
\* one that lost, has a higher version than the current one.
ProjectionIsNewest ==
  \A x \in EntityId :
    IF entities[x] = NoRow THEN Rows(x) = {}
    ELSE /\ [event |-> entities[x].event, device |-> entities[x].device,
             apply_status |-> "synced", conflict_of |-> NoRow] \in Rows(x)
         /\ entities[x].deleted = Deleted(entities[x].event)
         /\ \A row \in Rows(x) :
              row.event.data_version <= entities[x].event.data_version

\* Every revision that lost names an accepted revision of its entity that
\* explains the loss: a newer version or a different record of the same version
\* for a conflict, the very same record for a duplicate.
LosersNameTheirWinner ==
  \A row \in revisions \ Synced :
    \E w \in Synced :
      /\ w.event.entity_id = row.event.entity_id
      /\ w.event.revision_id = row.conflict_of
      /\ IF row.apply_status = "conflict"
         THEN IsConflict(w.event, row.event)
         ELSE SameRecord(w.event, row.event)

ContentSaid(k) == {NewContent(row.event) :
                     row \in {r \in Synced : IsContent(r.event) /\ ContentKey(r.event) = k}}
ArchiveSaid(k) == {NewArchive(row.event) :
                     row \in {r \in Synced : IsArchive(r.event) /\ ArchiveKey(r.event) = k}}

\* content_objects has a row exactly for the contents that accepted events name.
\* Its digest and size are those that one such event gave together; the entity
\* it names gave the content too, in that event or in another.
ContentIndexSound ==
  \A k \in ContentId :
    IF ContentSaid(k) = {} THEN contents[k] = NoRow
    ELSE /\ contents[k] # NoRow
         /\ \E c \in ContentSaid(k) :
              /\ c.file_sha256 = contents[k].file_sha256
              /\ c.size_bytes = contents[k].size_bytes
         /\ \E c \in ContentSaid(k) : c.latest = contents[k].latest

\* archive_objects aggregates the accepted events of an archive: verified if
\* any event said so, the greatest size, a path that an event gave unless none
\* did.  No interleaving of devices loses a contribution.
ArchiveIndexAggregates ==
  \A k \in ArchiveId :
    IF ArchiveSaid(k) = {} THEN archives[k] = NoRow
    ELSE /\ archives[k] # NoRow
         /\ archives[k].remote_verified = \E a \in ArchiveSaid(k) : a.remote_verified
         /\ \A a \in ArchiveSaid(k) : a.archive_size <= archives[k].archive_size
         /\ \E a \in ArchiveSaid(k) : a.archive_size = archives[k].archive_size
         /\ \E a \in ArchiveSaid(k) : a.remote_path = archives[k].remote_path
         /\ archives[k].remote_path = Blank => \A a \in ArchiveSaid(k) : a.remote_path = Blank
         /\ \E a \in ArchiveSaid(k) : a.latest = archives[k].latest

\* No step rewrites history, takes an entity back to an older or an equal
\* version, removes an entity (a delete is a tombstone), forgets that an archive
\* was verified, shrinks it, or changes the digest or the size of a content.  A
\* content's row changes only with the acceptance of an event of that content,
\* whose entity it then names and whose digest and size it takes if it is new.
ChangesContent(k, e) ==
  /\ IsContent(e) /\ ContentKey(e) = k
  /\ contents'[k].latest = e.entity_id
  /\ contents[k] = NoRow => contents'[k] = NewContent(e)

KeepsWhatIsStored ==
  /\ revisions \subseteq revisions'
  /\ \A x \in EntityId : entities[x] # NoRow =>
       /\ entities'[x] # NoRow
       /\ \/ entities'[x] = entities[x]
          \/ entities'[x].event.data_version > entities[x].event.data_version
  /\ \A k \in ContentId : contents[k] # NoRow =>
       /\ contents'[k].file_sha256 = contents[k].file_sha256
       /\ contents'[k].size_bytes = contents[k].size_bytes
  /\ \A k \in ContentId : contents'[k] # contents[k] =>
       \E row \in Synced' \ Synced : ChangesContent(k, row.event)
  /\ \A k \in ArchiveId : archives[k] # NoRow =>
       /\ archives[k].remote_verified => archives'[k].remote_verified
       /\ archives'[k].archive_size >= archives[k].archive_size

NothingIsUndone == [][KeepsWhatIsStored]_storeVars
=============================================================================
