---------------------------- MODULE RevisionRules ----------------------------
(***************************************************************************)
(* The decisions of the cloud API about one revision event, as operators:  *)
(* which events the handler refuses (validateRevisionEvent), what a payload *)
(* puts into the content and archive indexes (index_payload.go), and what   *)
(* an event means for the current version of its entity (isConflict and the *)
(* branches of applyRevision).                                              *)
(*                                                                          *)
(* Texts are opaque values.  A text that strings.TrimSpace empties is Blank;*)
(* Oversized is a text that a CHAR(64) column refuses; Nul is one with the  *)
(* character U+0000, which JSON and Go accept and which PostgreSQL refuses  *)
(* in a parameter and, written as an escape, in jsonb.  A JSON field holds  *)
(* a value of the type its reader wants, or Null, or is Absent, or is       *)
(* Mistyped (any other JSON value, an integer beyond int64 included).       *)
(***************************************************************************)
EXTENDS Integers

CONSTANTS
  Events,           \* the revision events that clients may submit
  EntityId,         \* the entity ids they name
  Text,             \* the values of the string fields
  Sha256,           \* well-formed digests: 64 lowercase hex characters
  Blank, Oversized, Nul,
  Null, Absent, Mistyped,
  NoPayload,        \* the payload is missing, or is not valid UTF-8 JSON
  NotObject,        \* the payload is JSON, but no object
  MaxSchemaVersion, \* what the INTEGER column schema_version can hold
  NoRow             \* the result of a SELECT that finds nothing

StringField == Text \cup {Null, Absent, Mistyped}
IntField    == Int \cup {Null, Absent, Mistyped}
BoolField   == BOOLEAN \cup {Null, Absent, Mistyped}

\* The fields of a JSON object that index_payload.go looks at.
Fields == [content_id: StringField, file_sha256: StringField,
           archive_sha256: StringField, remote_path: StringField,
           size_bytes: IntField, size: IntField, archive_size: IntField,
           remote_verified: BoolField]

\* types.go RevisionEvent: deleted_at tells whether the field is present.
EventTyped(e) ==
  /\ e.entity_id \in EntityId \cup {Blank}
  /\ e.event_id \in Text /\ e.revision_id \in Text
  /\ e.schema_version \in Int /\ e.data_version \in Int
  /\ e.deleted_at \in BOOLEAN
  /\ e.payload \in Fields \cup {NoPayload, NotObject}

ASSUME EventsAssumption == \A e \in Events : EventTyped(e)
ASSUME TextAssumption   == Blank \in Text /\ Blank \notin EntityId
ASSUME FieldAssumption  ==
  /\ {Null, Absent, Mistyped} \cap (Text \cup Int \cup BOOLEAN) = {}
  /\ Null # Absent /\ Null # Mistyped /\ Absent # Mistyped
  /\ {NoPayload, NotObject} \cap Fields = {}
-----------------------------------------------------------------------------
(* The checks before the database *)

\* server.go validateRevisionEvent.
ValidRevisionEvent(e) ==
  /\ Blank \notin {e.event_id, e.entity_type, e.entity_id, e.revision_id}
  /\ e.schema_version > 0
  /\ e.data_version > 0
  /\ e.operation \in {"upsert", "delete"}
  /\ e.hash \in Sha256
  /\ e.payload # NoPayload

IsContent(e) == e.entity_type = "content_objects"
IsArchive(e) == e.entity_type \in {"archives", "archive_objects"}

\* A field that is not a JSON string reads as the empty text, without an error.
StringOf(v) == IF v \in {Null, Absent, Mistyped} THEN Blank ELSE v

\* Go decodes null into a number or a boolean as no change of the zero value.
IntOf(v)  == IF v \in {Null, Absent, Mistyped} THEN 0 ELSE v
BoolOf(v) == IF v \in {Null, Absent, Mistyped} THEN FALSE ELSE v

\* The first alias that is present decides, even if it cannot be decoded.
FirstPresent(v, w) == IF v # Absent THEN v ELSE w

ContentSize(f) == FirstPresent(f.size_bytes, f.size)
ArchiveSize(f) == FirstPresent(f.archive_size, FirstPresent(f.size_bytes, f.size))

\* extractContentIndex and extractArchiveIndex without an error.
ContentIndexOK(e) ==
  /\ e.payload # NotObject
  /\ StringOf(e.payload.content_id) # Blank
  /\ StringOf(e.payload.file_sha256) # Blank
  /\ ContentSize(e.payload) \notin {Absent, Mistyped}

ArchiveIndexOK(e) ==
  /\ e.payload # NotObject
  /\ StringOf(e.payload.archive_sha256) # Blank
  /\ ArchiveSize(e.payload) # Mistyped
  /\ e.payload.remote_verified # Mistyped

IndexOK(e) ==
  /\ IsContent(e) => ContentIndexOK(e)
  /\ IsArchive(e) => ArchiveIndexOK(e)

\* The events that reach a transaction; the others are answered "rejected".
Admissible(e) == ValidRevisionEvent(e) /\ IndexOK(e)
-----------------------------------------------------------------------------
(* The index rows *)

ContentKey(e) == StringOf(e.payload.content_id)
ArchiveKey(e) == StringOf(e.payload.archive_sha256)

NewContent(e) ==
  [file_sha256 |-> StringOf(e.payload.file_sha256),
   size_bytes  |-> IntOf(ContentSize(e.payload)),
   latest      |-> e.entity_id]

\* Variant: the upsert takes over the digest and forgets the size.
UpsertContentDigest(row, e) ==
  IF row = NoRow THEN NewContent(e)
  ELSE [NewContent(e) EXCEPT !.size_bytes = row.size_bytes]

\* upsertContentObject: the digest and the size stay those of the first event.
UpsertContent(row, e) ==
  IF row = NoRow THEN NewContent(e)
  ELSE [file_sha256 |-> row.file_sha256,
        size_bytes  |-> row.size_bytes,
        latest      |-> e.entity_id]

NewArchive(e) ==
  [archive_size    |-> IntOf(ArchiveSize(e.payload)),
   remote_path     |-> StringOf(e.payload.remote_path),
   remote_verified |-> BoolOf(e.payload.remote_verified),
   latest          |-> e.entity_id]

Greatest(m, n) == IF m > n THEN m ELSE n

\* Variants: the upsert overwrites the flag, or the size.
UpsertArchiveUnverify(row, e) ==
  IF row = NoRow THEN NewArchive(e)
  ELSE [NewArchive(e) EXCEPT !.archive_size = Greatest(row.archive_size, @)]
UpsertArchiveShrink(row, e) ==
  IF row = NoRow THEN NewArchive(e)
  ELSE [NewArchive(e) EXCEPT !.remote_verified = @ \/ row.remote_verified]

\* upsertArchiveObject: the row accumulates what its events say.
UpsertArchive(row, e) ==
  LET new == NewArchive(e)
  IN IF row = NoRow THEN new
     ELSE [archive_size    |-> Greatest(row.archive_size, new.archive_size),
           remote_path     |-> IF new.remote_path # Blank
                               THEN new.remote_path ELSE row.remote_path,
           remote_verified |-> row.remote_verified \/ new.remote_verified,
           latest          |-> e.entity_id]

\* The columns of entity_revisions and of the indexes hold the event's values.
PayloadTexts(f) ==
  IF f \in {NoPayload, NotObject} THEN {}
  ELSE {f.content_id, f.file_sha256, f.archive_sha256, f.remote_path}

RevisionStorable(e) ==
  /\ e.schema_version <= MaxSchemaVersion
  /\ Nul \notin {e.event_id, e.entity_type, e.entity_id, e.revision_id}
  /\ Nul \notin PayloadTexts(e.payload)
IndexStorable(e) ==
  /\ IsContent(e) => StringOf(e.payload.file_sha256) # Oversized
  /\ IsArchive(e) => ArchiveKey(e) # Oversized
-----------------------------------------------------------------------------
(* The event against the current version of its entity *)

\* upsertCloudEntity sets deleted_at, for a delete without a date too.
Deleted(e) == e.deleted_at \/ e.operation = "delete"

\* Variant: only a newer current version conflicts.
IsConflictNewer(cur, e) == cur.data_version > e.data_version

\* isConflict, where cur is the event whose revision is current.
IsConflict(cur, e) ==
  \/ cur.data_version > e.data_version
  \/ /\ cur.data_version = e.data_version
     /\ cur.revision_id # e.revision_id
     /\ cur.hash # e.hash

SameRecord(cur, e) ==
  /\ cur.data_version = e.data_version
  /\ cur.hash = e.hash

\* Variant: a tombstone is no current version.
VerdictOverTombstone(row, e) ==
  IF row = NoRow \/ Deleted(row.event) THEN "synced"
  ELSE IF IsConflict(row.event, e) THEN "conflict"
  ELSE IF SameRecord(row.event, e) THEN "duplicate"
  ELSE "synced"

\* The branches of applyRevision for an event that no stored row repeats;
\* row is what getCloudEntityForUpdate returns.
Verdict(row, e) ==
  IF row = NoRow THEN "synced"
  ELSE IF IsConflict(row.event, e) THEN "conflict"
  ELSE IF SameRecord(row.event, e) THEN "duplicate"
  ELSE "synced"

=============================================================================
