--------------------------- MODULE MCRevisionIngest ---------------------------
(* RevisionIngest with requests that race for the same entity, for the same  *)
(* content row, for the same archive row and for the same event id on two    *)
(* entities, and batches that clients repeat in part or as a whole.          *)
EXTENDS RevisionIngest, TLC

MCEntityId == {"x", "y", Nul}
MCSha256 == {"h1", "h2"}
MCText == {Blank, Oversized, Nul, "c", "s", "t", "p"}
            \cup {"e1", "e2", "e3", "e4", "e5", "r1", "r2", "r3"}

NoFields == [f \in {"content_id", "file_sha256", "archive_sha256", "remote_path",
                    "size_bytes", "size", "archive_size", "remote_verified"} |-> Absent]

Event(id, type, x, rev, version, hash, payload) ==
  [event_id |-> id, entity_type |-> type, entity_id |-> x, revision_id |-> rev,
   schema_version |-> 1, data_version |-> version, operation |-> "upsert",
   hash |-> hash, deleted_at |-> FALSE, payload |-> payload]

ContentOf(sha, size) == [NoFields EXCEPT !.content_id = "c", !.file_sha256 = sha, !.size = size]
ArchiveOf(path, size, verified) ==
  [NoFields EXCEPT !.archive_sha256 = "s", !.remote_path = path,
                   !.archive_size = size, !.remote_verified = verified]

X1 == Event("e1", "archives", "x", "r1", 1, "h1", ArchiveOf("p", 3, FALSE))
X1b == Event("e2", "content_objects", "x", "r2", 1, "h2", ContentOf("s", 5))
X2 == Event("e3", "content_objects", "x", "r3", 2, "h2", ContentOf("s", 5))
Y1 == Event("e4", "archives", "y", "r1", 1, "h1", ArchiveOf(Null, 9, TRUE))
Y1c == Event("e1", "tasks", "y", "r2", 1, "h1", NoFields)      \* the event id of X1
Bad == Event("e5", "archives", "y", "r3", 2, "h1", NoFields)   \* no archive_sha256
Wide == Event("e5", "content_objects", "y", "r3", 2, "h1", ContentOf(Oversized, 5))
Void == [Event("e5", "tasks", "y", "r3", 2, "h1", NoFields) EXCEPT !.schema_version = 0]
NulEntity == Event("e5", "tasks", Nul, "r3", 2, "h1", NoFields)
NulRevision == Event("e5", "tasks", "y", Nul, 2, "h1", NoFields)

MCEvents == {X1, X1b, X2, Y1, Y1c, Bad, Wide, Void, NulEntity, NulRevision}
MCBatches == {<<X1, Y1>>, <<X1b, X1>>, <<Void, X2>>, <<Bad, Void>>, <<Y1c, Wide>>,
              <<NulEntity>>, <<NulRevision>>, <<>>, <<X1, X1b, X2>>}

\* Few events that wait for each other at the lock, at the unique event id and
\* at the archive row, and one whose entity id PostgreSQL refuses.
SmallBatches == {<<X1>>, <<Y1, Y1c>>, <<NulEntity>>}

\* The current record of an entity, and an event that loses against it and is sent
\* again and again.
ResendBatches == {<<X2>>, <<X1b>>}

\* Two entities with lock keys of their own.
TwoKeys == [x \in MCEntityId |-> x]
MCLockKey == MCEntityId

Symmetry == Permutations(Req) \cup Permutations(Device)
=============================================================================
