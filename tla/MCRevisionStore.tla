--------------------------- MODULE MCRevisionStore ---------------------------
(* RevisionStore with the events of a small history: two entities that hold *)
(* the same content, two that hold the same archive, versions that rise, tie *)
(* with the same and with another record, and fall, a delete, repeated event *)
(* and revision ids, payloads with aliases, nulls and wrong types.           *)
EXTENDS RevisionStore, TLC

MCEntityId == {"x", "y"}
MCSha256 == {"h1", "h2", "h3"}
MCText == {Blank, Oversized, Nul, "c", "s", "t", "p", "q"}
            \cup {"e1", "e2", "e3", "e4", "e5", "e6", "e7", "e8", "e9", "e10", "e11", "e12"}
            \cup {"r1", "r2", "r3", "r4"}

NoFields == [f \in {"content_id", "file_sha256", "archive_sha256", "remote_path",
                    "size_bytes", "size", "archive_size", "remote_verified"} |-> Absent]

Event(id, type, x, rev, version, hash, payload) ==
  [event_id |-> id, entity_type |-> type, entity_id |-> x, revision_id |-> rev,
   schema_version |-> 1, data_version |-> version, operation |-> "upsert",
   hash |-> hash, deleted_at |-> FALSE, payload |-> payload]

ContentOf(sha, size) == [NoFields EXCEPT !.content_id = "c", !.file_sha256 = sha, !.size = size]
ArchiveOf(path, size, verified) ==
  [NoFields EXCEPT !.archive_sha256 = "s", !.remote_path = path,
                   !.archive_size = size, !.remote_verified = verified]

MCEvents ==
  { Event("e1", "content_objects", "x", "r1", 1, "h1", ContentOf("s", 5)),
    Event("e2", "content_objects", "y", "r1", 1, "h1", ContentOf("t", Null)),
    Event("e3", "archives", "x", "r2", 2, "h1", ArchiveOf("p", 3, FALSE)),
    Event("e4", "archive_objects", "x", "r3", 2, "h2", ArchiveOf("q", 9, TRUE)),
    Event("e5", "archives", "y", "r2", 2, "h2", ArchiveOf(Mistyped, Null, TRUE)),
    [Event("e6", "tasks", "x", "r4", 3, "h3", NotObject) EXCEPT !.operation = "delete"],
    Event("e7", "archives", "y", "r3", 2, "h2", ArchiveOf("q", 4, Null)),
    Event("e1", "archives", "y", "r4", 3, "h3", ArchiveOf("p", 7, FALSE)),
    Event("e8", "tasks", "y", "r1", 3, "h2", NoFields),
    Event("e9", "archives", "x", "r2", 3, "h1", ArchiveOf("p", Mistyped, TRUE)),
    [Event("e10", "tasks", "y", "r4", 4, "h1", NoFields) EXCEPT !.schema_version = MaxSchemaVersion + 1],
    Event("e11", "content_objects", "y", "r4", 5, "h1", ContentOf(Oversized, 1)),
    Event("e12", "archives", "y", "r4", 5, "h1", ArchiveOf(Nul, 1, FALSE)) }

DeviceSymmetry == Permutations(Device)
=============================================================================
