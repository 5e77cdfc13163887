----------------------------- MODULE MCCloudSync -----------------------------
(* CloudSync with the history of one entity that grows beyond the limit of a  *)
(* summary: versions that rise, tie and fall, and a report about its archive  *)
(* from another entity.  A reader asks while requests run.                    *)
EXTENDS CloudSync, TLC

MCEntityId == {"x", "y"}
MCSha256 == {"h1", "h2"}
MCText == {Blank, Oversized, Nul, "c", "s", "t", "p", "e1", "e2", "e3", "e4", "r1", "r2", "r3"}

NoFields == [f \in {"content_id", "file_sha256", "archive_sha256", "remote_path",
                    "size_bytes", "size", "archive_size", "remote_verified"} |-> Absent]

Event(id, type, x, rev, version, hash, payload) ==
  [event_id |-> id, entity_type |-> type, entity_id |-> x, revision_id |-> rev,
   schema_version |-> 1, data_version |-> version, operation |-> "upsert",
   hash |-> hash, deleted_at |-> FALSE, payload |-> payload]

ArchiveOf(size, verified) ==
  [NoFields EXCEPT !.archive_sha256 = "s", !.remote_path = "p",
                   !.archive_size = size, !.remote_verified = verified]
ContentOf(size) == [NoFields EXCEPT !.content_id = "c", !.file_sha256 = "t", !.size = size]

X1 == Event("e1", "archives", "x", "r1", 1, "h1", ArchiveOf(4, TRUE))
X2 == Event("e2", "content_objects", "x", "r2", 2, "h1", ContentOf(5))
X2b == Event("e3", "tasks", "x", "r3", 2, "h2", NoFields)
Y4 == Event("e4", "archives", "y", "r1", 4, "h2", ArchiveOf(3, FALSE))

MCEvents == {X1, X2, X2b, Y4}
MCBatches == {<<X1, X2b>>, <<X2>>, <<Y4>>}

TwoKeys == [x \in MCEntityId |-> x]
MCLockKey == MCEntityId

Symmetry == Permutations(Req)
=============================================================================
