------------------------------- MODULE CloudSync -------------------------------
(***************************************************************************)
(* Both sides of cloud sync on one database: the requests that bring events *)
(* (RevisionIngest) and the questions of readers (CloudQueries).  A reader  *)
(* takes no lock, and at READ COMMITTED a statement of it sees what was     *)
(* committed before it: any step of a transaction may come between the two  *)
(* statements of a summary, and what the transaction has written is not     *)
(* seen before its commit.                                                  *)
(***************************************************************************)
EXTENDS RevisionIngest, CloudQueries

readerVars == <<asking, answers>>
syncVars == <<vars, readerVars>>

SyncInit == IngestInit /\ QueriesInit

SyncNext ==
  \/ IngestNext /\ UNCHANGED readerVars
  \/ ReaderNext /\ UNCHANGED ingestVars

SyncSpec == SyncInit /\ [][SyncNext]_syncVars
-----------------------------------------------------------------------------
\* For the readers the transactions are the single steps of CloudQueries.
ImplementsQueries == QueriesSpec

\* The accepted revisions that a 200 reply has told the client of r: those answered
\* synced, and the cloud revisions that the others were compared with.
Told(r) ==
  IF reply[r] # "ok" THEN {}
  ELSE ({job[r].events[i] : i \in {j \in DOMAIN results[r] : results[r][j].status = "synced"}}
          \cup {results[r][i].cloud : i \in DOMAIN results[r]}) \ {NoRow}

\* A question that is asked after a reply finds at least what the reply told: the
\* revision or a newer one, its content, and its archive with no smaller size and
\* verified if the revision says so, whatever other requests commit in between.
RepliesShow ==
  \A r \in Req : \A e \in Told(r) :
    /\ entities[e.entity_id] # NoRow
    /\ entities[e.entity_id].event.data_version >= e.data_version
    /\ IsContent(e) => contents[ContentKey(e)] # NoRow
    /\ IsArchive(e) =>
         LET row == archives[ArchiveKey(e)]
         IN /\ row # NoRow
            /\ row.archive_size >= NewArchive(e).archive_size
            /\ NewArchive(e).remote_verified => row.remote_verified
=============================================================================
