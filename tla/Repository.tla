----------------------------- MODULE Repository -----------------------------
(***************************************************************************)
(* The SQLite store of seed-hunter (internal/storage): the sessions and    *)
(* attempts tables and the operations the pipeline performs on them.  Each *)
(* operation is an action on the three variables below, to be conjoined    *)
(* with the control of its caller; one operation is one SQL statement or   *)
(* one transaction, serialised by the repository's mutex.                  *)
(*                                                                         *)
(* Left out: ended_at_unix, duration_ms, checked_at_unix and               *)
(* addresses_json, which no code path reads back.                          *)
(***************************************************************************)
EXTENDS Integers, Sequences, FiniteSets

CONSTANTS
    Signatures, \* session signatures (template hash, position, api, type, n)
    Metas,      \* refreshable metadata (template, rate, wordlist, workers, positions)
    Cursors     \* values of the cursor column, NoCursor included

VARIABLES
    sessions,   \* session id -> row of the sessions table
    attempts,   \* rows of the attempts table, in insertion order
    lastId      \* highest session id handed out so far (AUTOINCREMENT)

storage == <<sessions, attempts, lastId>>

(* The cursor column, as the list of its comma-separated fields: the walk's *)
(* odometer, or the empty string of a sweep.                               *)
NoCursor == <<>>

Statuses == {"running", "paused", "completed"}
Modes == {"sweep", "walk"}

(* What a lookup left in an attempts row: no lookup because the checksum   *)
(* is bad, an answered lookup without or with a balance, a failed lookup.  *)
Results == {"skipped", "empty", "funded", "error"}

Row == [sig: Signatures, meta: Metas, mode: Modes, cursor: Cursors,
        last: Int, status: Statuses, startedAt: Nat]

(* A row of the attempts table.  candidate stands for what identifies the  *)
(* mnemonic that was tried: the word index of a sweep, the cursor of a     *)
(* walk.                                                                   *)
Attempt(Candidates) == [session: Nat, candidate: Candidates, res: Results]

StorageInit ==
    /\ sessions = [id \in {} |-> {}]
    /\ attempts = <<>>
    /\ lastId = 0

-----------------------------------------------------------------------------
(* Queries.                                                                *)

AnyStatus(id) == TRUE \* mutant of Resumable
Resumable(id) == sessions[id].status \in {"running", "paused"}

ResumableIds(sig) ==
    {id \in DOMAIN sessions : sessions[id].sig = sig /\ Resumable(id)}

LatestId(ids) == CHOOSE id \in ids : \A other \in ids : other <= id

(* The last word index of the latest resumable session of sig, -1 if none. *)
Resume(sig) ==
    IF ResumableIds(sig) = {} THEN -1
    ELSE sessions[LatestId(ResumableIds(sig))].last

(* The row LatestResumable returns: the youngest resumable session by the  *)
(* clock, whatever its signature and mode.                                 *)
SomeResumable == \E id \in DOMAIN sessions : Resumable(id)
LatestResumable ==
    CHOOSE id \in DOMAIN sessions :
        /\ Resumable(id)
        /\ \A other \in DOMAIN sessions :
             Resumable(other) =>
               \/ sessions[other].startedAt < sessions[id].startedAt
               \/ sessions[other].startedAt = sessions[id].startedAt /\ other <= id

(* The id BeginSession returns.                                            *)
BeginSessionId(sig) ==
    IF ResumableIds(sig) = {} THEN lastId + 1 ELSE LatestId(ResumableIds(sig))

(* The counts of these rows of attempts, as Stats and AggregateStats sum   *)
(* them up.                                                                *)
StatsOf(rows) ==
    LET those(results) == Cardinality({k \in rows : attempts[k].res \in results})
    IN  [processed |-> those(Results),
         valid |-> those(Results \ {"skipped"}),
         hits |-> those({"funded"}),
         errors |-> those({"error"})]

AggregateStats == StatsOf(DOMAIN attempts)

-----------------------------------------------------------------------------
(* Statements.                                                             *)

NewRow(init, now) ==
    [sig |-> init.sig, meta |-> init.meta, mode |-> init.mode,
     cursor |-> init.cursor, last |-> -1, status |-> "running", startedAt |-> now]

HandOutAgain(init, now) == \* mutant of InsertSession
    /\ lastId' = Cardinality(DOMAIN sessions) + 1
    /\ sessions' = [id \in 1 .. lastId' |->
                      IF id \in DOMAIN sessions THEN sessions[id] ELSE NewRow(init, now)]
    /\ UNCHANGED attempts
InsertSession(init, now) ==
    /\ lastId' = lastId + 1
    /\ sessions' = [id \in DOMAIN sessions \cup {lastId + 1} |->
                      IF id \in DOMAIN sessions THEN sessions[id] ELSE NewRow(init, now)]
    /\ UNCHANGED attempts

ReuseSession(reused, init) ==
    /\ sessions' = [sessions EXCEPT ![reused].status = "running",
                                    ![reused].meta = init.meta,
                                    ![reused].mode = init.mode,
                                    ![reused].cursor = init.cursor]
    /\ UNCHANGED <<attempts, lastId>>

AlwaysInsert(init, now) == InsertSession(init, now) \* mutant of BeginSession
BeginSession(init, now) ==
    IF ResumableIds(init.sig) = {}
    THEN InsertSession(init, now)
    ELSE ReuseSession(BeginSessionId(init.sig), init)

MarkPausedAsCompleted(sig) ==
    /\ sessions' = [id \in DOMAIN sessions |->
                      IF id \in ResumableIds(sig)
                      THEN [sessions[id] EXCEPT !.status = "completed"]
                      ELSE sessions[id]]
    /\ UNCHANGED <<attempts, lastId>>

AnyCheckpoint(id, wordIndex) == \* mutant of Checkpoint
    sessions' = [sessions EXCEPT ![id].last = wordIndex] /\ UNCHANGED <<attempts, lastId>>
Checkpoint(id, wordIndex) ==
    /\ sessions' = [sessions EXCEPT ![id].last =
                      IF @ < wordIndex THEN wordIndex ELSE @]
    /\ UNCHANGED <<attempts, lastId>>

CheckpointCursor(id, cursor) ==
    /\ sessions' = [sessions EXCEPT ![id].cursor = cursor]
    /\ UNCHANGED <<attempts, lastId>>

EndSession(id, status) ==
    /\ sessions' = [sessions EXCEPT ![id].status = status]
    /\ UNCHANGED <<attempts, lastId>>

InsertAttempts(rows) ==
    /\ attempts' = attempts \o rows
    /\ UNCHANGED <<sessions, lastId>>

(* attempts.session_id REFERENCES sessions(id): the insert fails without.  *)
Exists(id) == id \in DOMAIN sessions

(* The two statements of Reset.  The second takes the attempts of the      *)
(* sessions it deletes along (ON DELETE CASCADE); ids are not handed out   *)
(* again.                                                                  *)
DeleteAttempts == attempts' = <<>> /\ UNCHANGED <<sessions, lastId>>

NoCascade == \* mutant of DeleteSessions
    sessions' = [id \in {} |-> {}] /\ UNCHANGED <<attempts, lastId>>
DeleteSessions ==
    /\ sessions' = [id \in {} |-> {}]
    /\ attempts' = <<>>
    /\ UNCHANGED lastId

-----------------------------------------------------------------------------
(* Vocabulary of the properties of the store.                              *)

(* A row of session id for this candidate has been committed.              *)
Logged(id, candidate) ==
    \E k \in DOMAIN attempts :
        attempts[k].session = id /\ attempts[k].candidate = candidate

(* At most one session per signature is paused or running: otherwise a     *)
(* resume would pick one and leave the progress of the other behind.       *)
UniqueResumable ==
    \A a, b \in DOMAIN sessions :
        /\ Resumable(a) /\ Resumable(b)
        /\ sessions[a].sig = sessions[b].sig
        => a = b
=============================================================================
