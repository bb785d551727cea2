-------------------------- MODULE SharedProperties --------------------------
(***************************************************************************)
(* What is left of the store's promises when several processes work on one *)
(* database (see SharedStore).  UniqueResumable, NeverRedo and             *)
(* CompletedIsFinal, which hold for one process at a time, do not.         *)
(***************************************************************************)
EXTENDS SharedStore

(* The variables have their types, and ids are never beyond the counter.   *)
TypeOK ==
    /\ lastId \in Nat /\ DOMAIN sessions \subseteq 1 .. lastId
    /\ \A id \in DOMAIN sessions : sessions[id] \in Row
    /\ attempts \in Seq(Attempt(Indices))
    /\ columns = NoTable \/ columns \subseteq AllColumns
    /\ proc \in [Processes -> Process]
    /\ \A p \in Processes : proc[p].sid <= lastId /\ proc[p].found <= lastId
    /\ runs \in 0 .. MaxRuns /\ torn \in BOOLEAN

-----------------------------------------------------------------------------
(* The migrations.                                                         *)

(* A process that has opened the database finds every column its           *)
(* statements name, whatever release made the file and whichever other     *)
(* process was migrating it, or died doing so.                             *)
SchemaReady ==
    \A p \in Processes :
        proc[p].pc \notin {"idle"} \cup Opening => columns = AllColumns

-----------------------------------------------------------------------------
(* The sessions.                                                           *)

LoggedFor(sig, i) ==
    \E k \in DOMAIN attempts :
        /\ attempts[k].candidate = i /\ attempts[k].session \in DOMAIN sessions
        /\ sessions[attempts[k].session].sig = sig

(* No word is passed over: every index up to the checkpoint of a session   *)
(* has a row for its signature, however many processes sweep it at once.   *)
(* (It may be in a session another process has closed meanwhile.)  Only a  *)
(* reset that has stopped half way, or that comes between a process's      *)
(* Resume and its BeginSession, breaks this.                               *)
NothingSkipped ==
    torn \/ \A id \in DOMAIN sessions :
                \A i \in 0 .. sessions[id].last : LoggedFor(sessions[id].sig, i)

(* A process never writes to a session of another signature, not even when *)
(* a reset has deleted the one it had.                                     *)
OwnSignature ==
    \A p \in Processes :
        \A id \in {proc[p].sid, proc[p].found} \cap DOMAIN sessions :
            sessions[id].sig = proc[p].sig

(* What stats prints for all sessions is the sum of what it prints for     *)
(* each: no row is left of a session that is gone.                         *)
NoOrphans ==
    AggregateStats = StatsOf({k \in DOMAIN attempts : Exists(attempts[k].session)})

(* The slower of two processes on one session does not take its checkpoint *)
(* back.                                                                   *)
CheckpointForward ==
    [][\A id \in DOMAIN sessions \cap DOMAIN sessions' :
         sessions[id].last <= sessions'[id].last]_vars

(* What is left of UniqueResumable: a signature has no more resumable      *)
(* sessions than there ever were processes at once.                        *)
OneResumableEach ==
    \A sig \in Signatures : Cardinality(ResumableIds(sig)) <= Cardinality(Processes)

-----------------------------------------------------------------------------
(* The invariant of the proofs.                                            *)

(* A process that migrates has got past the columns before its step.       *)
MigratedSoFar ==
    \A p \in Processes :
        proc[p].pc \notin {"idle", "schema"} =>
            /\ columns \in SUBSET AllColumns /\ proc[p].step >= 1
            /\ \A k \in DOMAIN Migrations :
                 k < proc[p].step => Migrations[k] \in columns

(* The foreign key, and the range of a checkpoint.                         *)
RowsHeld ==
    /\ \A k \in DOMAIN attempts : Exists(attempts[k].session)
    /\ \A id \in DOMAIN sessions : sessions[id].last \in -1 .. WordlistSize - 1
    /\ \A p \in Processes : At(p, "checkpoint") => proc[p].top \in Indices

(* A process relies on the words before its place being logged while it    *)
(* may still write a checkpoint, or begin a session, behind them.          *)
Relies(p) ==
    \/ proc[p].pc \in {"select", "insert"}
    \/ At(p, "reuse") /\ Exists(proc[p].found)
    \/ proc[p].pc \in {"scan", "checkpoint"} /\ Exists(proc[p].sid)
Place(p) == IF At(p, "checkpoint") THEN proc[p].top + 1 ELSE proc[p].next

PlacesLogged ==
    \A p \in Processes :
        Relies(p) => \A i \in 0 .. Place(p) - 1 : LoggedFor(proc[p].sig, i)

(* Types; the words a process has passed are logged for its signature, so  *)
(* that it may move the checkpoint of its session, if that is still there, *)
(* or begin one; and an id names one session for ever.                     *)
SharedInv ==
    /\ TypeOK /\ SchemaReady /\ MigratedSoFar
    /\ RowsHeld /\ OwnSignature
    /\ torn \/ PlacesLogged
    /\ NothingSkipped

(* A session is open while it can be resumed and while a process works in  *)
(* it: another may have completed it by then, and End may pause it again.  *)
Holds(p, id) ==
    \/ At(p, "reuse") /\ proc[p].found = id
    \/ proc[p].pc \in {"scan", "checkpoint", "end now"} /\ proc[p].sid = id
OpenIds(sig) ==
    {id \in DOMAIN sessions :
        /\ sessions[id].sig = sig
        /\ Resumable(id) \/ \E p \in Processes : Holds(p, id)}

(* The processes that have found nothing to resume, and will insert.       *)
Inserting(sig) == {p \in Processes : At(p, "insert") /\ proc[p].sig = sig}

(* There are never more sessions, open or about to be, than processes: a   *)
(* process that finds none to resume leaves only those open that others    *)
(* work in, and whoever works in one will not insert.                      *)
Room ==
    \A sig \in Signatures :
        Cardinality(OpenIds(sig)) + Cardinality(Inserting(sig)) <= Cardinality(Processes)

(* What every step keeps, by SharedProofs.                                 *)
IndInv == SharedInv /\ Room
=============================================================================
