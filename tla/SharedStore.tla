---------------------------- MODULE SharedStore -----------------------------
(***************************************************************************)
(* Several seed-hunter processes on one database file: sweeps started with *)
(* and without --reset, and the reset command.  The mutex of Repository is *)
(* within a process, so across processes only a single statement or        *)
(* transaction is atomic: BeginSession is two statements here, Reset is    *)
(* two, and a session may go away under the process that works on it.      *)
(*                                                                         *)
(* Run is abstracted as in ResumableScan, which SweepPipeline implements:  *)
(* it records some of the indices that come next, then moves the           *)
(* checkpoint over them.  A failed statement, a crash and an error return  *)
(* are one action, since each leaves the rows as they are.                 *)
(***************************************************************************)
EXTENDS Repository

CONSTANTS
    Processes,
    WordlistSize,
    BatchSize,
    Outcomes,   \* Outcomes[i]: the results a lookup of index i may have
    Migrations, \* the columns ensureSessionColumns adds, in its order
    NoTable,    \* the sessions table does not exist yet
    MaxRuns     \* bound: processes started

AllColumns == {Migrations[k] : k \in DOMAIN Migrations}

ASSUME SharedAssumption ==
    /\ IsFiniteSet(Processes) /\ Signatures # {} /\ Migrations \in Seq(AllColumns)
    /\ WordlistSize \in Nat \ {0} /\ BatchSize \in Nat \ {0} /\ MaxRuns \in Nat
    /\ Outcomes \in [0 .. WordlistSize - 1 -> SUBSET Results \ {{}}]
    /\ NoCursor \in Cursors

VARIABLES
    columns, \* the migrated columns the sessions table has, or NoTable
    proc,    \* what each process is doing: see Process
    runs,    \* processes started so far
    torn     \* history: a reset came between another process's two readings,
             \* or has not come to its end

vars == <<storage, columns, proc, runs, torn>>

Indices == 0 .. WordlistSize - 1

Jobs == {"sweep", "fresh", "reset"}
Opening == {"schema", "migrate"}
Startup == {"retire", "resume", "select", "insert", "reuse"}
Pcs == {"idle"} \cup Opening \cup Startup
           \cup {"scan", "checkpoint", "end now", "delete attempts", "delete sessions"}

(* next is the index to go on with, found the id that BeginSession's query *)
(* returned, sid the session being written, top the last index recorded.   *)
Process == [pc: Pcs, job: Jobs, sig: Signatures, step: 0 .. Len(Migrations) + 1,
            next: 0 .. WordlistSize, found: Nat, sid: Nat, top: -1 .. WordlistSize - 1]

AnySig == CHOOSE sig \in Signatures : TRUE
Idle == [pc |-> "idle", job |-> "sweep", sig |-> AnySig, step |-> 0,
         next |-> 0, found |-> 0, sid |-> 0, top |-> -1]

(* A new file, or one an earlier release made: it had none or the first of *)
(* the columns that are migrated now.                                      *)
Init ==
    /\ StorageInit
    /\ columns \in {NoTable} \cup {{Migrations[k] : k \in 1 .. n} : n \in 0 .. Len(Migrations)}
    /\ proc = [p \in Processes |-> Idle]
    /\ runs = 0 /\ torn = FALSE

At(p, pc) == proc[p].pc = pc
Goto(p, pc) == proc' = [proc EXCEPT ![p].pc = pc]
Return(p) == proc' = [proc EXCEPT ![p] = Idle]

Start(p, job, sig) ==
    /\ At(p, "idle") /\ runs < MaxRuns
    /\ proc' = [proc EXCEPT ![p] = [Idle EXCEPT !.pc = "schema", !.job = job, !.sig = sig]]
    /\ runs' = runs + 1
    /\ UNCHANGED <<storage, columns, torn>>

-----------------------------------------------------------------------------
(* Open.                                                                   *)

(* CREATE TABLE IF NOT EXISTS, with all the columns.  The statements of    *)
(* schema.sql are one step: each does nothing where its table or index is. *)
ApplySchema(p) ==
    /\ At(p, "schema")
    /\ columns' = IF columns = NoTable THEN AllColumns ELSE columns
    /\ proc' = [proc EXCEPT ![p].pc = "migrate", ![p].step = 1]
    /\ UNCHANGED <<storage, runs, torn>>

(* The next ALTER TABLE; a "duplicate column" error is passed over.        *)
StopAtDuplicate(p) == \* mutant of NextMigration
    IF Migrations[proc[p].step] \in columns THEN Len(Migrations) + 1
    ELSE proc[p].step + 1
NextMigration(p) == proc[p].step + 1

AddColumn(p) ==
    /\ At(p, "migrate") /\ proc[p].step <= Len(Migrations)
    /\ columns' = columns \cup {Migrations[proc[p].step]}
    /\ proc' = [proc EXCEPT ![p].step = NextMigration(p)]
    /\ UNCHANGED <<storage, runs, torn>>

FirstStep(job) ==
    CASE job = "sweep" -> "resume"
      [] job = "fresh" -> "retire"
      [] job = "reset" -> "delete attempts"

Opened(p) ==
    /\ At(p, "migrate") /\ proc[p].step > Len(Migrations)
    /\ Goto(p, FirstStep(proc[p].job))
    /\ UNCHANGED <<storage, columns, runs, torn>>

Open(p) == ApplySchema(p) \/ AddColumn(p) \/ Opened(p)

-----------------------------------------------------------------------------
(* Run, up to its session.                                                 *)

Retire(p) ==
    /\ At(p, "retire")
    /\ MarkPausedAsCompleted(proc[p].sig)
    /\ Goto(p, "resume")
    /\ UNCHANGED <<columns, runs, torn>>

SkipOne(sig) == Resume(sig) + 2 \* mutant of StartIndex
StartIndex(sig) == Resume(sig) + 1

LookupResume(p) ==
    /\ At(p, "resume")
    /\ proc' = [proc EXCEPT ![p].pc = "select", ![p].next = StartIndex(proc[p].sig)]
    /\ UNCHANGED <<storage, columns, runs, torn>>

(* BeginSession: the query, and the statement it asks for.                 *)
NeverReuse(sig) == TRUE \* mutant of NothingToReuse
NothingToReuse(sig) == ResumableIds(sig) = {}

SelectSession(p) ==
    /\ At(p, "select")
    /\ IF NothingToReuse(proc[p].sig) THEN Goto(p, "insert")
       ELSE proc' = [proc EXCEPT ![p].pc = "reuse",
                                 ![p].found = LatestId(ResumableIds(proc[p].sig))]
    /\ UNCHANGED <<storage, columns, runs, torn>>

(* With a session; there may be nothing left to do in it.                  *)
Work(p, id) ==
    proc' = [proc EXCEPT ![p].sid = id, ![p].found = 0,
               ![p].pc = IF proc[p].next >= WordlistSize THEN "end now" ELSE "scan"]

NewSession(p, meta) ==
    [sig |-> proc[p].sig, meta |-> meta, mode |-> "sweep", cursor |-> NoCursor]

InsertNew(p, meta) ==
    /\ At(p, "insert")
    /\ InsertSession(NewSession(p, meta), 0)
    /\ Work(p, lastId + 1)
    /\ UNCHANGED <<columns, runs, torn>>

(* An UPDATE of a row that is gone changes none and is no error.           *)
ReuseFound(p, meta) ==
    /\ At(p, "reuse")
    /\ IF Exists(proc[p].found) THEN ReuseSession(proc[p].found, NewSession(p, meta))
       ELSE UNCHANGED storage
    /\ Work(p, proc[p].found)
    /\ UNCHANGED <<columns, runs, torn>>

Begin(p) ==
    \/ Retire(p) \/ LookupResume(p) \/ SelectSession(p)
    \/ \E meta \in Metas : InsertNew(p, meta) \/ ReuseFound(p, meta)

-----------------------------------------------------------------------------
(* Run, from there on.                                                     *)

LastOfBatch(p) ==
    {i \in proc[p].next .. proc[p].next + BatchSize - 1 : i < WordlistSize}

(* The insert is an error once the session is gone: see Fail.              *)
Record(p) ==
    /\ At(p, "scan") /\ Exists(proc[p].sid)
    /\ \E top \in LastOfBatch(p) :
         /\ \E res \in [proc[p].next .. top -> Results] :
              /\ \A i \in DOMAIN res : res[i] \in Outcomes[i]
              /\ InsertAttempts([k \in 1 .. top + 1 - proc[p].next |->
                    [session |-> proc[p].sid, candidate |-> proc[p].next + k - 1,
                     res |-> res[proc[p].next + k - 1]]])
         /\ proc' = [proc EXCEPT ![p].pc = "checkpoint", ![p].top = top]
    /\ UNCHANGED <<columns, runs, torn>>

WholeBatch(p) == proc[p].next + BatchSize \* mutant of NextAfter
NextAfter(p) == proc[p].top + 1

Advance(p) ==
    /\ At(p, "checkpoint")
    /\ IF Exists(proc[p].sid) THEN Checkpoint(proc[p].sid, proc[p].top)
       ELSE UNCHANGED storage
    /\ proc' = [proc EXCEPT ![p].pc = "scan", ![p].next = NextAfter(p),
                            ![p].top = -1]
    /\ UNCHANGED <<columns, runs, torn>>

(* The words are exhausted, or ctx is done; a cancelled run may be taken   *)
(* for a completed one.                                                    *)
FinalStatuses(p) ==
    IF proc[p].next = WordlistSize THEN {"completed"} ELSE {"paused", "completed"}

End(p) ==
    /\ proc[p].pc \in {"scan", "end now"}
    /\ \E status \in FinalStatuses(p) :
         IF Exists(proc[p].sid) THEN EndSession(proc[p].sid, status)
         ELSE UNCHANGED storage
    /\ Return(p)
    /\ UNCHANGED <<columns, runs, torn>>

Scan(p) == Record(p) \/ Advance(p) \/ End(p)

-----------------------------------------------------------------------------
(* Reset.                                                                  *)

ResetAttempts(p) ==
    /\ At(p, "delete attempts")
    /\ DeleteAttempts
    /\ torn' = TRUE
    /\ Goto(p, "delete sessions")
    /\ UNCHANGED <<columns, runs>>

(* Process q knows where to resume, and has no session yet.                *)
StaleIndex(q) == proc[q].pc \in {"select", "insert"} /\ proc[q].next > 0

ResetSessions(p) ==
    /\ At(p, "delete sessions")
    /\ DeleteSessions
    /\ torn' = \E q \in Processes : StaleIndex(q)
    /\ Return(p)
    /\ UNCHANGED <<columns, runs>>

Reset(p) == ResetAttempts(p) \/ ResetSessions(p)

-----------------------------------------------------------------------------
(* A statement fails, or the process dies.                                 *)
Fail(p) ==
    /\ ~At(p, "idle")
    /\ Return(p)
    /\ UNCHANGED <<storage, columns, runs, torn>>

Rest ==
    /\ runs = MaxRuns /\ \A p \in Processes : At(p, "idle")
    /\ UNCHANGED vars

Next ==
    \/ \E p \in Processes :
         \/ \E job \in Jobs, sig \in Signatures : Start(p, job, sig)
         \/ Open(p) \/ Begin(p) \/ Scan(p) \/ Reset(p) \/ Fail(p)
    \/ Rest

Spec == Init /\ [][Next]_vars
=============================================================================
