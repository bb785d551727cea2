---------------------------- MODULE KeyspaceWalk ----------------------------
(***************************************************************************)
(* The full-keyspace walk, pipeline.Walk: one goroutine that tries the     *)
(* candidates in cursor order, writes them in batches and persists the     *)
(* cursor with every batch.  As in SweepPipeline a behaviour is a history  *)
(* of runs against one database, and a step is one SQL statement, one      *)
(* transaction or one candidate.  Between walks other runs of the program  *)
(* may leave sweep sessions behind.                                        *)
(*                                                                         *)
(* Left out: validateWalkConfig, the atomic counters, and the error of     *)
(* ParseCursor, which no cursor written by the program causes.             *)
(***************************************************************************)
EXTENDS Repository, Cursor

CONSTANTS
    WalkSignatures, \* signatures of walks; the others are of sweeps
    BatchSize,      \* WalkConfig.BatchSize
    Valid,          \* cursors whose mnemonic has a good checksum
    Funded,         \* those of them whose addresses hold a balance
    Clock,          \* readings of the wall clock, which may be set back
    Faults,         \* "database", "api", "cancel", "crash"
    MaxRuns         \* bound: runs, of walks and of other commands

ASSUME BatchAssumption == BatchSize \in Nat \ {0}
ASSUME WalkRowAssumption ==
    /\ Odometers \subseteq Cursors /\ NoCursor \in Cursors
    /\ WalkSignatures \subseteq Signatures
    /\ Clock \subseteq Nat
ASSUME WalkFundedAssumption == Funded \subseteq Valid /\ Valid \subseteq Odometers
ASSUME WalkRunsAssumption == MaxRuns \in Nat

VARIABLES
    pc,        \* where Walk is: see Pcs
    sig,       \* its signature
    cursor,    \* the candidate to try
    sid,       \* sessionID, 0 before BeginSession
    outcome,   \* finalStatus, or "error"
    runs,      \* runs so far
    cancelled, \* ctx is done
    overflow,  \* the last Inc wrapped
    final,     \* the flush is the one after the loop
    batch,     \* rows not yet written
    starts     \* history: the cursors at which runs began a session

control == <<pc, sig, sid, outcome, runs>>
walking == <<cursor, overflow, final, batch>>
vars == <<storage, control, cancelled, walking, starts>>

Pcs == {"idle", "fresh", "load", "begin", "loop", "lookup", "insert",
        "checkpoint", "end", "returned"}

Init ==
    /\ StorageInit
    /\ pc = "idle" /\ sig \in WalkSignatures /\ sid = 0 /\ outcome = "none"
    /\ runs = 0 /\ cancelled = FALSE
    /\ cursor = Zero /\ overflow = FALSE /\ final = FALSE /\ batch = <<>>
    /\ starts = {}

-----------------------------------------------------------------------------
(* Startup.                                                                *)

Start(s, fresh) ==
    /\ pc = "idle" /\ runs < MaxRuns
    /\ pc' = IF fresh THEN "fresh" ELSE "load"
    /\ sig' = s
    /\ runs' = runs + 1
    /\ UNCHANGED <<storage, sid, outcome, cancelled, walking, starts>>

ClearPaused ==
    /\ pc = "fresh" /\ ~cancelled
    /\ MarkPausedAsCompleted(sig)
    /\ pc' = "load"
    /\ UNCHANGED <<sig, sid, outcome, runs, cancelled, walking, starts>>

(* loadResumableWalkCursor finds a cursor: the latest resumable session of *)
(* all, if it is a walk of this signature.                                 *)
WasResumed ==
    /\ SomeResumable
    /\ sessions[LatestResumable].mode = "walk"
    /\ sessions[LatestResumable].sig = sig

LastCursor == ParseCursor(sessions[LatestResumable].cursor)

(* The persisted cursor was the end of the keyspace: there is nothing to   *)
(* do, and the session is left as it is.                                   *)
LoadExhausted ==
    /\ pc = "load" /\ ~cancelled
    /\ WasResumed /\ Overflows(LastCursor)
    /\ pc' = "returned" /\ outcome' = "completed"
    /\ UNCHANGED <<storage, sig, sid, runs, cancelled, walking, starts>>

RedoLast(c) == c \* mutant of AfterLast
AfterLast(c) == Inc(c)

LoadCursor ==
    /\ pc = "load" /\ ~cancelled
    /\ ~ (WasResumed /\ Overflows(LastCursor))
    /\ cursor' = IF WasResumed THEN AfterLast(LastCursor) ELSE Zero
    /\ pc' = "begin"
    /\ UNCHANGED <<storage, sig, sid, outcome, runs, cancelled,
                   overflow, final, batch, starts>>

(* The cursor column is set to the first candidate to try.                 *)
Begin(meta, now) ==
    /\ pc = "begin" /\ ~cancelled
    /\ BeginSession([sig |-> sig, meta |-> meta, mode |-> "walk",
                     cursor |-> String(cursor)], now)
    /\ sid' = BeginSessionId(sig)
    /\ starts' = starts \cup {<<BeginSessionId(sig), cursor>>}
    /\ pc' = "loop"
    /\ UNCHANGED <<sig, outcome, runs, cancelled, walking>>

StartupError ==
    /\ pc \in {"fresh", "load", "begin"}
    /\ cancelled \/ "database" \in Faults
    /\ pc' = "returned" /\ outcome' = "error"
    /\ UNCHANGED <<storage, sig, sid, runs, cancelled, walking, starts>>

-----------------------------------------------------------------------------
(* The loop.                                                               *)

Answer(c) == IF c \in Funded THEN "funded" ELSE "empty"

Full(rows) == Len(rows) >= BatchSize

(* Out of the loop, to the final flush.                                    *)
Leave(rows) ==
    /\ pc' = IF rows = <<>> THEN "end" ELSE "insert"
    /\ final' = TRUE

(* cursor.Inc(), with these rows still to be written.                      *)
Advance(rows) ==
    /\ cursor' = Inc(cursor)
    /\ overflow' = Overflows(cursor)
    /\ IF Overflows(cursor) THEN Leave(rows)
       ELSE pc' = "loop" /\ UNCHANGED final

(* The candidate is tried: a row, and a flush if the batch is full.        *)
Tried(res) ==
    LET rows == Append(batch, [session |-> sid, candidate |-> cursor, res |-> res])
    IN  /\ batch' = rows
        /\ IF Full(rows)
           THEN pc' = "insert" /\ UNCHANGED <<cursor, overflow, final>>
           ELSE Advance(rows)

LoopCancelled ==
    /\ pc = "loop" /\ cancelled
    /\ Leave(batch)
    /\ UNCHANGED <<storage, sig, sid, outcome, runs, cancelled,
                   cursor, overflow, batch, starts>>

TryInvalid ==
    /\ pc = "loop" /\ ~cancelled /\ cursor \notin Valid
    /\ Tried("skipped")
    /\ UNCHANGED <<storage, sig, sid, outcome, runs, cancelled, starts>>

TryValid ==
    /\ pc = "loop" /\ ~cancelled /\ cursor \in Valid
    /\ pc' = "lookup"
    /\ UNCHANGED <<storage, sig, sid, outcome, runs, cancelled, walking, starts>>

(* CheckAddresses returns; it fails when ctx is done meanwhile.            *)
Lookup ==
    /\ pc = "lookup"
    /\ \E res \in {Answer(cursor), "error"} :
         /\ res = "error" => cancelled \/ "api" \in Faults
         /\ Tried(res)
    /\ UNCHANGED <<storage, sig, sid, outcome, runs, cancelled, starts>>

-----------------------------------------------------------------------------
(* The flush and the end.                                                  *)

FlushInsert ==
    /\ pc = "insert"
    /\ InsertAttempts(batch)
    /\ pc' = "checkpoint"
    /\ UNCHANGED <<sig, sid, outcome, runs, cancelled, walking, starts>>

NextToTry == cursor \* mutant of FlushCursor
FlushCursor == IF final /\ ~overflow THEN decCursor(cursor) ELSE cursor

FlushCheckpoint ==
    /\ pc = "checkpoint"
    /\ CheckpointCursor(sid, String(FlushCursor))
    /\ batch' = <<>>
    /\ IF final THEN pc' = "end" /\ UNCHANGED <<cursor, overflow, final>>
       ELSE Advance(<<>>)
    /\ UNCHANGED <<sig, sid, outcome, runs, cancelled, starts>>

ClaimDone == "completed" \* mutant of FinalStatus
FinalStatus == IF overflow THEN "completed" ELSE "paused"

EndWalk ==
    /\ pc = "end"
    /\ EndSession(sid, FinalStatus)
    /\ pc' = "returned" /\ outcome' = FinalStatus
    /\ UNCHANGED <<sig, sid, runs, cancelled, walking, starts>>

(* A statement of the flush or of the end fails.                           *)
WriteError ==
    /\ pc \in {"insert", "checkpoint", "end"} /\ "database" \in Faults
    /\ pc' = "returned" /\ outcome' = "error"
    /\ UNCHANGED <<storage, sig, sid, runs, cancelled, walking, starts>>

Walk ==
    \/ ClearPaused \/ LoadCursor \/ LoadExhausted
    \/ \E meta \in Metas, now \in Clock : Begin(meta, now)
    \/ StartupError
    \/ LoopCancelled \/ TryInvalid \/ TryValid \/ Lookup
    \/ FlushInsert \/ FlushCheckpoint \/ EndWalk \/ WriteError

-----------------------------------------------------------------------------
(* The environment.                                                        *)

BecomeIdle ==
    /\ pc' = "idle" /\ sid' = 0 /\ outcome' = "none" /\ cancelled' = FALSE
    /\ cursor' = Zero /\ overflow' = FALSE /\ final' = FALSE /\ batch' = <<>>
    /\ UNCHANGED <<storage, sig, runs, starts>>

Cancel ==
    /\ "cancel" \in Faults /\ pc \notin {"idle", "returned"} /\ ~cancelled
    /\ cancelled' = TRUE
    /\ UNCHANGED <<storage, control, walking, starts>>

Exit == pc = "returned" /\ BecomeIdle

Crash ==
    /\ "crash" \in Faults /\ pc \notin {"idle", "returned"}
    /\ BecomeIdle

(* A sweep leaves its session behind.                                      *)
OtherSweep(s, meta, now) ==
    /\ pc = "idle" /\ runs < MaxRuns
    /\ BeginSession([sig |-> s, meta |-> meta, mode |-> "sweep",
                     cursor |-> NoCursor], now)
    /\ runs' = runs + 1
    /\ UNCHANGED <<pc, sig, sid, outcome, cancelled, walking, starts>>

Rest == pc = "idle" /\ runs = MaxRuns /\ UNCHANGED vars

Next ==
    \/ \E s \in WalkSignatures, fresh \in BOOLEAN : Start(s, fresh)
    \/ Walk
    \/ Cancel
    \/ Exit
    \/ Crash
    \/ \E s \in Signatures \ WalkSignatures, meta \in Metas, now \in Clock :
         OtherSweep(s, meta, now)
    \/ Rest

Spec == Init /\ [][Next]_vars

(* The one goroutine runs; statements and lookups return.                  *)
FairSpec == Spec /\ WF_vars(Walk)
=============================================================================
