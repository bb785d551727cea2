--------------------------- MODULE SweepPipeline ---------------------------
(***************************************************************************)
(* One position sweep, pipeline.Run, and the goroutines it starts:         *)
(*                                                                         *)
(*   generate -> cand -> derive (one per worker) -> raw -> reorder         *)
(*            -> derived -> check -> checked -> logResults -> storage      *)
(*                                                                         *)
(* A state also says which call of Run is under way, so that a behaviour   *)
(* is a history of runs against one database: a run returns, its process   *)
(* exits or dies, and a later run finds what was left in storage.  One     *)
(* process at a time uses the database.                                    *)
(*                                                                         *)
(* A step is one channel operation, one SQL statement or transaction, or   *)
(* one answered lookup.  A buffered channel is the sequence of what is in  *)
(* it; it is closed once the goroutine that closes it has returned.  Where *)
(* Go selects between a channel operation and ctx.Done(), each ready arm   *)
(* is an action.  A candidate is its word index; the mnemonic, its hash    *)
(* and its addresses are functions of that index.                          *)
(***************************************************************************)
EXTENDS Repository, FiniteSets

CONSTANTS
    WordlistSize,  \* wordlistSize, 2048 in the program
    Workers,       \* the deriver goroutines
    BatchSize,     \* Config.BatchSize: rows per transaction, buffer of channels
    Valid,         \* word indices whose mnemonic has a good checksum
    Funded,        \* those of them whose addresses hold a balance
    BadSignatures, \* templates with a word the iterator rejects
    Faults,        \* what may go wrong: see FaultKinds
    MaxRuns        \* bound: calls of Run in a behaviour

FaultKinds == {"database", "api", "cancel", "crash"}

Idx == 0 .. WordlistSize - 1

ASSUME SizeAssumption == WordlistSize \in Nat \ {0} /\ BatchSize \in Nat \ {0}
ASSUME WorkersAssumption == IsFiniteSet(Workers) /\ Workers # {}
ASSUME FundedAssumption == Funded \subseteq Valid /\ Valid \subseteq Idx
ASSUME BadAssumption == BadSignatures \subseteq Signatures
ASSUME FaultsAssumption == Faults \subseteq FaultKinds
ASSUME MaxRunsAssumption == MaxRuns \in Nat
ASSUME SweepRowAssumption == NoCursor \in Cursors /\ Metas # {} /\ Signatures # {}

CandidateCap ==
    IF BatchSize < 2 * Cardinality(Workers) THEN 2 * Cardinality(Workers)
    ELSE BatchSize

None == -1   \* no word index
Gone == -2   \* in hold: the deriver has returned

VARIABLES
    pc,         \* where Run is: see Pcs
    sig,        \* its signature
    start,      \* startIdx
    sid,        \* sessionID, 0 before BeginSession
    outcome,    \* how Run ended: finalStatus, or an error
    runs,       \* calls of Run so far
    cancelled,  \* ctx is done
    gen,        \* generator: next index
    genErr,     \* generator: "running", or what generate returned
    cand,       \* channel candidates
    hold,       \* hold[w]: the index deriver w works on, None or Gone
    raw,        \* channel derivedRaw
    next,       \* reorder: next index to emit
    pending,    \* reorder: indices that came too early
    emitting,   \* reorder: the index it is sending, or None
    reoDone,    \* reorder returned, derived is closed
    derived,    \* channel derived
    hand,       \* check: the item it works on, a sequence of at most one
    chkDone,    \* check returned, checked is closed
    checked,    \* channel checked
    log,        \* where logResults is: see Logs
    after,      \* where it continues when the flush is done
    batch,      \* rows not yet flushed
    highest,    \* last index committed by this run, None at first
    sawCancel,  \* its cancelled
    logErr,     \* it returned an error
    stats       \* the atomic counters the dashboard reads

control == <<pc, sig, start, sid, outcome, runs>>
upstream == <<gen, genErr, cand, hold, raw>>
ordering == <<next, pending, emitting, reoDone>>
checking == <<derived, hand, chkDone, checked>>
logging == <<log, after, batch, highest, sawCancel, logErr, stats>>
vars == <<storage, control, cancelled, upstream, ordering, checking, logging>>

Pcs == {"idle", "fresh", "resume", "begin", "endnow", "run", "end", "returned"}
Logs == {"select", "drain", "insert", "checkpoint", "done"}
Item == [idx: Idx, res: Results \cup {"pending"}]
NoStats == [processed |-> 0, valid |-> 0, hits |-> 0, errors |-> 0]

-----------------------------------------------------------------------------
(* Run: startup.                                                           *)

(* No goroutine of a run is left.                                          *)
Quiet ==
    /\ pc = "idle" /\ start = 0 /\ sid = 0 /\ outcome = "none"
    /\ cancelled = FALSE
    /\ gen = 0 /\ genErr = "nil" /\ cand = <<>>
    /\ hold = [w \in Workers |-> Gone] /\ raw = <<>>
    /\ next = 0 /\ pending = {} /\ emitting = None /\ reoDone = TRUE
    /\ derived = <<>> /\ hand = <<>> /\ chkDone = TRUE /\ checked = <<>>
    /\ log = "done" /\ after = "return" /\ batch = <<>> /\ highest = None
    /\ sawCancel = FALSE /\ logErr = FALSE /\ stats = NoStats

Init ==
    /\ StorageInit
    /\ Quiet
    /\ sig \in Signatures \* of no run yet
    /\ runs = 0

Start(s, fresh) ==
    /\ pc = "idle" /\ runs < MaxRuns
    /\ pc' = IF fresh THEN "fresh" ELSE "resume"
    /\ sig' = s
    /\ runs' = runs + 1
    /\ UNCHANGED <<storage, start, sid, outcome, cancelled,
                   upstream, ordering, checking, logging>>

(* A statement on the caller's context fails once that is done.            *)
ClearPaused ==
    /\ pc = "fresh" /\ ~cancelled
    /\ MarkPausedAsCompleted(sig)
    /\ pc' = "resume"
    /\ UNCHANGED <<sig, start, sid, outcome, runs, cancelled,
                   upstream, ordering, checking, logging>>

RedoLast(s) == IF Resume(s) = -1 THEN 0 ELSE Resume(s) \* mutant of StartIndex
SkipOne(s) == Resume(s) + 2                            \* mutant of StartIndex
StartIndex(s) == Resume(s) + 1

LookupResume ==
    /\ pc = "resume" /\ ~cancelled
    /\ start' = StartIndex(sig)
    /\ pc' = "begin"
    /\ UNCHANGED <<storage, sig, sid, outcome, runs, cancelled,
                   upstream, ordering, checking, logging>>

(* BeginSession; unless everything is done already, the goroutines start.  *)
Begin(meta) ==
    /\ pc = "begin" /\ ~cancelled
    /\ BeginSession([sig |-> sig, meta |-> meta, mode |-> "sweep",
                     cursor |-> NoCursor], 0)
    /\ sid' = BeginSessionId(sig)
    /\ IF start >= WordlistSize
       THEN pc' = "endnow" /\ UNCHANGED <<upstream, ordering, checking, logging>>
       ELSE /\ pc' = "run"
            /\ gen' = start /\ genErr' = "running"
            /\ hold' = [w \in Workers |-> None]
            /\ next' = start /\ reoDone' = FALSE
            /\ chkDone' = FALSE
            /\ log' = "select" /\ after' = "select"
            /\ UNCHANGED <<cand, raw, pending, emitting, derived, hand, checked,
                           batch, highest, sawCancel, logErr, stats>>
    /\ UNCHANGED <<sig, start, outcome, runs, cancelled>>

EndNow ==
    /\ pc = "endnow" /\ ~cancelled
    /\ EndSession(sid, "completed")
    /\ pc' = "returned" /\ outcome' = "completed"
    /\ UNCHANGED <<sig, start, sid, runs, cancelled,
                   upstream, ordering, checking, logging>>

StartupError ==
    /\ pc \in {"fresh", "resume", "begin", "endnow"}
    /\ cancelled \/ "database" \in Faults
    /\ pc' = "returned" /\ outcome' = "error"
    /\ UNCHANGED <<storage, sig, start, sid, runs, cancelled,
                   upstream, ordering, checking, logging>>

-----------------------------------------------------------------------------
(* generate.                                                               *)

StopEarly == gen < WordlistSize - 1 \* mutant of InRange
InRange == gen < WordlistSize

GenerateFails ==
    /\ genErr = "running" /\ InRange /\ sig \in BadSignatures
    /\ genErr' = "template"
    /\ UNCHANGED <<storage, control, cancelled, gen, cand, hold, raw,
                   ordering, checking, logging>>

GenerateSend ==
    /\ genErr = "running" /\ InRange /\ sig \notin BadSignatures
    /\ Len(cand) < CandidateCap
    /\ cand' = Append(cand, gen)
    /\ gen' = gen + 1
    /\ UNCHANGED <<storage, control, cancelled, genErr, hold, raw,
                   ordering, checking, logging>>

IgnoreCancel == FALSE \* mutant of GenerateCancelled
GenerateCancelled ==
    /\ genErr = "running" /\ InRange /\ sig \notin BadSignatures
    /\ cancelled
    /\ genErr' = "canceled"
    /\ UNCHANGED <<storage, control, cancelled, gen, cand, hold, raw,
                   ordering, checking, logging>>

GenerateDone ==
    /\ genErr = "running" /\ ~InRange
    /\ genErr' = "nil"
    /\ UNCHANGED <<storage, control, cancelled, gen, cand, hold, raw,
                   ordering, checking, logging>>

Generate == GenerateFails \/ GenerateSend \/ GenerateCancelled \/ GenerateDone

-----------------------------------------------------------------------------
(* derive, one goroutine per worker.                                       *)

DeriveRecv(w) ==
    /\ hold[w] = None /\ cand # <<>>
    /\ hold' = [hold EXCEPT ![w] = Head(cand)]
    /\ cand' = Tail(cand)
    /\ UNCHANGED <<storage, control, cancelled, gen, genErr, raw,
                   ordering, checking, logging>>

DeriveClosed(w) ==
    /\ hold[w] = None /\ cand = <<>> /\ genErr # "running"
    /\ hold' = [hold EXCEPT ![w] = Gone]
    /\ UNCHANGED <<storage, control, cancelled, gen, genErr, cand, raw,
                   ordering, checking, logging>>

DeriveSend(w) ==
    /\ hold[w] \in Idx /\ Len(raw) < CandidateCap
    /\ raw' = Append(raw, hold[w])
    /\ hold' = [hold EXCEPT ![w] = None]
    /\ UNCHANGED <<storage, control, cancelled, gen, genErr, cand,
                   ordering, checking, logging>>

(* The item in hand is dropped.                                            *)
DeriveCancelled(w) ==
    /\ hold[w] \in Idx /\ cancelled
    /\ hold' = [hold EXCEPT ![w] = Gone]
    /\ UNCHANGED <<storage, control, cancelled, gen, genErr, cand, raw,
                   ordering, checking, logging>>

Derive(w) == DeriveRecv(w) \/ DeriveClosed(w) \/ DeriveSend(w) \/ DeriveCancelled(w)

-----------------------------------------------------------------------------
(* reorder.  next is not in pending when nothing is being emitted, so the  *)
(* drainContiguous after the loop never has anything to do.                *)

AnyOrder(i) == TRUE \* mutant of IsNext
IsNext(i) == i = next

ReorderRecv ==
    /\ ~reoDone /\ emitting = None /\ raw # <<>>
    /\ raw' = Tail(raw)
    /\ IF IsNext(Head(raw))
       THEN emitting' = Head(raw) /\ UNCHANGED pending
       ELSE pending' = pending \cup {Head(raw)} /\ UNCHANGED emitting
    /\ UNCHANGED <<storage, control, cancelled, gen, genErr, cand, hold,
                   next, reoDone, checking, logging>>

(* emit, next++ and the next round of drainContiguous.                     *)
ReorderEmit ==
    /\ ~reoDone /\ emitting # None /\ Len(derived) < BatchSize
    /\ derived' = Append(derived, emitting)
    /\ next' = next + 1
    /\ IF next + 1 \in pending
       THEN emitting' = next + 1 /\ pending' = pending \ {next + 1}
       ELSE emitting' = None /\ UNCHANGED pending
    /\ UNCHANGED <<storage, control, cancelled, upstream, reoDone,
                   hand, chkDone, checked, logging>>

ReorderCancelled ==
    /\ ~reoDone /\ emitting # None /\ cancelled
    /\ reoDone' = TRUE
    /\ UNCHANGED <<storage, control, cancelled, upstream, next, pending, emitting,
                   checking, logging>>

ReorderClosed ==
    /\ ~reoDone /\ emitting = None
    /\ raw = <<>> /\ \A w \in Workers : hold[w] = Gone
    /\ reoDone' = TRUE
    /\ UNCHANGED <<storage, control, cancelled, upstream, next, pending, emitting,
                   checking, logging>>

Reorder == ReorderRecv \/ ReorderEmit \/ ReorderCancelled \/ ReorderClosed

-----------------------------------------------------------------------------
(* check.                                                                  *)

Answer(i) == IF i \in Funded THEN "funded" ELSE "empty"

(* A lookup that begins on a context already done fails at once.           *)
FailedIsEmpty(i) == \* mutant of FirstResult
    IF i \notin Valid THEN "skipped" ELSE IF cancelled THEN "empty" ELSE "pending"
FirstResult(i) ==
    IF i \notin Valid THEN "skipped" ELSE IF cancelled THEN "error" ELSE "pending"

CheckRecv ==
    /\ ~chkDone /\ hand = <<>> /\ derived # <<>>
    /\ hand' = <<[idx |-> Head(derived), res |-> FirstResult(Head(derived))]>>
    /\ derived' = Tail(derived)
    /\ UNCHANGED <<storage, control, cancelled, upstream, ordering,
                   chkDone, checked, logging>>

(* CheckAddresses returns.                                                 *)
CheckLookup ==
    /\ hand # <<>> /\ hand[1].res = "pending"
    /\ \E res \in {Answer(hand[1].idx), "error"} :
         /\ res = "error" => cancelled \/ "api" \in Faults
         /\ hand' = <<[hand[1] EXCEPT !.res = res]>>
    /\ UNCHANGED <<storage, control, cancelled, upstream, ordering,
                   derived, chkDone, checked, logging>>

(* The one send that does not select on ctx.Done().                        *)
CheckSend ==
    /\ hand # <<>> /\ hand[1].res # "pending" /\ Len(checked) < BatchSize
    /\ checked' = Append(checked, hand[1])
    /\ hand' = <<>>
    /\ UNCHANGED <<storage, control, cancelled, upstream, ordering,
                   derived, chkDone, logging>>

CheckClosed ==
    /\ ~chkDone /\ hand = <<>> /\ derived = <<>> /\ reoDone
    /\ chkDone' = TRUE
    /\ UNCHANGED <<storage, control, cancelled, upstream, ordering,
                   derived, hand, checked, logging>>

Check == CheckRecv \/ CheckLookup \/ CheckSend \/ CheckClosed

-----------------------------------------------------------------------------
(* logResults, which runs in the goroutine of Run.                         *)

One(b) == IF b THEN 1 ELSE 0

Counted(res) ==
    [processed |-> stats.processed + 1,
     valid |-> stats.valid + One(res # "skipped"),
     hits |-> stats.hits + One(res = "funded"),
     errors |-> stats.errors + One(res = "error")]

Full(rows) == Len(rows) >= BatchSize

(* Receive, in the outer select or in the drain loop.                      *)
LogRecv(loop) ==
    /\ log = loop /\ checked # <<>>
    /\ checked' = Tail(checked)
    /\ batch' = Append(batch, Head(checked))
    /\ stats' = Counted(Head(checked).res)
    /\ log' = IF Full(batch') THEN "insert" ELSE loop
    /\ after' = loop
    /\ UNCHANGED <<storage, control, cancelled, upstream, ordering,
                   derived, hand, chkDone, highest, sawCancel, logErr>>

LeaveUnflushed == "done" \* mutant of LastFlush
LastFlush == IF batch = <<>> THEN "done" ELSE "insert"

(* The last flush, which does nothing when the batch is empty.             *)
LogReturn ==
    /\ log' = LastFlush
    /\ after' = "return"
    /\ UNCHANGED <<storage, control, cancelled, upstream, ordering, checking,
                   batch, highest, sawCancel, logErr, stats>>

LogClosed == log = "select" /\ checked = <<>> /\ chkDone /\ LogReturn

LogCancel ==
    /\ log = "select" /\ cancelled
    /\ log' = "drain" /\ after' = "drain" /\ sawCancel' = TRUE
    /\ UNCHANGED <<storage, control, cancelled, upstream, ordering, checking,
                   batch, highest, logErr, stats>>

(* checked is closed or has nothing ready (the default arm).               *)
DrainDone == log = "drain" /\ checked = <<>> /\ LogReturn

Rows == [k \in 1 .. Len(batch) |->
           [session |-> sid, candidate |-> batch[k].idx, res |-> batch[k].res]]

FlushInsert ==
    /\ log = "insert"
    /\ InsertAttempts(Rows)
    /\ log' = "checkpoint"
    /\ UNCHANGED <<control, cancelled, upstream, ordering, checking,
                   after, batch, highest, sawCancel, logErr, stats>>

PastTop == batch[Len(batch)].idx + 1 \* mutant of TopIndex
TopIndex == batch[Len(batch)].idx

FlushCheckpoint ==
    /\ log = "checkpoint"
    /\ Checkpoint(sid, TopIndex)
    /\ highest' = TopIndex
    /\ batch' = <<>>
    /\ log' = IF after = "return" THEN "done" ELSE after
    /\ UNCHANGED <<control, cancelled, upstream, ordering, checking,
                   after, sawCancel, logErr, stats>>

(* Either statement fails: logResults returns, whatever is in checked.     *)
FlushError ==
    /\ log \in {"insert", "checkpoint"} /\ "database" \in Faults
    /\ log' = "done" /\ logErr' = TRUE
    /\ UNCHANGED <<storage, control, cancelled, upstream, ordering, checking,
                   after, batch, highest, sawCancel, stats>>

Log ==
    \/ LogRecv("select") \/ LogClosed \/ LogCancel
    \/ LogRecv("drain") \/ DrainDone
    \/ FlushInsert \/ FlushCheckpoint \/ FlushError

-----------------------------------------------------------------------------
(* Run: the end.                                                           *)

(* Run has logResults' return values and receives from genErrCh.           *)
LogReturned == pc = "run" /\ log = "done" /\ genErr # "running"

ForgetGenErr == logErr \* mutant of RunFailed
RunFailed == genErr = "template" \/ logErr

RunError ==
    /\ LogReturned /\ RunFailed
    /\ pc' = "returned" /\ outcome' = "error"
    /\ UNCHANGED <<storage, sig, start, sid, runs, cancelled,
                   upstream, ordering, checking, logging>>

FinalStatus ==
    IF highest = WordlistSize - 1 \/ ~sawCancel THEN "completed" ELSE "paused"

Finish ==
    /\ LogReturned /\ ~RunFailed
    /\ pc' = "end" /\ outcome' = FinalStatus
    /\ UNCHANGED <<storage, sig, start, sid, runs, cancelled,
                   upstream, ordering, checking, logging>>

EndRun ==
    /\ pc = "end"
    /\ EndSession(sid, outcome)
    /\ pc' = "returned"
    /\ UNCHANGED <<sig, start, sid, outcome, runs, cancelled,
                   upstream, ordering, checking, logging>>

EndRunError ==
    /\ pc = "end" /\ "database" \in Faults
    /\ pc' = "returned" /\ outcome' = "error"
    /\ UNCHANGED <<storage, sig, start, sid, runs, cancelled,
                   upstream, ordering, checking, logging>>

Main ==
    \/ ClearPaused \/ LookupResume \/ (\E meta \in Metas : Begin(meta))
    \/ EndNow \/ StartupError \/ RunError \/ Finish \/ EndRun \/ EndRunError

-----------------------------------------------------------------------------
(* The environment.                                                        *)

BecomeQuiet ==
    /\ pc' = "idle" /\ start' = 0 /\ sid' = 0 /\ outcome' = "none"
    /\ cancelled' = FALSE
    /\ gen' = 0 /\ genErr' = "nil" /\ cand' = <<>>
    /\ hold' = [w \in Workers |-> Gone] /\ raw' = <<>>
    /\ next' = 0 /\ pending' = {} /\ emitting' = None /\ reoDone' = TRUE
    /\ derived' = <<>> /\ hand' = <<>> /\ chkDone' = TRUE /\ checked' = <<>>
    /\ log' = "done" /\ after' = "return" /\ batch' = <<>> /\ highest' = None
    /\ sawCancel' = FALSE /\ logErr' = FALSE /\ stats' = NoStats
    /\ UNCHANGED <<storage, sig, runs>>

(* Ctrl+C or SIGTERM.                                                      *)
Cancel ==
    /\ "cancel" \in Faults /\ pc \notin {"idle", "returned"} /\ ~cancelled
    /\ cancelled' = TRUE
    /\ UNCHANGED <<storage, control, upstream, ordering, checking, logging>>

(* The caller of Run goes on to the next position or leaves.  Goroutines   *)
(* Run left behind have only their own channels and are forgotten.         *)
Exit == pc = "returned" /\ BecomeQuiet

Crash ==
    /\ "crash" \in Faults /\ pc \notin {"idle", "returned"}
    /\ BecomeQuiet

(* The bound on runs is used up.                                           *)
Rest == pc = "idle" /\ runs = MaxRuns /\ UNCHANGED vars

Next ==
    \/ \E s \in Signatures, fresh \in BOOLEAN : Start(s, fresh)
    \/ Main
    \/ Generate
    \/ \E w \in Workers : Derive(w)
    \/ Reorder
    \/ Check
    \/ Log
    \/ Cancel
    \/ Exit
    \/ Crash
    \/ Rest

Spec == Init /\ [][Next]_vars

(* The Go scheduler runs every goroutine that can take a step, a statement *)
(* or a lookup returns (5 s contexts, the HTTP client's timeout).  Nobody  *)
(* has to start a run, cancel one or leave.                                *)
Fairness ==
    /\ WF_vars(Main)
    /\ WF_vars(Generate)
    /\ \A w \in Workers : WF_vars(Derive(w))
    /\ WF_vars(Reorder)
    /\ WF_vars(Check)
    /\ WF_vars(Log)

FairSpec == Spec /\ Fairness
=============================================================================
