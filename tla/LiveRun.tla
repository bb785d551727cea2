------------------------------ MODULE LiveRun -------------------------------
(***************************************************************************)
(* A run while it is going on: the goroutine that looks balances up, the   *)
(* one that counts, the upstream API and the dashboard.  It composes       *)
(* RateLimitedChecker and Dashboard with what pipeline.Run or              *)
(* pipeline.Walk does to the checker and the counters; SweepPipeline and   *)
(* KeyspaceWalk have the rest of them, statements that fail included.      *)
(*                                                                         *)
(* Candidates are numbers: the word indices of a sweep, or a stretch of    *)
(* the keyspace of a walk.  The checked channel of a sweep decouples check *)
(* from logResults; the walk counts a candidate before it tries the next.  *)
(***************************************************************************)
EXTENDS RateLimitedChecker, Dashboard, FiniteSets

CONSTANTS
    Valid,     \* candidates whose mnemonic has a good checksum
    BatchSize, \* rows per flush, and the capacity of checked
    Scenarios  \* bound: the runs to look at, by mode, observer and start

ASSUME LiveAssumption ==
    /\ Candidates = 0 .. Total - 1 /\ Total \in Nat \ {0}
    /\ Valid \subseteq Candidates
    /\ Scenarios \subseteq [mode: {"sweep", "walk"}, observer: {"screen", "upstream"},
                             start: Candidates]
    /\ BatchSize \in Nat \ {0}

VARIABLES
    mode,     \* "sweep" or "walk"
    observer, \* "screen": the dashboard; "upstream": the API, with --no-dashboard
    start,    \* the candidate the run begins with
    pc,       \* where Run or Walk is: see Pcs
    next,     \* the candidate to try
    checked,  \* results on their way to the counters
    bumps,    \* counters still to be bumped for the result last taken
    batch     \* number of rows not yet flushed

running == <<mode, observer, start, pc, next, checked, bumps, batch>>
vars == <<checking, cancelled, stats, screen, running>>

Pcs == {"store session", "store resumed", "store cursor", "run", "final flush", "returned"}

Init ==
    /\ CheckerInit
    /\ \E s \in Scenarios : mode = s.mode /\ observer = s.observer /\ start = s.start
    /\ DashboardInit(IF observer = "screen" THEN "paint" ELSE "off")
    /\ pc = "store session"
    /\ next = start /\ checked = <<>> /\ bumps = <<>> /\ batch = 0

-----------------------------------------------------------------------------
(* The session has begun: Run and Walk tell the dashboard.                 *)

StoreSession ==
    /\ pc = "store session"
    /\ stats' = [stats EXCEPT !.session = 1]
    /\ pc' = "store resumed"
    /\ UNCHANGED <<checking, cancelled, screen, mode, observer, start,
                   next, checked, bumps, batch>>

StoreResumedAt ==
    /\ pc = "store resumed"
    /\ stats' = [stats EXCEPT !.resumedAt = IF mode = "sweep" THEN start - 1 ELSE -1]
    /\ pc' = IF mode = "sweep" THEN "run" ELSE "store cursor"
    /\ UNCHANGED <<checking, cancelled, screen, mode, observer, start,
                   next, checked, bumps, batch>>

StoreCursor ==
    /\ pc = "store cursor"
    /\ stats' = [stats EXCEPT !.cursor = start]
    /\ pc' = "run"
    /\ UNCHANGED <<checking, cancelled, screen, mode, observer, start,
                   next, checked, bumps, batch>>

Prepare == StoreSession \/ StoreResumedAt \/ StoreCursor

-----------------------------------------------------------------------------
(* Trying candidates.                                                      *)

(* check goes on with what the stages before it emit, even when a          *)
(* cancelled Run has returned; the walk looks at ctx at the head of its    *)
(* loop.                                                                   *)
CanTry ==
    /\ pc \in {"run", "final flush", "returned"} /\ call.pc = "none" /\ next < Total
    /\ mode = "walk" =>
         pc = "run" /\ ~cancelled /\ bumps = <<>> /\ checked = <<>> /\ batch < BatchSize

Room == Len(checked) < BatchSize

Deliver(res) ==
    /\ Room
    /\ checked' = Append(checked, res)
    /\ next' = next + 1
    /\ UNCHANGED <<stats, screen, mode, observer, start, pc, bumps, batch>>

TryInvalid ==
    /\ CanTry /\ next \notin Valid
    /\ Deliver("skipped")
    /\ UNCHANGED <<checking, cancelled>>

TryValid ==
    /\ CanTry /\ next \in Valid
    /\ CheckAddresses(next)
    /\ UNCHANGED <<stats, screen, running>>

LookupDone ==
    /\ call.pc = "returned"
    /\ Deliver(Result)
    /\ call' = NoCall
    /\ UNCHANGED <<credit, cancelled, watch>>

LookupOn == Lookup /\ UNCHANGED <<stats, screen, running>>

Try == TryInvalid \/ TryValid \/ LookupDone \/ LookupOn

-----------------------------------------------------------------------------
(* Counting.                                                               *)

(* The counters a result bumps, in order.                                  *)
Bumps(res) ==
    CASE res = "skipped" -> <<"processed">>
      [] res = "empty"   -> <<"processed", "valid">>
      [] res = "funded"  -> <<"processed", "valid", "hits">>
      [] res = "error"   -> <<"processed", "valid", "errors">>

Take ==
    /\ pc = "run" /\ bumps = <<>> /\ checked # <<>> /\ batch < BatchSize
    /\ bumps' = Bumps(Head(checked))
    /\ checked' = Tail(checked)
    /\ batch' = batch + 1
    /\ UNCHANGED <<checking, cancelled, stats, screen, mode, observer, start, pc, next>>

Bump ==
    /\ bumps # <<>>
    /\ stats' = [stats EXCEPT ![Head(bumps)] = @ + 1]
    /\ bumps' = Tail(bumps)
    /\ UNCHANGED <<checking, cancelled, screen, mode, observer, start, pc, next,
                   checked, batch>>

(* A flush; that of a walk stores the cursor it has written.               *)
NextToTry == next \* mutant of LastTried
LastTried == next - 1

CountBatch == \* mutant of Flushed
    stats' = [stats EXCEPT !.processed = 0] /\ batch' = 0
Flushed ==
    /\ stats' = IF mode = "walk" THEN [stats EXCEPT !.cursor = LastTried] ELSE stats
    /\ batch' = 0

Flush ==
    /\ pc = "run" /\ bumps = <<>> /\ batch = BatchSize
    /\ Flushed
    /\ UNCHANGED <<checking, cancelled, screen, mode, observer, start, pc, next,
                   checked, bumps>>

(* The results are used up; or ctx is done, and no result is at hand.      *)
Leave ==
    /\ pc = "run" /\ bumps = <<>> /\ checked = <<>> /\ batch < BatchSize
    /\ \/ mode = "sweep" /\ (cancelled \/ (next = Total /\ call.pc = "none"))
       \/ mode = "walk" /\ cancelled /\ call.pc = "none"
    /\ pc' = "final flush"
    /\ UNCHANGED <<checking, cancelled, stats, screen, mode, observer, start, next,
                   checked, bumps, batch>>

FinalFlush ==
    /\ pc = "final flush"
    /\ IF batch > 0 THEN Flushed ELSE UNCHANGED <<stats, batch>>
    /\ pc' = "returned"
    /\ UNCHANGED <<checking, cancelled, screen, mode, observer, start, next,
                   checked, bumps>>

Count == Take \/ Bump \/ Flush \/ Leave \/ FinalFlush

-----------------------------------------------------------------------------
(* The dashboard, upstream, and the environment.                           *)

(* Its context is the run's, and is cancelled when the run returns.        *)
OnlyByCaller == cancelled \* mutant of DashDone
DashDone == cancelled \/ pc = "returned"

PaintOn == Paint /\ UNCHANGED <<checking, cancelled, running>>
StopDashboard == StopPainting(DashDone) /\ UNCHANGED <<checking, cancelled, running>>

TimePasses == Tick /\ UNCHANGED <<stats, screen, running>>

StartWatching ==
    /\ observer = "upstream" /\ ~watch.on
    /\ watch' = [watch EXCEPT !.on = TRUE]
    /\ UNCHANGED <<credit, call, cancelled, stats, screen, running>>

Cancel ==
    /\ "cancel" \in Faults /\ ~cancelled /\ pc # "returned"
    /\ cancelled' = TRUE
    /\ UNCHANGED <<checking, stats, screen, running>>

(* The end, with check perhaps left behind at its channel; or a walk that  *)
(* is at the end of the stretch we look at.                                *)
Rest ==
    /\ \/ pc = "returned" /\ dash.pc \in {"off", "done"}
       \/ mode = "walk" /\ next = Total
    /\ UNCHANGED vars

Next ==
    \/ Prepare \/ Try \/ Count
    \/ PaintOn \/ StopDashboard
    \/ TimePasses \/ StartWatching \/ Cancel \/ Rest

Spec == Init /\ [][Next]_vars

(* Each goroutine runs, requests are answered or time out, and time        *)
(* passes.  A select that comes round again and again takes every arm that *)
(* is ready at last: StopDashboard competes with the ticker.               *)
FairSpec ==
    /\ Spec
    /\ WF_vars(Prepare) /\ WF_vars(Try) /\ WF_vars(Count)
    /\ WF_vars(TimePasses)
    /\ WF_vars(PaintOn) /\ SF_vars(StopDashboard)
=============================================================================
