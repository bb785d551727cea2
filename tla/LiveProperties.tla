--------------------------- MODULE LiveProperties ---------------------------
(***************************************************************************)
(* What a run shows to its user and asks of the API (see LiveRun).         *)
(***************************************************************************)
EXTENDS LiveRun

IsStats(s) ==
    /\ s.session \in {0, 1} /\ s.resumedAt \in -1 .. Total - 1
    /\ s.cursor \in {NilCursor} \cup Candidates
    /\ s.processed \in 0 .. Total /\ s.valid \in 0 .. Total
    /\ s.hits \in 0 .. Total /\ s.errors \in 0 .. Total

(* The variables have their types; no channel and no batch is over its     *)
(* bound.                                                                  *)
TypeOK ==
    /\ credit \in 0 .. Interval /\ cancelled \in BOOLEAN
    /\ call.pc \in CallPcs /\ call.of \in Candidates /\ call.failed \in BOOLEAN
    /\ call.total \in 0 .. call.fetched /\ call.fetched \in 0 .. NAddresses
    /\ IsStats(stats) /\ IsStats(frame) /\ IsStats(shown)
    /\ dash.pc \in DashPcs /\ dash.loads \in 0 .. Len(Loads)
    /\ pc \in Pcs /\ next \in start .. Total
    /\ Len(checked) <= BatchSize /\ batch \in 0 .. BatchSize

-----------------------------------------------------------------------------
(* The API.                                                                *)

(* A lookup that returns a balance has it from every address: no address   *)
(* that failed is taken for an empty one, and none is counted twice.       *)
AnswerComplete ==
    call.pc = "returned" /\ Result # "error" =>
        /\ call.total = Cardinality(Holding[call.of])
        /\ Result = "funded" <=> Holding[call.of] # {}

(* In any stretch of time upstream sees no more requests than two lookups  *)
(* make, the one under way and one for which a token was saved up, and one *)
(* lookup more for every interval.  A single lookup is NAddresses requests *)
(* at once: the limiter counts lookups.                                    *)
RequestsPaced ==
    watch.requests <= NAddresses * (2 + watch.time \div Interval)

-----------------------------------------------------------------------------
(* The screen.                                                             *)

(* The attempts of a frame, the sum of two loads, are a number the run had *)
(* while the frame was read; a frame read before ResumedAt was stored      *)
(* leaves out those of earlier runs.                                       *)
AttemptsBetween ==
    LET before == IF frame.resumedAt >= 0 THEN start ELSE 0
    IN  dash.pc = "paint" /\ dash.loads = Len(Loads) =>
          /\ before + dash.since <= Attempts(frame)
          /\ Attempts(frame) <= start + stats.processed

(* What a frame shows fits together, although its loads are spread over    *)
(* the run: one that says "resumed" names the session it resumed, and one  *)
(* of a walk has no cursor beyond the candidates it says were tried.       *)
FrameFits ==
    /\ shown.resumedAt >= 0 => shown.session # 0
    /\ mode = "walk" /\ shown.cursor > start => shown.cursor < start + shown.processed

(* From frame to frame no number goes back.                                *)
FramesForward ==
    [][/\ \A counter \in DOMAIN shown : shown[counter] <= shown'[counter]
       /\ Attempts(shown) <= Attempts(shown')]_shown

-----------------------------------------------------------------------------
(* Liveness.                                                               *)

(* A lookup returns, whatever the API answers, cancelled or not.           *)
LookupReturns == call.pc = "wait" ~> call.pc \in {"returned", "none"}

(* When the run is over, the dashboard stops painting.                     *)
DashboardStops == pc = "returned" ~> dash.pc \in {"off", "done"}

-----------------------------------------------------------------------------
(* The invariant of the proofs.                                            *)

(* Requests the lookup under way may still send.                           *)
Remaining ==
    CASE call.pc = "fetch" -> NAddresses - call.fetched
      [] call.pc = "reply" -> NAddresses - call.fetched - 1
      [] OTHER -> 0

(* The requests there were tokens for: every Interval of time makes one,   *)
(* and a token is NAddresses requests.                                     *)
Budget == NAddresses * (1 + (Interval + watch.time - credit) \div Interval)

Pace ==
    /\ watch \in [on: BOOLEAN, time: Nat, requests: Nat]
    /\ ~watch.on => watch.time = 0 /\ watch.requests = 0
    /\ watch.requests + Remaining <= Budget

Call == [pc: CallPcs, of: Candidates, fetched: 0 .. NAddresses, total: Nat,
         failed: BOOLEAN]

(* The call has the balances of the addresses it has been to.              *)
Fetching ==
    /\ call \in Call
    /\ call.pc = "none" => call = NoCall
    /\ call.pc = "wait" => call.fetched = 0 /\ ~call.failed
    /\ call.pc \in {"fetch", "reply"} => call.fetched < NAddresses
    /\ call.pc = "returned" /\ ~call.failed => call.fetched = NAddresses
    /\ ~call.failed =>
         call.total = Cardinality(Holding[call.of] \cap 1 .. call.fetched)

Stores == {"store session", "store resumed", "store cursor"}
Counters == {"processed", "valid", "hits", "errors"}
ResultKinds == {"skipped", "empty", "funded", "error"}

(* The bumps of a result, or what is left of them.                         *)
Pending ==
    {<<>>, <<"processed">>,
     <<"processed", "valid">>, <<"valid">>,
     <<"processed", "valid", "hits">>, <<"valid", "hits">>, <<"hits">>,
     <<"processed", "valid", "errors">>, <<"valid", "errors">>, <<"errors">>}
OwedBy(b, counter) == IF \E k \in DOMAIN b : b[k] = counter THEN 1 ELSE 0
Owed(counter) == OwedBy(bumps, counter)

(* A walk has one candidate on its way at a time.                          *)
OneByOne ==
    mode = "walk" =>
        /\ checked # <<>> => call.pc = "none" /\ Len(checked) = 1
        /\ call.pc # "none" \/ checked # <<>> =>
             pc = "run" /\ bumps = <<>> /\ batch < BatchSize

(* Every candidate tried is counted, or on its way to the counters.        *)
Counted ==
    /\ checked \in Seq(ResultKinds) /\ bumps \in Pending
    /\ pc \in Stores => next = start /\ call.pc = "none" /\ batch = 0
    /\ bumps # <<>> => pc = "run"
    /\ call.pc # "none" => next < Total
    /\ batch > 0 => next > start
    /\ stats.processed + Owed("processed") + Len(checked) = next - start
    /\ stats.valid + Owed("valid") <= stats.processed + Owed("processed")
    /\ stats.hits + Owed("hits") <= stats.valid + Owed("valid")
    /\ stats.errors + Owed("errors") <= stats.valid + Owed("valid")

(* What the run stores for the dashboard.                                  *)
Stored ==
    /\ pc = "store session" \/ stats.session = 1
    /\ pc \in Stores => stats.cursor = NilCursor
    /\ pc \in {"store session", "store resumed"} => stats.resumedAt = -1
    /\ pc = "store cursor" => mode = "walk"
    /\ stats.resumedAt \in {-1, start - 1}
    /\ stats.cursor <= start \/ stats.cursor < start + stats.processed

(* The counter that is the place-th to be loaded lies, in the frame being  *)
(* read, between the frame on the screen and what the run has now.         *)
Between(counter, place) ==
    /\ shown[counter] <= stats[counter]
    /\ dash.loads >= place =>
         shown[counter] <= frame[counter] /\ frame[counter] <= stats[counter]

LoadedProcessed == IF dash.loads >= 4 THEN frame.processed ELSE stats.processed

Numbers == [session: Int, resumedAt: Int, cursor: Int,
            processed: Int, valid: Int, hits: Int, errors: Int]

Painted ==
    /\ stats \in Numbers /\ frame \in Numbers /\ shown \in Numbers
    /\ \A place \in DOMAIN Loads : Between(Loads[place], place)
    /\ dash.loads > 0 => dash.pc = "paint" /\ dash.since <= LoadedProcessed
    /\ shown.resumedAt \in {-1, start - 1} /\ frame.resumedAt \in {-1, start - 1}
    /\ frame.resumedAt >= 0 => stats.session = 1
    /\ dash.loads >= 3 /\ frame.resumedAt >= 0 => frame.session = 1
    /\ frame.cursor <= start \/ frame.cursor < start + LoadedProcessed

(* What every step keeps, by LiveProofs: types; that the balances, the     *)
(* tokens and the candidates add up; and that a frame is read in an order  *)
(* in which each number it shows is covered by one that is read later.     *)
IndInv ==
    /\ TypeOK /\ mode \in {"sweep", "walk"} /\ start \in Candidates
    /\ dash \in [pc: DashPcs, loads: Nat, since: Nat]
    /\ Pace /\ Fetching
    /\ OneByOne /\ Counted /\ Stored
    /\ Painted /\ FrameFits
=============================================================================
