-------------------------- MODULE SweepProperties --------------------------
(***************************************************************************)
(* What a position sweep promises (see SweepPipeline).                     *)
(***************************************************************************)
EXTENDS SweepPipeline

Indices(channel) == {channel[k] : k \in DOMAIN channel}

StorageOK ==
    /\ lastId \in Nat /\ DOMAIN sessions = 1 .. lastId
    /\ \A id \in DOMAIN sessions :
         sessions[id] \in Row /\ sessions[id].last \in -1 .. WordlistSize - 1
    /\ attempts \in Seq(Attempt(Idx))

ControlOK ==
    /\ pc \in Pcs /\ sig \in Signatures /\ start \in 0 .. WordlistSize
    /\ sid \in {0} \cup DOMAIN sessions
    /\ outcome \in {"none", "paused", "completed", "error"}
    /\ runs \in 0 .. MaxRuns /\ cancelled \in BOOLEAN

UpstreamOK ==
    /\ gen \in 0 .. WordlistSize
    /\ genErr \in {"running", "nil", "canceled", "template"}
    /\ cand \in Seq(Idx) /\ Len(cand) <= CandidateCap
    /\ hold \in [Workers -> Idx \cup {None, Gone}]
    /\ raw \in Seq(Idx) /\ Len(raw) <= CandidateCap

OrderingOK ==
    /\ next \in 0 .. WordlistSize /\ pending \subseteq Idx
    /\ emitting \in Idx \cup {None} /\ reoDone \in BOOLEAN

CheckingOK ==
    /\ derived \in Seq(Idx) /\ Len(derived) <= BatchSize
    /\ hand \in Seq(Item) /\ Len(hand) <= 1 /\ chkDone \in BOOLEAN
    /\ checked \in Seq(Item) /\ Len(checked) <= BatchSize

LoggingOK ==
    /\ log \in Logs /\ after \in {"select", "drain", "return"}
    /\ batch \in Seq(Item) /\ Len(batch) <= BatchSize
    /\ highest \in Idx \cup {None}
    /\ sawCancel \in BOOLEAN /\ logErr \in BOOLEAN
    /\ stats \in [processed: Nat, valid: Nat, hits: Nat, errors: Nat]

(* The variables have their types, the channels keep to their capacities   *)
(* and the logger never holds more than a batch.                           *)
TypeOK ==
    /\ StorageOK /\ ControlOK /\ UpstreamOK
    /\ OrderingOK /\ CheckingOK /\ LoggingOK

-----------------------------------------------------------------------------
(* What the row of index i may say.                                        *)
Outcomes ==
    [i \in Idx |-> IF i \in Valid THEN {Answer(i), "error"} ELSE {"skipped"}]

Recorded(id, i) ==
    \E k \in DOMAIN attempts :
        /\ attempts[k].session = id /\ attempts[k].candidate = i
        /\ attempts[k].res \in Outcomes[i]

(* Every index a resume will skip has a row, with the answer the lookup    *)
(* of that index gave: the checkpoint never runs ahead of the attempts     *)
(* table, however the derivers race and wherever a run is interrupted      *)
(* (Checkpoint: "all word indices <= wordIndex have been processed").      *)
CheckpointCovered ==
    \A id \in DOMAIN sessions : \A i \in 0 .. sessions[id].last : Recorded(id, i)

(* A row is only ever added beyond the checkpoint of its session: no run   *)
(* redoes what an earlier one committed.                                   *)
NeverRedo ==
    [][\A k \in DOMAIN attempts' \ DOMAIN attempts :
         attempts'[k].candidate > sessions[attempts'[k].session].last]_vars

(* A completed session is history: no later run writes to its row or adds  *)
(* attempts to it.                                                         *)
CompletedIsFinal ==
    [][/\ \A id \in DOMAIN sessions :
            sessions[id].status = "completed" => sessions'[id] = sessions[id]
       /\ \A k \in DOMAIN attempts' \ DOMAIN attempts :
            sessions[attempts'[k].session].status = "running"]_vars

-----------------------------------------------------------------------------
(* The inductive invariant: first what holds whatever happens, behind      *)
(* CheckpointCovered, NeverRedo, UniqueResumable and the implementation of *)
(* ResumableScan.                                                          *)

(* The last index of the session that is committed.                        *)
Committed == IF highest = None THEN start - 1 ELSE highest

Streaming ==
    pc \in {"run", "end", "returned"} /\ sid # 0 /\ start < WordlistSize

(* From the flush back to the reorder stage, the items in flight are the   *)
(* indices after the committed one, in order and without a gap.            *)
InOrder ==
    /\ \A k \in DOMAIN batch : batch[k].idx = Committed + k
    /\ \A k \in DOMAIN checked : checked[k].idx = Committed + Len(batch) + k
    /\ \A k \in DOMAIN hand :
         hand[k].idx = Committed + Len(batch) + Len(checked) + k
    /\ \A k \in DOMAIN derived :
         derived[k] = Committed + Len(batch) + Len(checked) + Len(hand) + k
    /\ next = Committed + Len(batch) + Len(checked) + Len(hand) + Len(derived) + 1
    /\ emitting \in {None, next}

ResultsSound ==
    /\ \A k \in DOMAIN batch : batch[k].res \in Outcomes[batch[k].idx]
    /\ \A k \in DOMAIN checked : checked[k].res \in Outcomes[checked[k].idx]
    /\ \A k \in DOMAIN hand :
         IF hand[k].res = "pending" THEN hand[k].idx \in Valid
         ELSE hand[k].res \in Outcomes[hand[k].idx]

(* The session of the run: its checkpoint is what the run has committed,   *)
(* and nobody else writes to it.                                           *)
SessionHeld ==
    /\ pc \in {"endnow", "run", "end"} =>
         sid # 0 /\ sessions[sid].status = "running" /\ sessions[sid].sig = sig
    /\ pc \in {"idle", "fresh", "resume", "begin"} => sid = 0
    /\ pc = "end" => outcome \in {"paused", "completed"}
    /\ Streaming => sessions[sid].last = Committed /\ Committed >= start - 1
    /\ pc \in {"run", "end"} => start < WordlistSize
    /\ pc = "begin" => start = Resume(sig) + 1
    /\ pc = "endnow" => start = WordlistSize

FlushReady ==
    /\ log \in {"select", "drain"} => Len(batch) < BatchSize
    /\ log \in {"insert", "checkpoint"} => batch # <<>>
    /\ log = "checkpoint" =>
         \A k \in DOMAIN batch : Recorded(sid, batch[k].idx)
    /\ pc # "run" => log = "done"

(* Outside the concurrent part nothing is in flight.                       *)
NothingInFlight ==
    /\ genErr # "running" /\ cand = <<>> /\ raw = <<>>
    /\ \A w \in Workers : hold[w] = Gone
    /\ pending = {} /\ emitting = None /\ reoDone
    /\ derived = <<>> /\ hand = <<>> /\ chkDone /\ checked = <<>>
    /\ batch = <<>> /\ highest = None /\ ~sawCancel /\ ~logErr /\ stats = NoStats

PipelineInv ==
    /\ TypeOK
    /\ CheckpointCovered
    /\ UniqueResumable
    /\ SessionHeld
    /\ FlushReady
    /\ ResultsSound
    /\ IF Streaming THEN InOrder ELSE NothingInFlight

(* Then what a run that is not cancelled keeps on top of that, for         *)
(* UncancelledIsExhausted.  An index that has been generated and not yet   *)
(* emitted is somewhere in between.                                        *)
OnItsWay(i) ==
    \/ i \in Indices(cand) \cup Indices(raw) \cup pending \cup {emitting}
    \/ \E w \in Workers : hold[w] = i

NothingDropped ==
    /\ \A i \in next .. gen - 1 : OnItsWay(i)
    /\ next \notin pending

(* A stage stops once the one before it has, and has left it nothing.      *)
StopInTurn ==
    /\ genErr # "canceled" /\ (genErr = "nil" => gen = WordlistSize)
    /\ (\E w \in Workers : hold[w] = Gone) => genErr # "running" /\ cand = <<>>
    /\ reoDone => /\ emitting = None /\ raw = <<>>
                  /\ \A w \in Workers : hold[w] = Gone
    /\ chkDone => reoDone /\ derived = <<>> /\ hand = <<>>
    /\ ~sawCancel /\ log # "drain" /\ after # "drain"
    /\ after = "return" => chkDone /\ checked = <<>>
    /\ log = "done" => logErr \/ (after = "return" /\ batch = <<>>)

Uncancelled == Streaming /\ ~cancelled => NothingDropped /\ StopInTurn

(* How a run came to its end without an error.                             *)
Concluded ==
    pc \in {"endnow", "end"} \/ (pc = "returned" /\ outcome # "error") =>
        IF Streaming THEN log = "done" /\ genErr # "running" /\ ~RunFailed
        ELSE sid # 0 /\ sessions[sid].last = WordlistSize - 1

IndInv == PipelineInv /\ Uncancelled /\ Concluded

-----------------------------------------------------------------------------
(* SweepPipeline as a ResumableScan: a session is open while Run works on  *)
(* it.                                                                     *)
OpenSession == IF pc \in {"endnow", "run", "end"} THEN sid ELSE 0

Scan == INSTANCE ResumableScan WITH open <- OpenSession

(* All that five racing stages, cancellation, failing statements and       *)
(* crashes do to the database, one sequential scanner could have done.     *)
ImplementsScan == Scan!Spec

-----------------------------------------------------------------------------
(* When no statement fails and no process dies.                            *)

Graceful == Faults \cap {"database", "crash"} = {}

RowsOf(id) == {k \in DOMAIN attempts : attempts[k].session = id}
Before(k) == {j \in RowsOf(attempts[k].session) : j < k}

(* Rows between the two statements of a flush.                             *)
Unmarked(id) == IF id = sid /\ log = "checkpoint" THEN Len(batch) ELSE 0

(* The attempts of a session read 0, 1, 2, ... across all its runs, none   *)
(* twice, none missing, and the checkpoint is the last of them except      *)
(* between the two statements of a flush.                                  *)
LogIsPrefix ==
    /\ \A k \in DOMAIN attempts :
         /\ attempts[k].session \in DOMAIN sessions
         /\ attempts[k].candidate = Cardinality(Before(k))
    /\ \A id \in DOMAIN sessions :
         Cardinality(RowsOf(id)) = sessions[id].last + 1 + Unmarked(id)

(* The rows of this run, and what Counted makes of the items the logger    *)
(* has taken and not yet inserted.                                         *)
Mine == {k \in RowsOf(sid) : attempts[k].candidate >= start}
InBatch(results) ==
    IF log = "checkpoint" THEN 0
    ELSE Cardinality({k \in DOMAIN batch : batch[k].res \in results})

(* The live counters are at every moment what Repository.Stats counts in   *)
(* the rows of this run, and the items in the logger's hands.  There are   *)
(* none when it is done, cancelled or not: then the two agree.             *)
StatsMatchRows ==
    Streaming =>
        /\ stats = [processed |-> StatsOf(Mine).processed + InBatch(Results),
                    valid |-> StatsOf(Mine).valid + InBatch(Results \ {"skipped"}),
                    hits |-> StatsOf(Mine).hits + InBatch({"funded"}),
                    errors |-> StatsOf(Mine).errors + InBatch({"error"})]
        /\ log = "done" => batch = <<>>

(* "completed" is the status of natural exhaustion: a run that ends in it  *)
(* has committed the last word index, "the work IS done".  Cancellation    *)
(* breaks this (see the README); here is what is left of it.               *)
CompletedMeansExhausted ==
    pc = "returned" /\ outcome = "completed"
      => sessions[sid].last = WordlistSize - 1

UncancelledIsExhausted == cancelled \/ CompletedMeansExhausted

-----------------------------------------------------------------------------
(* Liveness.                                                               *)

(* A run returns: no arrangement of full channels, early returns and       *)
(* cancellation leaves Run waiting, as long as the database works.         *)
RunReturns == pc # "idle" ~> pc \in {"idle", "returned"}

(* A run nobody cancels commits the whole wordlist, failing lookups or     *)
(* not.                                                                    *)
RunCompletes ==
    pc = "run" /\ sig \notin BadSignatures
      ~> \/ cancelled
         \/ /\ pc = "returned" /\ outcome = "completed"
            /\ sessions[sid].last = WordlistSize - 1

(* What the documentation says of a run and the code does not do is        *)
(* CompletedMeansExhausted, once a run may be cancelled, and RunReturns,   *)
(* once a statement may fail; the README says what the counterexamples     *)
(* show.                                                                   *)
=============================================================================
