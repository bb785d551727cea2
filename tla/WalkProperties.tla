--------------------------- MODULE WalkProperties ---------------------------
(***************************************************************************)
(* What the keyspace walk promises (see KeyspaceWalk).                     *)
(***************************************************************************)
EXTENDS KeyspaceWalk

IsWalk(id) == sessions[id].mode = "walk"

StorageOK ==
    /\ lastId \in Nat /\ DOMAIN sessions = 1 .. lastId
    /\ \A id \in DOMAIN sessions :
         /\ sessions[id] \in Row
         /\ IsWalk(id) <=> sessions[id].sig \in WalkSignatures
         /\ IsWalk(id) => sessions[id].cursor \in Odometers
    /\ attempts \in Seq(Attempt(Odometers))

(* The variables have their types, and the walker never holds more than a  *)
(* batch.                                                                  *)
TypeOK ==
    /\ StorageOK
    /\ pc \in Pcs /\ sig \in WalkSignatures /\ cursor \in Odometers
    /\ sid \in {0} \cup DOMAIN sessions
    /\ outcome \in {"none", "paused", "completed", "error"}
    /\ runs \in 0 .. MaxRuns
    /\ cancelled \in BOOLEAN /\ overflow \in BOOLEAN /\ final \in BOOLEAN
    /\ batch \in Seq(Attempt(Odometers)) /\ Len(batch) <= BatchSize
    /\ starts \subseteq Nat \X Odometers

-----------------------------------------------------------------------------
(* Candidate c of session id has a row; or a run began with it, tried or   *)
(* not.                                                                    *)
Accounted(id, c) == Logged(id, c) \/ <<id, c>> \in starts

(* Every candidate a resume will not come back to has a row, except the    *)
(* first one of a run: BeginSession persists that one before it is tried.  *)
(* So a run that is cancelled or dies loses at most one candidate.         *)
CoveredButStarts ==
    \A id \in DOMAIN sessions :
        IsWalk(id) =>
            \A c \in Upto(ParseCursor(sessions[id].cursor)) : Accounted(id, c)

Untried(id) == {c \in Odometers : ~Logged(id, c)}

(* The session a walk returns from: its own, or the one loadResumable-     *)
(* WalkCursor found at the end of the keyspace.                            *)
EndedSession == IF sid # 0 THEN sid ELSE LatestResumable

(* A walk reported completed may have left candidates out, for a run that  *)
(* is interrupted before its first flush is resumed after the candidate it *)
(* began with.  But it left out no other, and fewer than there were runs:  *)
(* at most one per earlier run, whatever interrupted it.                   *)
CompletedCovered ==
    pc = "returned" /\ outcome = "completed" =>
        /\ \A c \in Untried(EndedSession) : <<EndedSession, c>> \in starts
        /\ Cardinality(Untried(EndedSession)) < runs

(* The persisted cursor of a session never goes back, until it wraps; but  *)
(* BeginSession starts over the walk of a session that is not the latest   *)
(* interrupted one of all (see the README).                                *)
CursorForward ==
    [][\A id \in DOMAIN sessions :
         IsWalk(id) /\ ~overflow
         /\ (pc = "begin" /\ Resumable(id) => LatestResumable = id) =>
            Upto(sessions[id].cursor) \subseteq Upto(sessions'[id].cursor)]_vars

-----------------------------------------------------------------------------
(* The inductive invariant: WalkInv is behind CoveredButStarts, with       *)
(* StartsCounted behind CompletedCovered, CursorAhead behind CursorForward.*)

InBatch(c) == \E k \in DOMAIN batch : batch[k].candidate = c

(* The candidates this run has dealt with are before cursor; while a flush *)
(* from inside the loop is under way, cursor is one of them.               *)
Done(c) ==
    \/ overflow
    \/ Precedes(c, cursor)
    \/ c = cursor /\ pc \in {"insert", "checkpoint"} /\ ~final

Walking == pc \in {"loop", "lookup", "insert", "checkpoint", "end"}

SessionHeld ==
    /\ Walking => /\ sid # 0 /\ sessions[sid].sig = sig
                  /\ sessions[sid].status = "running"
    /\ pc \in {"idle", "fresh", "load", "begin"} => sid = 0
    /\ Walking =>
         \A c \in Odometers : Done(c) => Accounted(sid, c) \/ InBatch(c)

(* A run begins at zero, or after the cursor of the session it will reuse. *)
BeginReady ==
    pc = "begin" =>
      \/ cursor = Zero
      \/ \E id \in ResumableIds(sig) :
           LET last == ParseCursor(sessions[id].cursor)
           IN  ~Overflows(last) /\ cursor = Inc(last)

BatchReady ==
    /\ \A k \in DOMAIN batch : batch[k].session = sid
    /\ pc \in {"loop", "lookup"} => Len(batch) < BatchSize
    /\ pc \in {"loop", "lookup"} =>
         ~final /\ ~overflow /\ (batch # <<>> => cursor # Zero)
    /\ pc \in {"insert", "checkpoint"} =>
         /\ batch # <<>>
         /\ overflow => final
         /\ final /\ ~overflow => cursor # Zero
    /\ pc = "checkpoint" => \A k \in DOMAIN batch : Logged(sid, batch[k].candidate)
    /\ pc \notin {"loop", "lookup", "insert", "checkpoint", "returned"} => batch = <<>>
    /\ overflow => cursor = Zero
    /\ pc \in {"idle", "fresh", "load", "begin"} => ~final /\ ~overflow

CompletedAccounted ==
    pc = "returned" /\ outcome = "completed" /\ sid # 0
        => \A c \in Odometers : Accounted(sid, c)

WalkInv ==
    /\ TypeOK
    /\ CoveredButStarts
    /\ UniqueResumable
    /\ BeginReady
    /\ SessionHeld
    /\ BatchReady
    /\ CompletedAccounted

InLoop == pc \in {"loop", "lookup", "insert", "checkpoint"}

(* The cursor in hand is past the persisted one, and by a flush of the     *)
(* cursor before it still will be; a run takes up the walk of the latest   *)
(* session behind its cursor.                                              *)
CursorAhead ==
    /\ InLoop /\ ~overflow =>
         /\ sessions[sid].cursor \in Upto(cursor)
         /\ batch # <<>> /\ (pc \in {"loop", "lookup"} \/ final) =>
              Precedes(sessions[sid].cursor, cursor)
    /\ pc = "begin" /\ WasResumed => ~Overflows(LastCursor) /\ cursor = Inc(LastCursor)

(* A run begins one session at most, and goes on until it has tried the    *)
(* candidate it began with or is interrupted.                              *)
Started == pc \notin {"fresh", "load", "begin"} /\ ~ (pc = "returned" /\ sid = 0)
FirstTried ==
    \E c \in Odometers :
        /\ <<sid, c>> \in starts
        /\ \/ Logged(sid, c)
           \/ pc # "returned" /\ InBatch(c)
           \/ pc \in {"loop", "lookup", "end"} /\ c = cursor /\ ~overflow /\ batch = <<>>

StartsCounted ==
    /\ IsFiniteSet(starts) /\ Cardinality(starts) <= runs
    /\ ~Started => Cardinality(starts) < runs
    /\ Walking => FirstTried
    /\ pc = "returned" /\ outcome = "completed" =>
         IF sid # 0 THEN FirstTried ELSE WasResumed /\ Overflows(LastCursor)

IndInv == WalkInv /\ CursorAhead /\ StartsCounted

-----------------------------------------------------------------------------
(* KeyspaceWalk as a SequentialWalk.                                       *)

Outcomes ==
    [c \in Odometers |-> IF c \in Valid THEN {Answer(c), "error"} ELSE {"skipped"}]

OpenSession == IF Walking THEN sid ELSE 0
FirstUnwritten ==
    IF ~Walking THEN Zero ELSE IF batch = <<>> THEN cursor ELSE batch[1].candidate
Wrapped == Walking /\ overflow /\ batch = <<>>

(* What the batch in hand is, for the refinement: results the lookups may  *)
(* have had, of consecutive candidates, the last one being cursor while a  *)
(* flush from inside the loop is under way and the one before it else.     *)
(* Only valid candidates are looked up.                                    *)
BatchFollows ==
    /\ pc = "lookup" => cursor \in Valid
    /\ Walking =>
        /\ \A k \in DOMAIN batch : batch[k].res \in Outcomes[batch[k].candidate]
        /\ \A k \in 2 .. Len(batch) :
             /\ ~Overflows(batch[k - 1].candidate)
             /\ batch[k].candidate = Inc(batch[k - 1].candidate)
        /\ batch # <<>> =>
             LET last == batch[Len(batch)].candidate
             IN  IF pc \in {"insert", "checkpoint"} /\ ~final THEN cursor = last
                 ELSE cursor = Inc(last) /\ overflow = Overflows(last)

Sequential == INSTANCE SequentialWalk
    WITH open <- OpenSession, next <- FirstUnwritten, wrapped <- Wrapped

(* Batches that are filled, cut short by a cancellation or by the end of   *)
(* the keyspace, lost in a crash or half written, the step back of the     *)
(* last flush and the resume after any of these do no more to the database *)
(* than a walker that takes one candidate after the other.                 *)
ImplementsWalk == Sequential!Spec

-----------------------------------------------------------------------------
(* When only cancellation and failing lookups disturb the walks of one     *)
(* signature.                                                              *)

Undisturbed ==
    /\ Faults \cap {"database", "crash"} = {}
    /\ Signatures = WalkSignatures /\ \A s, t \in Signatures : s = t

(* The rows of a session ascend: no candidate is tried twice, and none out *)
(* of order, however often the walk is interrupted and resumed.            *)
WalkAscends ==
    \A j, k \in DOMAIN attempts :
        attempts[j].session = attempts[k].session /\ j < k
            => Precedes(attempts[j].candidate, attempts[k].candidate)

(* The batch goes on where the rows end, and the persisted cursor is past  *)
(* the rows but while a flush is under way or the walk has wrapped.        *)
BatchAscends ==
    /\ \A j, k \in DOMAIN batch :
         j < k => Precedes(batch[j].candidate, batch[k].candidate)
    /\ pc # "checkpoint" =>
         \A k \in DOMAIN batch : \A c \in Odometers :
             Logged(sid, c) => Precedes(c, batch[k].candidate)
    /\ InLoop => \A c \in Odometers : Logged(sid, c) \/ InBatch(c) => Done(c)

RowsBehind ==
    /\ \A k \in DOMAIN attempts : attempts[k].session \in DOMAIN sessions
    /\ \A id \in DOMAIN sessions :
         Resumable(id) /\ ~ (id = sid /\ Walking /\ (pc = "checkpoint" \/ overflow)) =>
             \A c \in Odometers : Logged(id, c) => c \in Upto(sessions[id].cursor)

Ascending == WalkAscends /\ BatchAscends /\ RowsBehind

(* A walk nobody cancels goes on to the last candidate and is completed.   *)
(* Every candidate then has a row in its session, but for first ones of    *)
(* earlier runs that were cancelled before their first flush.              *)
WalkExhausts ==
    pc = "loop" ~>
      \/ cancelled
      \/ /\ pc = "returned" /\ outcome = "completed"
         /\ \A c \in Odometers : Accounted(sid, c)
=============================================================================
