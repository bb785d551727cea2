------------------------ MODULE SequentialWalkProofs ------------------------
(***************************************************************************)
(* KeyspaceWalk implements SequentialWalk: the batch in hand is a stretch  *)
(* of consecutive candidates (BatchFollows), so what a flush writes and    *)
(* moves the cursor over is what a walker without batches could have done. *)
(***************************************************************************)
EXTENDS WalkProofs

-----------------------------------------------------------------------------
(* The batch in hand.                                                      *)

(* A step that leaves the walk's variables alone, or ends the walk.        *)
LEMMA FollowsFrame ==
    ASSUME BatchFollows, pc' = "lookup" => cursor' \in Valid,
           ~Walking' \/ batch' = <<>>
             \/ /\ UNCHANGED <<cursor, overflow, batch>> /\ Walking
                /\ (pc \in {"insert", "checkpoint"} /\ ~final)
                     <=> (pc \in {"insert", "checkpoint"} /\ ~final)'
    PROVE  BatchFollows'
<1>1. CASE batch' = <<>>
  <2>1. DOMAIN batch' = {} /\ Len(batch') = 0
    BY <1>1
  <2> QED
    BY <1>1, <2>1 DEF BatchFollows
<1>2. CASE ~Walking'
  BY <1>2 DEF BatchFollows
<1>3. CASE /\ UNCHANGED <<cursor, overflow, batch>> /\ Walking
           /\ (pc \in {"insert", "checkpoint"} /\ ~final)
                <=> (pc \in {"insert", "checkpoint"} /\ ~final)'
  BY <1>3 DEF BatchFollows
<1> QED
  BY <1>1, <1>2, <1>3

(* One more row: the batch stays a stretch, and begins where it began.     *)
LEMMA TriedFollows ==
    ASSUME WalkInv, BatchFollows, pc \in {"loop", "lookup"},
           NEW res \in Outcomes[cursor], Tried(res)
    PROVE  /\ BatchFollows' /\ Walking'
           /\ batch' # <<>> /\ FirstUnwritten' = FirstUnwritten
<1> DEFINE row == [session |-> sid, candidate |-> cursor, res |-> res]
           rows == Append(batch, row)
<1>1. /\ cursor \in Odometers /\ batch \in Seq(Attempt(Odometers))
      /\ ~final /\ ~overflow /\ Walking
  BY DEF WalkInv, TypeOK, BatchReady, Walking
<1>2. row.candidate = cursor /\ row.res = res
  OBVIOUS
<1> HIDE DEF row
<1>3. /\ rows # <<>> /\ Len(rows) = Len(batch) + 1 /\ Len(batch) \in Nat
      /\ DOMAIN rows = 1 .. Len(batch) + 1 /\ DOMAIN batch = 1 .. Len(batch)
      /\ rows[Len(batch) + 1] = row
      /\ \A k \in 1 .. Len(batch) : rows[k] = batch[k]
  BY <1>1
<1>4. batch' = rows
  BY DEF Tried, row
<1> HIDE DEF rows
<1>5. \A k \in DOMAIN batch' : batch'[k].res \in Outcomes[batch'[k].candidate]
  BY <1>1, <1>2, <1>3, <1>4 DEF BatchFollows
<1>6. ASSUME NEW k \in 2 .. Len(batch')
      PROVE  /\ ~Overflows(batch'[k - 1].candidate)
             /\ batch'[k].candidate = Inc(batch'[k - 1].candidate)
  <2>1. CASE k <= Len(batch)
    BY <1>1, <1>3, <1>4, <2>1 DEF BatchFollows
  <2>2. CASE k = Len(batch) + 1
    <3>1. /\ batch # <<>> /\ k - 1 = Len(batch) /\ batch'[k].candidate = cursor
          /\ batch'[k - 1] = batch[Len(batch)]
      BY <1>2, <1>3, <1>4, <2>2
    <3>2. /\ cursor = Inc(batch[Len(batch)].candidate)
          /\ overflow = Overflows(batch[Len(batch)].candidate)
      BY <1>1, <3>1 DEF BatchFollows
    <3> QED
      BY <1>1, <3>1, <3>2
  <2> QED
    BY <1>3, <1>4, <2>1, <2>2
<1>7. batch'[Len(batch')].candidate = cursor
  BY <1>2, <1>3, <1>4
<1>8. ASSUME Full(rows) PROVE BatchFollows' /\ Walking'
  <2>1. pc' = "insert" /\ UNCHANGED <<cursor, overflow, final>>
    BY <1>8 DEF Tried, rows, row
  <2> QED
    BY <1>1, <1>5, <1>6, <1>7, <2>1 DEF BatchFollows, Walking
<1>9. ASSUME ~Full(rows) PROVE BatchFollows' /\ Walking'
  <2>1. Advance(rows)
    BY <1>9 DEF Tried, rows, row
  <2>2. cursor' = Inc(cursor) /\ overflow' = Overflows(cursor)
    BY <2>1 DEF Advance
  <2>3. \/ pc' = "insert" /\ final' = TRUE
        \/ pc' = "loop"
    BY <1>3, <2>1 DEF Advance, Leave
  <2>4. Walking' /\ pc' # "lookup" /\ ~ (pc \in {"insert", "checkpoint"} /\ ~final)'
    BY <2>3 DEF Walking
  <2> QED
    BY <1>5, <1>6, <1>7, <2>2, <2>4 DEF BatchFollows
<1>10. BatchFollows' /\ Walking'
  BY <1>8, <1>9
<1>11. batch' # <<>> /\ FirstUnwritten' = FirstUnwritten
  <2>1. CASE batch = <<>>
    BY <1>1, <1>2, <1>3, <1>4, <1>10, <2>1 DEF FirstUnwritten
  <2>2. CASE batch # <<>>
    BY <1>1, <1>3, <1>4, <1>10, <2>2 DEF FirstUnwritten
  <2> QED
    BY <2>1, <2>2
<1> QED
  BY <1>10, <1>11

(* A lookup, or none, leaves one of the results of the candidate.          *)
LEMMA OutcomeOfTry ==
    ASSUME WalkInv, BatchFollows, TryInvalid \/ Lookup
    PROVE  \E res \in Outcomes[cursor] : Tried(res)
<1>1. cursor \in Odometers
  BY DEF WalkInv, TypeOK
<1>2. CASE TryInvalid
  <2>1. cursor \notin Valid /\ Tried("skipped")
    BY <1>2 DEF TryInvalid
  <2> QED
    BY <1>1, <2>1 DEF Outcomes
<1>3. CASE Lookup
  <2>1. cursor \in Valid
    BY <1>3 DEF Lookup, BatchFollows
  <2>2. PICK res \in {Answer(cursor), "error"} : Tried(res)
    BY <1>3 DEF Lookup
  <2> QED
    BY <1>1, <2>1, <2>2 DEF Outcomes
<1> QED
  BY <1>2, <1>3

LEMMA InitFollows == Init => BatchFollows
BY DEF Init, BatchFollows, Walking

LEMMA NextFollows == WalkInv /\ BatchFollows /\ [Next]_vars => BatchFollows'
<1> SUFFICES ASSUME WalkInv, BatchFollows, [Next]_vars PROVE BatchFollows'
  OBVIOUS
<1>1. ASSUME NEW s, NEW fresh, Start(s, fresh) PROVE BatchFollows'
  <2>1. pc' \in {"fresh", "load"}
    BY <1>1 DEF Start
  <2> QED
    BY <2>1, FollowsFrame DEF Walking
<1>2. CASE Exit \/ Crash
  <2>1. pc' = "idle"
    BY <1>2 DEF Exit, Crash, BecomeIdle
  <2> QED
    BY <2>1, FollowsFrame DEF Walking
<1>3. CASE Cancel \/ Rest \/ UNCHANGED vars
  <2>1. UNCHANGED <<pc, cursor, overflow, final, batch>>
    BY <1>3 DEF Cancel, Rest, vars, control, walking
  <2> QED
    BY <2>1 DEF BatchFollows, Walking
<1>4. ASSUME NEW s, NEW meta, NEW now, OtherSweep(s, meta, now) PROVE BatchFollows'
  <2>1. pc = "idle" /\ pc' = pc
    BY <1>4 DEF OtherSweep
  <2> QED
    BY <2>1, FollowsFrame DEF Walking
<1>5. CASE ClearPaused \/ LoadCursor \/ LoadExhausted \/ StartupError \/ WriteError \/ EndWalk
  <2>1. pc' \in {"load", "begin", "returned"}
    BY <1>5 DEF ClearPaused, LoadCursor, LoadExhausted, StartupError, WriteError, EndWalk
  <2> QED
    BY <2>1, FollowsFrame DEF Walking
<1>6. ASSUME NEW meta, NEW now, Begin(meta, now) PROVE BatchFollows'
  <2>1. batch = <<>> /\ batch' = batch /\ pc' = "loop"
    BY <1>6 DEF Begin, walking, WalkInv, BatchReady
  <2> QED
    BY <2>1, FollowsFrame
<1>7. CASE LoopCancelled \/ TryValid
  <2>1. /\ pc = "loop" /\ UNCHANGED <<cursor, overflow, batch>>
        /\ ~ (pc \in {"insert", "checkpoint"} /\ ~final)'
        /\ pc' = "lookup" => cursor' \in Valid
    BY <1>7 DEF LoopCancelled, Leave, TryValid, walking
  <2> QED
    BY <2>1, FollowsFrame DEF Walking
<1>8. CASE TryInvalid \/ Lookup
  <2>1. pc \in {"loop", "lookup"}
    BY <1>8 DEF TryInvalid, Lookup
  <2> QED
    BY <1>8, <2>1, OutcomeOfTry, TriedFollows
<1>9. CASE FlushInsert
  <2>1. /\ pc = "insert" /\ pc' = "checkpoint"
        /\ UNCHANGED <<cursor, overflow, batch, final>>
    BY <1>9 DEF FlushInsert, walking
  <2> QED
    BY <2>1, FollowsFrame DEF Walking
<1>10. CASE FlushCheckpoint
  <2>1. batch' = <<>> /\ pc' # "lookup"
    BY <1>10 DEF FlushCheckpoint, Advance, Leave
  <2> QED
    BY <2>1, FollowsFrame
<1> QED
  BY <1>1, <1>2, <1>3, <1>4, <1>5, <1>6, <1>7, <1>8, <1>9, <1>10 DEF Next, Walk

-----------------------------------------------------------------------------
(* The steps of a walk as steps of SequentialWalk.                         *)

(* The two modules mean the same by the cursor operators.                  *)
LEMMA SameCursor ==
    /\ Sequential!Odometers = Odometers /\ Sequential!Zero = Zero
    /\ \A c : /\ Sequential!Inc(c) = Inc(c)
             /\ Sequential!Overflows(c) <=> Overflows(c)
             /\ Sequential!String(c) = String(c)
             /\ Sequential!ParseCursor(c) = ParseCursor(c)
<1> USE DEF Slots, Digits, Sequential!Slots, Sequential!Digits
<1>1. Sequential!Odometers = Odometers /\ Sequential!Zero = Zero
  BY DEF Odometers, Sequential!Odometers, Zero, Sequential!Zero
<1>2. ASSUME NEW c
      PROVE  /\ Sequential!Inc(c) = Inc(c)
             /\ Sequential!Overflows(c) <=> Overflows(c)
             /\ Sequential!String(c) = String(c)
  BY Zenon DEF Inc, Sequential!Inc, Overflows, Sequential!Overflows, String, Sequential!String
<1>3. ASSUME NEW c PROVE Sequential!ParseCursor(c) = ParseCursor(c)
  BY <1>1, Zenon DEF ParseCursor, Sequential!ParseCursor
<1> QED
  BY <1>1, <1>2, <1>3, Zenon

(* A step that leaves the store alone stutters, or abandons the session.   *)
LEMMA SequentialKeeps ==
    ASSUME UNCHANGED storage,
           ~Walking' \/ UNCHANGED <<OpenSession, FirstUnwritten, Wrapped>>
    PROVE  [Sequential!Next]_(Sequential!progress)
<1>1. CASE ~Walking'
  <2>1. OpenSession' = 0 /\ FirstUnwritten' = Sequential!Zero /\ Wrapped' = FALSE
    BY <1>1, SameCursor DEF OpenSession, FirstUnwritten, Wrapped
  <2>2. Sequential!Abandon
    BY <2>1 DEF Sequential!Abandon, Sequential!Closed, Sequential!storage, storage
  <2> QED
    BY <2>2 DEF Sequential!Next
<1>2. CASE UNCHANGED <<OpenSession, FirstUnwritten, Wrapped>>
  BY <1>2 DEF Sequential!progress, Sequential!storage, storage
<1> QED
  BY <1>1, <1>2

(* The batch of a flush, as a stretch that begins where the walker is.     *)
LEMMA FlushStretch ==
    ASSUME WalkInv, BatchFollows, pc \in {"insert", "checkpoint"},
           NEW n, n = Len(batch), NEW c, c = [k \in 1 .. n |-> batch[k].candidate]
    PROVE  /\ OpenSession = sid /\ sid # 0 /\ n \in 1 .. BatchSize
           /\ c \in Sequential!Stretches(FirstUnwritten, n)
           /\ c[n] \in Odometers
           /\ \A k \in 1 .. n : /\ batch[k] = [session |-> sid, candidate |-> c[k],
                                              res |-> batch[k].res]
                                /\ batch[k].res \in Outcomes[c[k]] \cap Results
           /\ IF ~final THEN cursor = c[n]
              ELSE cursor = Inc(c[n]) /\ overflow = Overflows(c[n])
<1>1. /\ Walking /\ batch # <<>> /\ sid # 0
      /\ batch \in Seq(Attempt(Odometers)) /\ Len(batch) <= BatchSize
      /\ \A k \in DOMAIN batch : batch[k].session = sid
  BY DEF WalkInv, TypeOK, SessionHeld, BatchReady, Walking
<1>2. /\ n \in 1 .. BatchSize /\ DOMAIN batch = 1 .. n
      /\ \A k \in 1 .. n : batch[k] \in Attempt(Odometers) /\ batch[k].session = sid
  BY <1>1, BatchAssumption
<1>3. /\ c \in [1 .. n -> Odometers]
      /\ \A k \in 1 .. n : c[k] = batch[k].candidate
  BY <1>2 DEF Attempt
<1>4. c[1] = FirstUnwritten
  BY <1>1, <1>2, <1>3 DEF FirstUnwritten
<1>5. \A k \in 2 .. n : ~Overflows(c[k - 1]) /\ c[k] = Inc(c[k - 1])
  BY <1>1, <1>2, <1>3 DEF BatchFollows
<1>6. c \in Sequential!Stretches(FirstUnwritten, n)
  <2>1. \A k \in 2 .. n : ~Sequential!Overflows(c[k - 1]) /\ c[k] = Sequential!Inc(c[k - 1])
    BY <1>5, Zenon DEF Overflows, Sequential!Overflows, Inc, Sequential!Inc,
       Slots, Sequential!Slots
  <2>2. c \in [1 .. n -> Sequential!Odometers]
    BY <1>3, SameCursor
  <2> QED
    BY <1>4, <2>1, <2>2 DEF Sequential!Stretches
<1>7. ASSUME NEW k \in 1 .. n
      PROVE  /\ batch[k] = [session |-> sid, candidate |-> c[k], res |-> batch[k].res]
             /\ batch[k].res \in Outcomes[c[k]] \cap Results
  BY <1>1, <1>2, <1>3, <1>7 DEF BatchFollows, Attempt
<1>8. IF ~final THEN cursor = c[n] ELSE cursor = Inc(c[n]) /\ overflow = Overflows(c[n])
  BY <1>1, <1>2, <1>3 DEF BatchFollows
<1> QED
  BY <1>1, <1>2, <1>3, <1>6, <1>7, <1>8 DEF OpenSession

LEMMA SequentialRecords ==
    ASSUME WalkInv, BatchFollows, FlushInsert PROVE Sequential!Record
<1> DEFINE n == Len(batch)
           c == [k \in 1 .. n |-> batch[k].candidate]
           res == [k \in 1 .. n |-> batch[k].res]
<1>1. /\ pc = "insert" /\ pc' = "checkpoint" /\ attempts' = attempts \o batch
      /\ UNCHANGED <<sessions, lastId, sid, cursor, overflow, batch>>
  BY DEF FlushInsert, InsertAttempts, walking
<1>2. /\ OpenSession = sid /\ sid # 0 /\ n \in 1 .. BatchSize
      /\ c \in Sequential!Stretches(FirstUnwritten, n)
      /\ \A k \in 1 .. n : /\ batch[k] = [session |-> sid, candidate |-> c[k],
                                         res |-> batch[k].res]
                           /\ batch[k].res \in Outcomes[c[k]] \cap Results
  BY <1>1, FlushStretch
<1>3. res \in [1 .. n -> Results] /\ \A k \in 1 .. n : res[k] \in Outcomes[c[k]]
  BY <1>2
<1>4. batch = [k \in 1 .. n |-> [session |-> sid, candidate |-> c[k], res |-> res[k]]]
  <2>1. batch = [k \in 1 .. n |-> batch[k]]
    BY DEF WalkInv, TypeOK
  <2>2. \A k \in 1 .. n : batch[k] = [session |-> sid, candidate |-> c[k], res |-> res[k]]
    BY <1>2
  <2> HIDE DEF c, res, n
  <2> QED
    BY <2>1, <2>2
<1>5. UNCHANGED <<OpenSession, FirstUnwritten, Wrapped>>
  BY <1>1 DEF OpenSession, FirstUnwritten, Wrapped, Walking
<1>6. Results = Sequential!Results
  BY DEF Results, Sequential!Results
<1> HIDE DEF c, res, n
<1>7. Sequential!InsertAttempts([k \in 1 .. n |->
                [session |-> OpenSession, candidate |-> c[k], res |-> res[k]]])
  BY <1>1, <1>2, <1>4 DEF Sequential!InsertAttempts
<1> QED
  BY <1>2, <1>3, <1>5, <1>6, <1>7 DEF Sequential!Record

LEMMA SequentialAdvances ==
    ASSUME WalkInv, BatchFollows, FlushCheckpoint PROVE Sequential!Advance
<1> DEFINE n == Len(batch)
           c == [k \in 1 .. n |-> batch[k].candidate]
<1>1. /\ pc = "checkpoint" /\ batch' = <<>> /\ UNCHANGED sid
      /\ CheckpointCursor(sid, String(FlushCursor))
      /\ IF final THEN pc' = "end" /\ UNCHANGED <<cursor, overflow>>
         ELSE cursor' = Inc(cursor) /\ overflow' = Overflows(cursor)
              /\ pc' \in {"end", "loop"}
  BY DEF FlushCheckpoint, Advance, Leave
<1>2. /\ OpenSession = sid /\ sid # 0 /\ n \in 1 .. BatchSize
      /\ c \in Sequential!Stretches(FirstUnwritten, n)
      /\ c[n] \in Odometers
      /\ \A k \in 1 .. n : batch[k] = [session |-> sid, candidate |-> c[k],
                                      res |-> batch[k].res]
      /\ IF ~final THEN cursor = c[n]
         ELSE cursor = Inc(c[n]) /\ overflow = Overflows(c[n])
  BY <1>1, FlushStretch
<1>3. ASSUME NEW k \in 1 .. n PROVE Sequential!Logged(sid, c[k])
  <2>1. Logged(sid, batch[k].candidate)
    BY <1>1, <1>2 DEF WalkInv, BatchReady, TypeOK
  <2> QED
    BY <2>1 DEF Logged, Sequential!Logged
<1> HIDE DEF c, n
<1>4. Walking' /\ OpenSession' = OpenSession
  BY <1>1, <1>2 DEF Walking, OpenSession
<1>5. FirstUnwritten' = Inc(c[n]) /\ Wrapped' = Overflows(c[n])
  <2>1. FirstUnwritten' = cursor' /\ Wrapped' = overflow'
    <3>1. overflow' \in BOOLEAN
      BY <1>1 DEF WalkInv, TypeOK, Overflows
    <3> QED
      BY <1>1, <1>4, <3>1 DEF FirstUnwritten, Wrapped
  <2> QED
    BY <1>1, <1>2, <2>1
<1>6. \/ FlushCursor = c[n]
      \/ Overflows(c[n]) /\ FlushCursor = Zero
  <2>1. CASE ~final
    BY <1>2, <2>1 DEF FlushCursor
  <2>2. CASE final /\ overflow
    BY <1>2, <2>2, OverflowWraps DEF FlushCursor
  <2>3. CASE final /\ ~overflow
    BY <1>2, <2>3, DecUndoesInc DEF FlushCursor
  <2> QED
    BY <2>1, <2>2, <2>3
<1>7. \/ Sequential!CheckpointCursor(sid, Sequential!String(c[n]))
      \/ /\ Sequential!Overflows(c[n])
         /\ Sequential!CheckpointCursor(sid, Sequential!String(Sequential!Zero))
  <2>1. /\ Sequential!String(c[n]) = String(c[n])
        /\ Sequential!String(Sequential!Zero) = String(Zero)
    BY Zenon DEF String, Sequential!String, Zero, Sequential!Zero, Slots, Sequential!Slots
  <2>2. Sequential!Overflows(c[n]) <=> Overflows(c[n])
    BY Zenon DEF Overflows, Sequential!Overflows, Slots, Sequential!Slots
  <2>3. /\ CheckpointCursor(sid, String(c[n]))
             <=> Sequential!CheckpointCursor(sid, String(c[n]))
        /\ CheckpointCursor(sid, String(Zero))
             <=> Sequential!CheckpointCursor(sid, String(Zero))
    BY Zenon DEF CheckpointCursor, Sequential!CheckpointCursor
  <2>4. \/ CheckpointCursor(sid, String(c[n]))
        \/ Overflows(c[n]) /\ CheckpointCursor(sid, String(Zero))
    BY <1>1, <1>6, Zenon
  <2> QED
    BY <2>1, <2>2, <2>3, <2>4, Zenon
<1>8. FirstUnwritten' = Sequential!Inc(c[n]) /\ Wrapped' = Sequential!Overflows(c[n])
  BY <1>5, Zenon DEF Overflows, Sequential!Overflows, Inc, Sequential!Inc,
     Slots, Sequential!Slots
<1> QED
  BY <1>2, <1>3, <1>4, <1>7, <1>8 DEF Sequential!Advance

(* The steps of Walk on the sessions table, and a sweep's.                 *)
LEMMA SameBegin ==
    ASSUME NEW init, NEW now, BeginSession(init, now)
    PROVE  Sequential!BeginSession(init, now)
<1> USE DEF Resumable, ResumableIds, LatestId, BeginSessionId, Sequential!Resumable,
            Sequential!ResumableIds, Sequential!LatestId, Sequential!BeginSessionId
<1>1. /\ ResumableIds(init.sig) = Sequential!ResumableIds(init.sig)
      /\ BeginSessionId(init.sig) = Sequential!BeginSessionId(init.sig)
  BY Zenon
<1>2. InsertSession(init, now) => Sequential!InsertSession(init, now)
  BY Zenon DEF InsertSession, Sequential!InsertSession, NewRow, Sequential!NewRow
<1>3. \A id : ReuseSession(id, init) => Sequential!ReuseSession(id, init)
  BY Zenon DEF ReuseSession, Sequential!ReuseSession
<1> HIDE DEF Resumable, ResumableIds, LatestId, BeginSessionId, Sequential!Resumable,
             Sequential!ResumableIds, Sequential!LatestId, Sequential!BeginSessionId
<1> QED
  BY <1>1, <1>2, <1>3, Zenon DEF BeginSession, Sequential!BeginSession

LEMMA SequentialBegins ==
    ASSUME WalkInv, NEW meta \in Metas, NEW now \in Clock, Begin(meta, now)
    PROVE  Sequential!Open(sig, meta, now)
<1> USE DEF Resumable, ResumableIds, LatestId, BeginSessionId, Sequential!Resumable,
            Sequential!ResumableIds, Sequential!LatestId, Sequential!BeginSessionId
<1>1. /\ pc = "begin" /\ pc' = "loop" /\ batch = <<>> /\ ~overflow
      /\ UNCHANGED <<cursor, batch, overflow>> /\ sid' = BeginSessionId(sig)
      /\ BeginSession([sig |-> sig, meta |-> meta, mode |-> "walk",
                       cursor |-> String(cursor)], now)
  BY DEF Begin, walking, WalkInv, BatchReady
<1>2. /\ OpenSession = 0 /\ OpenSession' = BeginSessionId(sig)
      /\ FirstUnwritten' = cursor /\ UNCHANGED Wrapped
  BY <1>1 DEF OpenSession, FirstUnwritten, Wrapped, Walking
<1>3. \/ cursor = Sequential!Zero
      \/ \E id \in Sequential!ResumableIds(sig) :
           LET last == Sequential!ParseCursor(sessions[id].cursor)
           IN  ~Sequential!Overflows(last) /\ cursor = Sequential!Inc(last)
  <2>1. \/ cursor = Zero
        \/ \E id \in ResumableIds(sig) :
             LET last == ParseCursor(sessions[id].cursor)
             IN  ~Overflows(last) /\ cursor = Inc(last)
    BY <1>1 DEF WalkInv, BeginReady
  <2>2. Zero = Sequential!Zero /\ ResumableIds(sig) = Sequential!ResumableIds(sig)
    BY SameCursor, Zenon
  <2>3. ASSUME NEW id \in ResumableIds(sig), NEW last,
               last = ParseCursor(sessions[id].cursor),
               ~Overflows(last), cursor = Inc(last)
        PROVE  /\ id \in Sequential!ResumableIds(sig)
               /\ last = Sequential!ParseCursor(sessions[id].cursor)
               /\ ~Sequential!Overflows(last) /\ cursor = Sequential!Inc(last)
    <3>1. id \in Sequential!ResumableIds(sig)
      BY <2>2, <2>3, Zenon
    <3>2. last = Sequential!ParseCursor(sessions[id].cursor)
      BY <2>2, <2>3, Zenon DEF ParseCursor, Sequential!ParseCursor
    <3>3. ~Sequential!Overflows(last) /\ cursor = Sequential!Inc(last)
      BY <2>3, Zenon DEF Overflows, Sequential!Overflows, Inc, Sequential!Inc,
         Slots, Sequential!Slots
    <3> QED
      BY <3>1, <3>2, <3>3
  <2> QED
    BY <2>1, <2>2, <2>3, Zenon
<1>4. Sequential!BeginSession([sig |-> sig, meta |-> meta, mode |-> "walk",
                               cursor |-> Sequential!String(cursor)], now)
  <2>1. Sequential!String(cursor) = String(cursor)
    BY Zenon DEF String, Sequential!String, Slots, Sequential!Slots
  <2> QED
    BY <1>1, <2>1, SameBegin
<1> QED
  BY <1>2, <1>3, <1>4 DEF Sequential!Open

LEMMA SequentialRetires ==
    ASSUME ClearPaused PROVE Sequential!Retire(sig)
<1>1. OpenSession = 0 /\ UNCHANGED <<OpenSession, FirstUnwritten, Wrapped>>
  BY DEF ClearPaused, OpenSession, FirstUnwritten, Wrapped, Walking
<1> QED
  BY <1>1 DEF ClearPaused, Sequential!Retire, MarkPausedAsCompleted,
     Sequential!MarkPausedAsCompleted, Resumable, ResumableIds, Sequential!Resumable,
     Sequential!ResumableIds

LEMMA SequentialCloses ==
    ASSUME WalkInv, EndWalk PROVE Sequential!Close
<1>1. /\ pc = "end" /\ pc' = "returned" /\ EndSession(sid, FinalStatus)
      /\ batch = <<>> /\ sid # 0
  BY DEF EndWalk, WalkInv, BatchReady, SessionHeld, Walking
<1>2. OpenSession = sid /\ Wrapped = overflow
  BY <1>1 DEF OpenSession, Wrapped, Walking, WalkInv, TypeOK
<1>3. OpenSession' = 0 /\ FirstUnwritten' = Sequential!Zero /\ Wrapped' = FALSE
  BY <1>1, SameCursor DEF OpenSession, FirstUnwritten, Wrapped, Walking
<1> QED
  BY <1>1, <1>2, <1>3 DEF Sequential!Close, Sequential!Closed, EndSession,
     Sequential!EndSession, FinalStatus

LEMMA SequentialSweeps ==
    ASSUME NEW s, NEW meta, NEW now, OtherSweep(s, meta, now)
    PROVE  Sequential!Sweep(s, meta, now)
<1>1. OpenSession = 0 /\ UNCHANGED <<OpenSession, FirstUnwritten, Wrapped>>
  BY DEF OtherSweep, OpenSession, FirstUnwritten, Wrapped, Walking
<1> QED
  BY <1>1, SameBegin DEF OtherSweep, Sequential!Sweep, NoCursor, Sequential!NoCursor

LEMMA SequentialStep ==
    ASSUME WalkInv, BatchFollows, [Next]_vars
    PROVE  [Sequential!Next]_(Sequential!progress)
<1>1. CASE UNCHANGED vars \/ Rest \/ Cancel
  <2>1. UNCHANGED <<storage, pc, sid, cursor, batch, overflow>>
    BY <1>1 DEF Rest, Cancel, vars, control, walking
  <2> QED
    BY <2>1, SequentialKeeps DEF OpenSession, FirstUnwritten, Wrapped, Walking
<1>2. ASSUME NEW s0, NEW fresh, Start(s0, fresh) PROVE [Sequential!Next]_(Sequential!progress)
  BY <1>2, SequentialKeeps DEF Start, Walking
<1>3. CASE LoadCursor \/ LoadExhausted \/ StartupError \/ WriteError \/ Exit \/ Crash
  BY <1>3, SequentialKeeps
     DEF LoadCursor, LoadExhausted, StartupError, WriteError, Exit, Crash, BecomeIdle, Walking
<1>4. CASE LoopCancelled \/ TryValid
  <2>1. /\ UNCHANGED <<storage, sid, cursor, batch, overflow>>
        /\ Walking /\ Walking'
    BY <1>4 DEF LoopCancelled, Leave, TryValid, walking, Walking
  <2> QED
    BY <2>1, SequentialKeeps DEF OpenSession, FirstUnwritten, Wrapped
<1>5. CASE TryInvalid \/ Lookup
  <2>1. pc \in {"loop", "lookup"} /\ UNCHANGED <<storage, sid>>
    BY <1>5 DEF TryInvalid, Lookup
  <2>2. ~overflow /\ Walking
    BY <2>1 DEF WalkInv, BatchReady, Walking
  <2>3. Walking' /\ batch' # <<>> /\ FirstUnwritten' = FirstUnwritten
    BY <1>5, <2>1, OutcomeOfTry, TriedFollows
  <2>4. UNCHANGED <<OpenSession, Wrapped>>
    BY <2>1, <2>2, <2>3 DEF OpenSession, Wrapped
  <2> QED
    BY <2>1, <2>3, <2>4, SequentialKeeps
<1>6. CASE FlushInsert
  BY <1>6, SequentialRecords DEF Sequential!Next
<1>7. CASE FlushCheckpoint
  BY <1>7, SequentialAdvances DEF Sequential!Next
<1>8. CASE ClearPaused
  <2>1. sig \in WalkSignatures
    BY DEF WalkInv, TypeOK
  <2> QED
    BY <1>8, <2>1, SequentialRetires DEF Sequential!Next
<1>9. ASSUME NEW meta \in Metas, NEW now \in Clock, Begin(meta, now)
      PROVE  Sequential!Next
  <2>1. sig \in WalkSignatures
    BY DEF WalkInv, TypeOK
  <2> QED
    BY <1>9, <2>1, SequentialBegins DEF Sequential!Next
<1>10. CASE EndWalk
  BY <1>10, SequentialCloses DEF Sequential!Next
<1>11. ASSUME NEW s \in Signatures \ WalkSignatures, NEW meta \in Metas, NEW now \in Clock,
              OtherSweep(s, meta, now)
       PROVE  Sequential!Next
  BY <1>11, SequentialSweeps DEF Sequential!Next
<1> QED
  BY <1>1, <1>2, <1>3, <1>4, <1>5, <1>6, <1>7, <1>8, <1>9, <1>10, <1>11 DEF Next, Walk

(* Every history of walks, crashed and resumed, as far as the database can *)
(* tell, is one of a walker that takes one candidate after the other.      *)
THEOREM WalkImplementsSequential == Spec => ImplementsWalk
<1>1. Init => Sequential!Init
  BY SameCursor DEF Init, OpenSession, FirstUnwritten, Wrapped, Walking, StorageInit,
     Sequential!Init, Sequential!Closed, Sequential!StorageInit
<1>2. Spec => []BatchFollows
  BY InitFollows, NextFollows, WalkKeepsInv, PTL DEF Spec
<1>3. WalkInv /\ BatchFollows /\ [Next]_vars => [Sequential!Next]_(Sequential!progress)
  BY SequentialStep
<1> QED
  BY <1>1, <1>2, <1>3, WalkKeepsInv, PTL DEF Spec, ImplementsWalk, Sequential!Spec
=============================================================================
