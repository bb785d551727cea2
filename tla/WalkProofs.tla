----------------------------- MODULE WalkProofs -----------------------------
(***************************************************************************)
(* Proofs about the keyspace walk (see WalkProperties): the inductive      *)
(* invariant WalkInv, and from it that a resume skips at most the first     *)
(* candidate of a run, for every length and base of the cursor, every      *)
(* batch size and every combination of faults.                             *)
(***************************************************************************)
EXTENDS WalkProperties, CursorProofs, RepositoryProofs, SequenceTheorems,
        FiniteSetTheorems

(* A cursor's text is read back as the cursor.                             *)
LEMMA CursorText ==
    ASSUME NEW c \in Odometers
    PROVE  String(c) = c /\ ParseCursor(c) = c
<1>1. c = [i \in Slots |-> c[i]] /\ DOMAIN c = Slots /\ 1 \in Slots
  BY CursorAssumption DEF Odometers, Slots
<1>2. String(c) = c
  BY <1>1 DEF String
<1>3. c # <<>>
  <2>1. DOMAIN c # {}
    BY <1>1
  <2>2. DOMAIN <<>> = {}
    OBVIOUS
  <2> QED
    BY <2>1, <2>2, Zenon
<1> QED
  BY <1>2, <1>3 DEF ParseCursor

LEMMA TableFromType == StorageOK => TableOK
BY DEF StorageOK, TableOK

-----------------------------------------------------------------------------
(* The latest resumable session.                                           *)

(* Of finitely many ids with a time each there is a youngest, the highest  *)
(* id among those of one time.                                             *)
LEMMA YoungestExists ==
    ASSUME NEW n \in Nat, NEW S, S \subseteq 1 .. n, S # {}, NEW T \in [S -> Nat]
    PROVE  \E m \in S : \A x \in S : T[x] < T[m] \/ (T[x] = T[m] /\ x <= m)
<1> DEFINE Top(k, m) == /\ m \in S /\ m <= k
                        /\ \A x \in S : x <= k => T[x] < T[m] \/ (T[x] = T[m] /\ x <= m)
           B == {k \in Nat : (\E x \in S : x <= k) /\ ~ \E m \in S : Top(k, m)}
<1>1. \A x \in S : x \in Nat /\ x >= 1 /\ x <= n /\ T[x] \in Nat
  OBVIOUS
<1>2. SUFFICES B = {}
  <2>1. ASSUME B = {} PROVE \E m \in S : Top(n, m)
    <3>1. \E x \in S : x <= n
      BY <1>1
    <3> QED
      BY <2>1, <3>1
  <2> QED
    BY <1>1, <2>1
<1>3. SUFFICES ASSUME B # {} PROVE FALSE
  OBVIOUS
<1>4. PICK k \in B : \A j \in B : ~ (<<j, k>> \in OpToRel(<, Nat))
  <2>1. B \subseteq Nat
    OBVIOUS
  <2> HIDE DEF B
  <2> QED
    BY <1>3, <2>1, WFMin, NatLessThanWellFounded
<1>5. k \in Nat /\ (\E x \in S : x <= k) /\ \A m \in S : ~Top(k, m)
  BY <1>4
<1>6. k - 1 \in Nat
  BY <1>1, <1>5
<1>7. k - 1 \notin B
  <2>1. <<k - 1, k>> \in OpToRel(<, Nat)
    BY <1>5, <1>6 DEF OpToRel
  <2> HIDE DEF B
  <2> QED
    BY <1>4, <2>1
<1>8. CASE \E x \in S : x <= k - 1
  <2>1. PICK m \in S : Top(k - 1, m)
    BY <1>6, <1>7, <1>8
  <2>2. m <= k
    BY <1>1, <1>5, <2>1
  <2>3. CASE k \in S /\ (T[m] < T[k] \/ T[m] = T[k])
    <3>1. ASSUME NEW x \in S, x <= k PROVE T[x] < T[k] \/ (T[x] = T[k] /\ x <= k)
      <4>1. CASE x = k
        BY <1>1, <4>1
      <4>2. CASE x <= k - 1
        BY <1>1, <2>1, <2>3, <4>2
      <4> QED
        BY <1>1, <1>5, <3>1, <4>1, <4>2
    <3>2. Top(k, k)
      BY <1>5, <2>3, <3>1
    <3> QED
      BY <1>5, <2>3, <3>2
  <2>4. CASE ~ (k \in S /\ (T[m] < T[k] \/ T[m] = T[k]))
    <3>1. ASSUME NEW x \in S, x <= k PROVE T[x] < T[m] \/ (T[x] = T[m] /\ x <= m)
      <4>1. CASE x = k
        BY <1>1, <2>4, <4>1
      <4>2. CASE x <= k - 1
        BY <2>1, <4>2
      <4> QED
        BY <1>1, <1>5, <3>1, <4>1, <4>2
    <3>2. Top(k, m)
      BY <2>2, <3>1
    <3> QED
      BY <1>5, <3>2
  <2> QED
    BY <2>3, <2>4
<1>9. CASE ~ \E x \in S : x <= k - 1
  <2>1. \A x \in S : x <= k => x = k
    BY <1>1, <1>5, <1>9
  <2>2. k \in S
    BY <1>5, <2>1
  <2>3. Top(k, k)
    BY <1>1, <1>5, <2>1, <2>2
  <2> QED
    BY <1>5, <2>2, <2>3
<1> QED
  BY <1>8, <1>9

LEMMA LatestExists ==
    ASSUME TableOK, SomeResumable
    PROVE  LatestResumable \in DOMAIN sessions /\ Resumable(LatestResumable)
<1> DEFINE R == {id \in DOMAIN sessions : Resumable(id)}
           T == [id \in R |-> sessions[id].startedAt]
<1>1. /\ R \subseteq 1 .. lastId /\ lastId \in Nat /\ R # {}
      /\ T \in [R -> Nat]
  BY DEF TableOK, Row, SomeResumable
<1>2. PICK m \in R : \A x \in R : T[x] < T[m] \/ (T[x] = T[m] /\ x <= m)
  <2> HIDE DEF R, T
  <2> QED
    BY <1>1, YoungestExists
<1>3. /\ Resumable(m) /\ m \in DOMAIN sessions
      /\ \A other \in DOMAIN sessions :
           Resumable(other) =>
             \/ sessions[other].startedAt < sessions[m].startedAt
             \/ sessions[other].startedAt = sessions[m].startedAt /\ other <= m
  BY <1>2
<1> QED
  BY <1>3, Zenon DEF LatestResumable

-----------------------------------------------------------------------------
(* Steps that leave the database alone.                                    *)

LEMMA InitInv == Init => WalkInv
<1> SUFFICES ASSUME Init PROVE WalkInv
  OBVIOUS
<1>1. /\ sessions = [id \in {} |-> {}] /\ attempts = <<>> /\ lastId = 0
      /\ pc = "idle" /\ sig \in WalkSignatures /\ sid = 0 /\ outcome = "none"
      /\ runs = 0 /\ cancelled = FALSE
      /\ cursor = Zero /\ overflow = FALSE /\ final = FALSE /\ batch = <<>>
      /\ starts = {}
  BY DEF Init, StorageInit
<1>2. DOMAIN sessions = {}
  BY <1>1
<1>3. StorageOK
  BY <1>1, <1>2 DEF StorageOK
<1>4. TypeOK
  <2>1. cancelled \in BOOLEAN /\ overflow \in BOOLEAN /\ final \in BOOLEAN
    BY <1>1, Zenon
  <2>2. batch \in Seq(Attempt(Odometers)) /\ Len(batch) <= BatchSize
    BY <1>1, BatchAssumption
  <2> QED
    BY <1>1, <1>3, <2>1, <2>2, ZeroType, WalkRunsAssumption DEF TypeOK, Pcs
<1>5. CoveredButStarts /\ UniqueResumable
  BY <1>2 DEF CoveredButStarts, UniqueResumable
<1>6. BeginReady /\ SessionHeld /\ CompletedAccounted
  BY <1>1 DEF BeginReady, SessionHeld, CompletedAccounted, Walking
<1>7. BatchReady
  BY <1>1 DEF BatchReady
<1> QED
  BY <1>4, <1>5, <1>6, <1>7 DEF WalkInv

LEMMA StorageFrame ==
    ASSUME StorageOK, CoveredButStarts, UniqueResumable, UNCHANGED <<storage, starts>>
    PROVE  /\ StorageOK' /\ CoveredButStarts' /\ UniqueResumable'
           /\ \A id, c : Accounted(id, c) => Accounted(id, c)'
           /\ \A id, c : Logged(id, c) => Logged(id, c)'
<1>1. sessions' = sessions /\ attempts' = attempts /\ lastId' = lastId /\ starts' = starts
  BY DEF storage
<1>2. StorageOK'
  BY <1>1 DEF StorageOK, IsWalk
<1>3. CoveredButStarts'
  BY <1>1 DEF CoveredButStarts, IsWalk, Accounted, Logged
<1>4. UniqueResumable'
  BY <1>1 DEF UniqueResumable, Resumable
<1> QED
  BY <1>1, <1>2, <1>3, <1>4 DEF Accounted, Logged

(* The cursor after an increment.                                          *)
LEMMA AdvanceFacts ==
    ASSUME cursor \in Odometers, cursor' = Inc(cursor), overflow' = Overflows(cursor)
    PROVE  /\ cursor' \in Odometers /\ overflow' \in BOOLEAN
           /\ overflow' => cursor' = Zero
           /\ ~overflow' => cursor' # Zero
           /\ \A d \in Odometers :
                overflow' \/ Precedes(d, cursor') => d = cursor \/ Precedes(d, cursor)
<1>1. PICK c \in Odometers : c = cursor
  OBVIOUS
<1>2. cursor' = Inc(c) /\ overflow' = Overflows(c)
  BY <1>1
<1>3. cursor' \in Odometers
  BY <1>2, IncType
<1>4. overflow' \in BOOLEAN
  BY <1>2, Zenon DEF Overflows
<1>5. CASE Overflows(c)
  <2>1. cursor' = Zero /\ Upto(c) = Odometers
    BY <1>2, <1>5, OverflowWraps, UptoLast
  <2>2. overflow'
    BY <1>2, <1>5
  <2>3. \A d \in Odometers : d = c \/ Precedes(d, c)
    BY <2>1 DEF Upto
  <2> QED
    BY <1>1, <1>3, <1>4, <2>1, <2>2, <2>3, Zenon
<1>6. CASE ~ Overflows(c)
  <2>1. /\ cursor' # Zero
        /\ \A d \in Odometers : Precedes(d, cursor') <=> d \in Upto(c)
    BY <1>2, <1>6, IncNotZero, BelowInc
  <2>2. ~overflow'
    BY <1>2, <1>6
  <2>3. \A d \in Odometers : Precedes(d, cursor') => d = c \/ Precedes(d, c)
    BY <2>1 DEF Upto
  <2> QED
    BY <1>1, <1>3, <1>4, <2>1, <2>2, <2>3, Zenon
<1> QED
  BY <1>5, <1>6

LEMMA TriedInv ==
    ASSUME WalkInv, pc \in {"loop", "lookup"}, NEW res \in Results, Tried(res),
           UNCHANGED <<storage, sig, sid, outcome, runs, starts, cancelled>>
    PROVE  WalkInv'
<1> DEFINE row == [session |-> sid, candidate |-> cursor, res |-> res]
           rows == Append(batch, row)
<1>1. /\ TypeOK /\ CoveredButStarts /\ UniqueResumable /\ SessionHeld /\ BatchReady
      /\ cursor \in Odometers /\ batch \in Seq(Attempt(Odometers))
      /\ sid \in Nat /\ sid # 0
      /\ ~final /\ ~overflow /\ Len(batch) < BatchSize
  BY DEF WalkInv, TypeOK, BatchReady, SessionHeld, Walking, StorageOK
<1>2. /\ StorageOK' /\ CoveredButStarts' /\ UniqueResumable'
      /\ \A id, c : Accounted(id, c) => Accounted(id, c)'
  BY <1>1, StorageFrame DEF TypeOK
<1>3. row \in Attempt(Odometers) /\ row.session = sid /\ row.candidate = cursor
  BY <1>1 DEF Attempt
<1> HIDE DEF row
<1>4. /\ rows \in Seq(Attempt(Odometers)) /\ rows # <<>>
      /\ Len(rows) = Len(batch) + 1 /\ Len(rows) <= BatchSize
      /\ rows[Len(rows)] = row /\ Len(rows) \in DOMAIN rows
      /\ \A k \in DOMAIN batch : k \in DOMAIN rows /\ rows[k] = batch[k]
      /\ \A k \in DOMAIN rows : k \in DOMAIN batch \/ rows[k] = row
  BY <1>1, <1>3, BatchAssumption
<1>5. batch' = rows
  BY DEF Tried, row
<1> HIDE DEF rows
<1>6. \A k \in DOMAIN batch' : batch'[k].session = sid
  BY <1>1, <1>3, <1>4, <1>5 DEF BatchReady
<1>7. \A c : InBatch(c) \/ c = cursor => InBatch(c)'
  BY <1>3, <1>4, <1>5 DEF InBatch
<1>8. \A c \in Odometers :
        c = cursor \/ Precedes(c, cursor) => Accounted(sid, c)' \/ InBatch(c)'
  BY <1>1, <1>2, <1>7 DEF SessionHeld, Walking, Done
<1>9. /\ (Walking' => sid' # 0 /\ sessions'[sid'].sig = sig' /\ sessions'[sid'].status = "running")
      /\ sessions' = sessions
  BY <1>1 DEF SessionHeld, Walking, storage
<1>10. CASE Full(rows)
  <2>1. pc' = "insert" /\ UNCHANGED <<cursor, overflow, final>>
    BY <1>10 DEF Tried, rows, row
  <2>2. TypeOK'
    BY <1>1, <1>2, <1>4, <1>5, <2>1 DEF TypeOK, Pcs, storage
  <2>3. SessionHeld'
    <3>1. \A c \in Odometers : Done(c)' => c = cursor \/ Precedes(c, cursor)
      BY <1>1, <2>1 DEF Done
    <3> QED
      BY <1>8, <1>9, <2>1, <3>1 DEF SessionHeld, Walking
  <2>4. BatchReady'
    BY <1>1, <1>4, <1>5, <1>6, <2>1 DEF BatchReady
  <2>5. BeginReady' /\ CompletedAccounted'
    BY <2>1 DEF BeginReady, CompletedAccounted
  <2> QED
    BY <1>2, <2>2, <2>3, <2>4, <2>5 DEF WalkInv
<1>11. CASE ~Full(rows)
  <2>1. Advance(rows)
    BY <1>11 DEF Tried, rows, row
  <2>2. cursor' = Inc(cursor) /\ overflow' = Overflows(cursor)
    BY <2>1 DEF Advance
  <2>3. /\ cursor' \in Odometers /\ overflow' \in BOOLEAN
        /\ overflow' => cursor' = Zero
        /\ ~overflow' => cursor' # Zero
        /\ \A d \in Odometers :
             overflow' \/ Precedes(d, cursor') => d = cursor \/ Precedes(d, cursor)
    BY <1>1, <2>2, AdvanceFacts
  <2>4. \/ overflow' /\ pc' = "insert" /\ final' = TRUE
        \/ ~overflow' /\ pc' = "loop" /\ final' = final
    BY <1>4, <2>1 DEF Advance, Leave
  <2>5. TypeOK'
    <3>1. final' \in BOOLEAN /\ pc' \in Pcs
      BY <1>1, <2>4, Zenon DEF TypeOK, Pcs
    <3> QED
      BY <1>1, <1>2, <1>4, <1>5, <2>3, <3>1 DEF TypeOK, storage
  <2>6. SessionHeld'
    <3>1. \A c \in Odometers : Done(c)' => c = cursor \/ Precedes(c, cursor)
      BY <2>3, <2>4, Zenon DEF Done
    <3>2. pc' \in {"loop", "insert"}
      BY <2>4
    <3> QED
      BY <1>8, <1>9, <3>1, <3>2 DEF SessionHeld, Walking
  <2>7. BatchReady'
    <3>1. Len(rows) < BatchSize
      BY <1>4, <1>11, BatchAssumption DEF Full
    <3>2. CASE overflow'
      <4>1. pc' = "insert" /\ final' = TRUE
        BY <2>4, <3>2
      <4> QED
        BY <1>4, <1>5, <1>6, <2>3, <3>2, <4>1 DEF BatchReady
    <3>3. CASE ~overflow'
      <4>1. pc' = "loop" /\ ~final'
        BY <1>1, <2>4, <3>3
      <4> QED
        BY <1>4, <1>5, <1>6, <2>3, <3>1, <3>3, <4>1 DEF BatchReady
    <3> QED
      BY <3>2, <3>3
  <2>8. BeginReady' /\ CompletedAccounted'
    BY <2>4 DEF BeginReady, CompletedAccounted
  <2> QED
    BY <1>2, <2>5, <2>6, <2>7, <2>8 DEF WalkInv
<1> QED
  BY <1>10, <1>11

-----------------------------------------------------------------------------
(* Steps that end a run or begin one.                                      *)

LEMMA ReturnInv ==
    ASSUME WalkInv, UNCHANGED <<storage, sig, sid, runs, cancelled, walking, starts>>,
           pc' = "returned",
           outcome' \in {"none", "paused", "completed", "error"},
           outcome' = "completed" => sid = 0
    PROVE  WalkInv'
<1>1. TypeOK /\ CoveredButStarts /\ UniqueResumable /\ SessionHeld /\ BatchReady
  BY DEF WalkInv
<1>2. StorageOK' /\ CoveredButStarts' /\ UniqueResumable'
  BY <1>1, StorageFrame DEF TypeOK
<1>3. UNCHANGED <<sessions, cursor, overflow, final, batch>>
  BY DEF storage, walking
<1>4. TypeOK'
  BY <1>1, <1>2, <1>3 DEF TypeOK, Pcs
<1>5. SessionHeld' /\ BeginReady' /\ CompletedAccounted'
  BY <1>1 DEF SessionHeld, Walking, BeginReady, CompletedAccounted
<1>6. BatchReady'
  BY <1>1, <1>3 DEF BatchReady
<1> QED
  BY <1>2, <1>4, <1>5, <1>6 DEF WalkInv

LEMMA BecomeIdleInv == WalkInv /\ BecomeIdle => WalkInv'
<1> SUFFICES ASSUME WalkInv, BecomeIdle PROVE WalkInv'
  OBVIOUS
<1>1. /\ pc' = "idle" /\ sid' = 0 /\ outcome' = "none" /\ cancelled' = FALSE
      /\ cursor' = Zero /\ overflow' = FALSE /\ final' = FALSE /\ batch' = <<>>
      /\ UNCHANGED <<storage, sig, runs, starts>>
  BY DEF BecomeIdle
<1>2. StorageOK' /\ CoveredButStarts' /\ UniqueResumable'
  BY <1>1, StorageFrame DEF WalkInv, TypeOK
<1>3. TypeOK'
  <2>1. cancelled' \in BOOLEAN /\ overflow' \in BOOLEAN /\ final' \in BOOLEAN
    BY <1>1, Zenon
  <2>2. batch' \in Seq(Attempt(Odometers)) /\ Len(batch') <= BatchSize
    BY <1>1, BatchAssumption
  <2>3. sig' \in WalkSignatures /\ runs' \in 0 .. MaxRuns /\ starts' \subseteq Nat \X Odometers
    BY <1>1 DEF WalkInv, TypeOK
  <2> QED
    BY <1>1, <1>2, <2>1, <2>2, <2>3, ZeroType DEF TypeOK, Pcs
<1>4. SessionHeld' /\ BeginReady' /\ CompletedAccounted'
  BY <1>1 DEF SessionHeld, Walking, BeginReady, CompletedAccounted
<1>5. BatchReady'
  BY <1>1 DEF BatchReady
<1> QED
  BY <1>2, <1>3, <1>4, <1>5 DEF WalkInv

LEMMA StartInv ==
    ASSUME WalkInv, NEW s \in WalkSignatures, NEW fresh \in BOOLEAN, Start(s, fresh)
    PROVE  WalkInv'
<1>1. /\ pc = "idle" /\ runs < MaxRuns /\ pc' \in {"fresh", "load"}
      /\ sig' = s /\ runs' = runs + 1
      /\ UNCHANGED <<storage, sid, outcome, cancelled, walking, starts>>
  BY DEF Start
<1>2. TypeOK /\ CoveredButStarts /\ UniqueResumable /\ SessionHeld /\ BatchReady
  BY DEF WalkInv
<1>3. StorageOK' /\ CoveredButStarts' /\ UniqueResumable'
  BY <1>1, <1>2, StorageFrame DEF TypeOK
<1>4. UNCHANGED <<sessions, cursor, overflow, final, batch>>
  BY <1>1 DEF storage, walking
<1>5. TypeOK'
  <2>1. runs' \in 0 .. MaxRuns
    BY <1>1, <1>2, WalkRunsAssumption DEF TypeOK
  <2> QED
    BY <1>1, <1>2, <1>3, <1>4, <2>1 DEF TypeOK, Pcs
<1>6. SessionHeld' /\ BeginReady' /\ CompletedAccounted'
  BY <1>1, <1>2 DEF SessionHeld, Walking, BeginReady, CompletedAccounted
<1>7. BatchReady'
  BY <1>1, <1>2, <1>4 DEF BatchReady
<1> QED
  BY <1>3, <1>5, <1>6, <1>7 DEF WalkInv

LEMMA CancelInv == WalkInv /\ Cancel => WalkInv'
<1> SUFFICES ASSUME WalkInv, Cancel PROVE WalkInv'
  OBVIOUS
<1>1. cancelled' = TRUE /\ UNCHANGED <<storage, pc, sig, sid, outcome, runs, walking, starts>>
  BY DEF Cancel, control
<1>2. cancelled' \in BOOLEAN
  BY <1>1, Zenon
<1>3. /\ UNCHANGED <<sessions, attempts, lastId, pc, sig, sid, outcome, runs,
                     cursor, overflow, final, batch, starts>>
  BY <1>1 DEF storage, walking
<1>4. StorageOK' /\ CoveredButStarts' /\ UniqueResumable'
  BY <1>1, StorageFrame DEF WalkInv, TypeOK
<1>5. TypeOK'
  BY <1>2, <1>3, <1>4 DEF WalkInv, TypeOK
<1>6. SessionHeld' /\ BatchReady' /\ CompletedAccounted'
  BY <1>3 DEF WalkInv, SessionHeld, Walking, Done, InBatch, Accounted, Logged, BatchReady,
              CompletedAccounted
<1>7. BeginReady'
  BY <1>3 DEF WalkInv, BeginReady, ResumableIds, Resumable
<1> QED
  BY <1>4, <1>5, <1>6, <1>7 DEF WalkInv

(* Statements that only change statuses.                                   *)
LEMMA StatusFrame ==
    ASSUME StorageOK, CoveredButStarts, TableOK', StatusOnly, starts' = starts
    PROVE  /\ StorageOK' /\ CoveredButStarts' /\ DOMAIN sessions' = DOMAIN sessions
           /\ \A id, c : Accounted(id, c) => Accounted(id, c)'
<1>1. /\ DOMAIN sessions' = DOMAIN sessions /\ attempts' = attempts /\ lastId' = lastId
      /\ \A id \in DOMAIN sessions :
           /\ sessions'[id].sig = sessions[id].sig
           /\ sessions'[id].mode = sessions[id].mode
           /\ sessions'[id].cursor = sessions[id].cursor
  BY DEF StatusOnly
<1>2. \A id, c : Accounted(id, c) <=> Accounted(id, c)'
  BY <1>1 DEF Accounted, Logged
<1>3. \A id \in DOMAIN sessions : IsWalk(id)' <=> IsWalk(id)
  BY <1>1 DEF IsWalk
<1>4. StorageOK'
  <2>1. \A id \in DOMAIN sessions : sessions'[id] \in Row
    BY <1>1 DEF TableOK
  <2> QED
    BY <1>1, <1>3, <2>1 DEF StorageOK
<1>5. CoveredButStarts'
  BY <1>1, <1>2, <1>3 DEF CoveredButStarts
<1> QED
  BY <1>1, <1>2, <1>4, <1>5

LEMMA ClearPausedInv == WalkInv /\ ClearPaused => WalkInv'
<1> SUFFICES ASSUME WalkInv, ClearPaused PROVE WalkInv'
  OBVIOUS
<1>1. TypeOK /\ CoveredButStarts /\ UniqueResumable /\ SessionHeld /\ BatchReady
      /\ StorageOK /\ TableOK
  BY TableFromType DEF WalkInv, TypeOK
<1>2. /\ pc = "fresh" /\ pc' = "load" /\ MarkPausedAsCompleted(sig)
      /\ UNCHANGED <<sig, sid, outcome, runs, cancelled, cursor, overflow, final, batch, starts>>
  BY DEF ClearPaused, walking
<1>3. TableOK' /\ UniqueResumable' /\ StatusOnly
  BY <1>1, <1>2, MarkFacts
<1>4. StorageOK' /\ CoveredButStarts' /\ DOMAIN sessions' = DOMAIN sessions
  BY <1>1, <1>2, <1>3, StatusFrame
<1>5. TypeOK'
  BY <1>1, <1>2, <1>4 DEF TypeOK, Pcs
<1>6. SessionHeld' /\ BeginReady' /\ CompletedAccounted'
  BY <1>1, <1>2 DEF SessionHeld, Walking, BeginReady, CompletedAccounted
<1>7. BatchReady'
  BY <1>1, <1>2 DEF BatchReady
<1> QED
  BY <1>3, <1>4, <1>5, <1>6, <1>7 DEF WalkInv

LEMMA LoadExhaustedInv == WalkInv /\ LoadExhausted => WalkInv'
<1> SUFFICES ASSUME WalkInv, LoadExhausted PROVE WalkInv'
  OBVIOUS
<1>1. /\ pc = "load" /\ pc' = "returned" /\ outcome' = "completed"
      /\ UNCHANGED <<storage, sig, sid, runs, cancelled, walking, starts>>
  BY DEF LoadExhausted
<1>2. sid = 0
  BY <1>1 DEF WalkInv, SessionHeld
<1> QED
  BY <1>1, <1>2, ReturnInv

LEMMA LoadCursorInv == WalkInv /\ LoadCursor => WalkInv'
<1> SUFFICES ASSUME WalkInv, LoadCursor PROVE WalkInv'
  OBVIOUS
<1>1. TypeOK /\ CoveredButStarts /\ UniqueResumable /\ SessionHeld /\ BatchReady
      /\ StorageOK /\ TableOK
  BY TableFromType DEF WalkInv, TypeOK
<1>2. /\ pc = "load" /\ pc' = "begin"
      /\ UNCHANGED <<storage, sig, sid, outcome, runs, cancelled, overflow, final, batch, starts>>
      /\ ~ (WasResumed /\ Overflows(LastCursor))
      /\ cursor' = IF WasResumed THEN Inc(LastCursor) ELSE Zero
  BY DEF LoadCursor, AfterLast
<1>3. UNCHANGED <<sessions, attempts, lastId>>
  BY <1>2 DEF storage
<1>4. StorageOK' /\ CoveredButStarts' /\ UniqueResumable'
  BY <1>1, <1>2, StorageFrame
<1>5. cursor' \in Odometers /\ BeginReady'
  <2>1. CASE WasResumed
    <3>1. PICK id : id = LatestResumable
      OBVIOUS
    <3>2. id \in DOMAIN sessions /\ Resumable(id) /\ sessions[id].mode = "walk"
          /\ sessions[id].sig = sig
      BY <1>1, <2>1, <3>1, LatestExists DEF WasResumed
    <3>3. PICK last \in Odometers : last = sessions[id].cursor
      BY <1>1, <3>2 DEF StorageOK, IsWalk
    <3>4. LastCursor = last /\ ParseCursor(sessions[id].cursor) = last
      BY <3>1, <3>3, CursorText DEF LastCursor
    <3>5. cursor' = Inc(last) /\ ~Overflows(last)
      BY <1>2, <2>1, <3>4
    <3>6. id \in ResumableIds(sig)'
      BY <1>2, <1>3, <3>2 DEF ResumableIds, Resumable
    <3>7. sessions'[id].cursor = sessions[id].cursor
      BY <1>3
    <3> QED
      BY <3>4, <3>5, <3>6, <3>7, IncType DEF BeginReady
  <2>2. CASE ~WasResumed
    BY <1>2, <2>2, ZeroType DEF BeginReady
  <2> QED
    BY <2>1, <2>2
<1>6. TypeOK'
  BY <1>1, <1>2, <1>3, <1>4, <1>5 DEF TypeOK, Pcs
<1>7. SessionHeld' /\ CompletedAccounted'
  BY <1>1, <1>2 DEF SessionHeld, Walking, CompletedAccounted
<1>8. BatchReady'
  BY <1>1, <1>2 DEF BatchReady
<1> QED
  BY <1>4, <1>5, <1>6, <1>7, <1>8 DEF WalkInv

LEMMA BeginInv ==
    ASSUME WalkInv, NEW meta \in Metas, NEW now \in Clock, Begin(meta, now)
    PROVE  WalkInv'
<1>1. TypeOK /\ CoveredButStarts /\ UniqueResumable /\ SessionHeld /\ BatchReady
      /\ StorageOK /\ TableOK /\ BeginReady
  BY TableFromType DEF WalkInv, TypeOK
<1>2. PICK id0 : id0 = BeginSessionId(sig)
  OBVIOUS
<1>3. /\ pc = "begin" /\ pc' = "loop" /\ sid' = id0
      /\ starts' = starts \cup {<<id0, cursor>>}
      /\ UNCHANGED <<sig, outcome, runs, cancelled, cursor, overflow, final, batch>>
  BY <1>2 DEF Begin, walking
<1>4. /\ sig \in Signatures /\ sig \in WalkSignatures
      /\ cursor \in Odometers /\ cursor \in Cursors /\ String(cursor) = cursor
      /\ "walk" \in Modes /\ now \in Nat
  BY <1>1, CursorText, WalkRowAssumption DEF TypeOK, Modes
<1>5. BeginSession([sig |-> sig, meta |-> meta, mode |-> "walk", cursor |-> cursor], now)
  BY <1>4 DEF Begin
<1>6. /\ TableOK' /\ UniqueResumable' /\ attempts' = attempts
      /\ DOMAIN sessions' = DOMAIN sessions \cup {id0} /\ id0 \in Nat \ {0}
      /\ \A id \in DOMAIN sessions : id # id0 => sessions'[id] = sessions[id]
      /\ sessions'[id0].status = "running" /\ sessions'[id0].sig = sig
      /\ sessions'[id0].mode = "walk" /\ sessions'[id0].cursor = cursor
      /\ ResumableIds(sig) # {} => id0 \in ResumableIds(sig)
  BY <1>1, <1>2, <1>4, <1>5, BeginFacts DEF Begun
<1>7. \A id, c : Accounted(id, c) => Accounted(id, c)'
  BY <1>3, <1>6 DEF Accounted, Logged
<1>8. StorageOK'
  <2>1. \A id \in DOMAIN sessions' :
          /\ IsWalk(id)' <=> sessions'[id].sig \in WalkSignatures
          /\ IsWalk(id)' => sessions'[id].cursor \in Odometers
    BY <1>1, <1>4, <1>6 DEF StorageOK, IsWalk
  <2> QED
    BY <1>1, <1>6, <2>1 DEF StorageOK, TableOK
<1>9. \A c \in Upto(cursor) : Accounted(id0, c)'
  <2>1. Accounted(id0, cursor)'
    BY <1>3 DEF Accounted
  <2>2. CASE cursor = Zero
    BY <1>3, <2>1, <2>2, UptoZero
  <2>3. CASE cursor # Zero
    <3>1. PICK id \in ResumableIds(sig) :
            LET last == ParseCursor(sessions[id].cursor)
            IN  ~Overflows(last) /\ cursor = Inc(last)
      BY <1>1, <1>3, <2>3 DEF BeginReady
    <3>2. id = id0 /\ id \in DOMAIN sessions /\ sessions[id].sig = sig
      BY <1>1, <1>6, <3>1 DEF UniqueResumable, ResumableIds
    <3>3. IsWalk(id) /\ sessions[id].cursor \in Odometers
      BY <1>1, <1>4, <3>2 DEF StorageOK
    <3>4. PICK last \in Odometers : last = sessions[id].cursor
      BY <3>3
    <3>5. ParseCursor(sessions[id].cursor) = last
      BY <3>4, CursorText
    <3>6. Upto(cursor) = Upto(last) \cup {cursor}
      BY <3>1, <3>5, UptoInc
    <3>7. \A c \in Upto(last) : Accounted(id0, c)
      BY <1>1, <3>2, <3>3, <3>5 DEF CoveredButStarts
    <3> QED
      BY <1>3, <1>7, <2>1, <3>6, <3>7
  <2> QED
    BY <2>2, <2>3
<1>10. CoveredButStarts'
  <2>1. ASSUME NEW id \in DOMAIN sessions', IsWalk(id)',
               NEW c \in Upto(ParseCursor(sessions'[id].cursor))
        PROVE  Accounted(id, c)'
    <3>1. CASE id = id0
      <4>1. ParseCursor(sessions'[id].cursor) = cursor
        BY <1>4, <1>6, <3>1, CursorText
      <4> QED
        BY <1>9, <2>1, <3>1, <4>1
    <3>2. CASE id # id0
      <4>1. id \in DOMAIN sessions /\ sessions'[id] = sessions[id]
        BY <1>6, <3>2
      <4>2. IsWalk(id) /\ c \in Upto(ParseCursor(sessions[id].cursor))
        BY <2>1, <4>1 DEF IsWalk
      <4> QED
        BY <1>1, <1>7, <4>1, <4>2 DEF CoveredButStarts
    <3> QED
      BY <3>1, <3>2
  <2> QED
    BY <2>1 DEF CoveredButStarts
<1>11. TypeOK'
  <2>1. sid' \in {0} \cup DOMAIN sessions' /\ starts' \subseteq Nat \X Odometers
    BY <1>1, <1>3, <1>4, <1>6 DEF TypeOK
  <2> QED
    BY <1>1, <1>3, <1>8, <2>1 DEF TypeOK, Pcs
<1>12. SessionHeld'
  <2>1. \A c \in Odometers : Done(c)' => c \in Upto(cursor)
    BY <1>1, <1>3 DEF Done, BatchReady, Upto
  <2>2. \A c \in Odometers : Done(c)' => Accounted(sid, c)'
    BY <1>3, <1>9, <2>1
  <2> QED
    BY <1>3, <1>6, <2>2 DEF SessionHeld
<1>13. BatchReady'
  <2>1. batch = <<>> /\ ~final /\ ~overflow
    BY <1>1, <1>3 DEF BatchReady
  <2> QED
    BY <1>3, <2>1, BatchAssumption DEF BatchReady
<1>14. BeginReady' /\ CompletedAccounted'
  BY <1>3 DEF BeginReady, CompletedAccounted
<1> QED
  BY <1>6, <1>10, <1>11, <1>12, <1>13, <1>14 DEF WalkInv

LEMMA OtherSweepInv ==
    ASSUME WalkInv, NEW s \in Signatures \ WalkSignatures, NEW meta \in Metas,
           NEW now \in Clock, OtherSweep(s, meta, now)
    PROVE  WalkInv'
<1>1. TypeOK /\ CoveredButStarts /\ UniqueResumable /\ SessionHeld /\ BatchReady
      /\ StorageOK /\ TableOK
  BY TableFromType DEF WalkInv, TypeOK
<1>2. PICK id0 : id0 = BeginSessionId(s)
  OBVIOUS
<1>3. /\ pc = "idle" /\ runs < MaxRuns /\ runs' = runs + 1
      /\ UNCHANGED <<pc, sig, sid, outcome, cancelled, cursor, overflow, final, batch, starts>>
  BY DEF OtherSweep, walking
<1>4. s \in Signatures /\ NoCursor \in Cursors /\ "sweep" \in Modes /\ now \in Nat
  BY WalkRowAssumption DEF Modes
<1>5. BeginSession([sig |-> s, meta |-> meta, mode |-> "sweep", cursor |-> NoCursor], now)
  BY DEF OtherSweep
<1>6. /\ TableOK' /\ UniqueResumable' /\ attempts' = attempts
      /\ DOMAIN sessions' = DOMAIN sessions \cup {id0} /\ id0 \in Nat \ {0}
      /\ \A id \in DOMAIN sessions : id # id0 => sessions'[id] = sessions[id]
      /\ sessions'[id0].sig = s /\ sessions'[id0].mode = "sweep"
  <2> HIDE DEF NoCursor
  <2> QED
    BY <1>1, <1>2, <1>4, <1>5, BeginFacts DEF Begun
<1>7. \A id, c : Accounted(id, c) <=> Accounted(id, c)'
  BY <1>3, <1>6 DEF Accounted, Logged
<1>8. ~IsWalk(id0)'
  BY <1>6 DEF IsWalk
<1>9. StorageOK'
  <2>1. \A id \in DOMAIN sessions' :
          /\ IsWalk(id)' <=> sessions'[id].sig \in WalkSignatures
          /\ IsWalk(id)' => sessions'[id].cursor \in Odometers
    BY <1>1, <1>6, <1>8 DEF StorageOK, IsWalk
  <2> QED
    BY <1>1, <1>6, <2>1 DEF StorageOK, TableOK
<1>10. CoveredButStarts'
  BY <1>1, <1>6, <1>7, <1>8 DEF CoveredButStarts, IsWalk
<1>11. TypeOK'
  <2>1. runs' \in 0 .. MaxRuns
    BY <1>1, <1>3, WalkRunsAssumption DEF TypeOK
  <2>2. sid' \in {0} \cup DOMAIN sessions'
    BY <1>1, <1>3, <1>6 DEF TypeOK
  <2> QED
    BY <1>1, <1>3, <1>9, <2>1, <2>2 DEF TypeOK
<1>12. SessionHeld' /\ BeginReady' /\ CompletedAccounted'
  BY <1>1, <1>3 DEF SessionHeld, Walking, BeginReady, CompletedAccounted
<1>13. BatchReady'
  BY <1>1, <1>3 DEF BatchReady
<1> QED
  BY <1>6, <1>10, <1>11, <1>12, <1>13 DEF WalkInv

-----------------------------------------------------------------------------
(* Steps of the loop and of the flush.                                     *)

LEMMA LoopCancelledInv == WalkInv /\ LoopCancelled => WalkInv'
<1> SUFFICES ASSUME WalkInv, LoopCancelled PROVE WalkInv'
  OBVIOUS
<1>1. TypeOK /\ CoveredButStarts /\ UniqueResumable /\ SessionHeld /\ BatchReady
  BY DEF WalkInv
<1>2. /\ pc = "loop" /\ pc' = (IF batch = <<>> THEN "end" ELSE "insert") /\ final' = TRUE
      /\ UNCHANGED <<storage, sig, sid, outcome, runs, cancelled, cursor, overflow, batch, starts>>
  BY DEF LoopCancelled, Leave
<1>3. UNCHANGED <<sessions, attempts, lastId>>
  BY <1>2 DEF storage
<1>4. StorageOK' /\ CoveredButStarts' /\ UniqueResumable'
      /\ \A id, c : Accounted(id, c) => Accounted(id, c)'
  BY <1>1, <1>2, StorageFrame DEF TypeOK
<1>5. TypeOK'
  <2>1. final' \in BOOLEAN /\ pc' \in Pcs
    BY <1>2, Zenon DEF Pcs
  <2> QED
    BY <1>1, <1>2, <1>3, <1>4, <2>1 DEF TypeOK
<1>6. SessionHeld'
  <2>1. \A c \in Odometers : Done(c)' => Done(c)
    BY <1>2 DEF Done
  <2>2. \A c : InBatch(c) => InBatch(c)'
    BY <1>2 DEF InBatch
  <2>3. Walking /\ pc' \notin {"idle", "fresh", "load", "begin"}
    BY <1>2 DEF Walking
  <2>4. \A c \in Odometers : Done(c)' => Accounted(sid, c)' \/ InBatch(c)'
    BY <1>1, <1>2, <1>4, <2>1, <2>2, <2>3 DEF SessionHeld
  <2> QED
    BY <1>1, <1>2, <1>3, <2>3, <2>4 DEF SessionHeld
<1>7. BatchReady'
  BY <1>1, <1>2 DEF BatchReady
<1>8. BeginReady' /\ CompletedAccounted'
  BY <1>2 DEF BeginReady, CompletedAccounted
<1> QED
  BY <1>4, <1>5, <1>6, <1>7, <1>8 DEF WalkInv

LEMMA TryValidInv == WalkInv /\ TryValid => WalkInv'
<1> SUFFICES ASSUME WalkInv, TryValid PROVE WalkInv'
  OBVIOUS
<1>1. TypeOK /\ CoveredButStarts /\ UniqueResumable /\ SessionHeld /\ BatchReady
  BY DEF WalkInv
<1>2. /\ pc = "loop" /\ pc' = "lookup"
      /\ UNCHANGED <<storage, sig, sid, outcome, runs, cancelled, cursor, overflow, final,
                     batch, starts>>
  BY DEF TryValid, walking
<1>3. UNCHANGED <<sessions, attempts, lastId>>
  BY <1>2 DEF storage
<1>4. StorageOK' /\ CoveredButStarts' /\ UniqueResumable'
      /\ \A id, c : Accounted(id, c) => Accounted(id, c)'
  BY <1>1, <1>2, StorageFrame DEF TypeOK
<1>5. TypeOK'
  BY <1>1, <1>2, <1>3, <1>4 DEF TypeOK, Pcs
<1>6. SessionHeld'
  <2>1. \A c \in Odometers : Done(c)' => Done(c)
    BY <1>2 DEF Done
  <2>2. \A c : InBatch(c) => InBatch(c)'
    BY <1>2 DEF InBatch
  <2>3. Walking /\ pc' \notin {"idle", "fresh", "load", "begin"}
    BY <1>2 DEF Walking
  <2>4. \A c \in Odometers : Done(c)' => Accounted(sid, c)' \/ InBatch(c)'
    BY <1>1, <1>2, <1>4, <2>1, <2>2, <2>3 DEF SessionHeld
  <2> QED
    BY <1>1, <1>2, <1>3, <2>3, <2>4 DEF SessionHeld
<1>7. BatchReady'
  BY <1>1, <1>2 DEF BatchReady
<1>8. BeginReady' /\ CompletedAccounted'
  BY <1>2 DEF BeginReady, CompletedAccounted
<1> QED
  BY <1>4, <1>5, <1>6, <1>7, <1>8 DEF WalkInv

LEMMA TryInv == WalkInv /\ (TryInvalid \/ Lookup) => WalkInv'
<1> SUFFICES ASSUME WalkInv, TryInvalid \/ Lookup PROVE WalkInv'
  OBVIOUS
<1>1. CASE TryInvalid
  <2>1. "skipped" \in Results
    BY DEF Results
  <2> QED
    BY <1>1, <2>1, TriedInv DEF TryInvalid
<1>2. CASE Lookup
  <2>1. PICK res \in Results : Tried(res)
    BY <1>2 DEF Lookup, Answer, Results
  <2> QED
    BY <1>2, <2>1, TriedInv DEF Lookup
<1> QED
  BY <1>1, <1>2

LEMMA FlushInsertInv == WalkInv /\ FlushInsert => WalkInv'
<1> SUFFICES ASSUME WalkInv, FlushInsert PROVE WalkInv'
  OBVIOUS
<1>1. TypeOK /\ CoveredButStarts /\ UniqueResumable /\ SessionHeld /\ BatchReady /\ StorageOK
  BY DEF WalkInv, TypeOK
<1>2. /\ pc = "insert" /\ pc' = "checkpoint"
      /\ attempts' = attempts \o batch
      /\ UNCHANGED <<sessions, lastId, sig, sid, outcome, runs, cancelled, cursor, overflow,
                     final, batch, starts>>
  BY DEF FlushInsert, InsertAttempts, walking
<1>3. /\ attempts' \in Seq(Attempt(Odometers))
      /\ \A k \in DOMAIN attempts : k \in DOMAIN attempts' /\ attempts'[k] = attempts[k]
      /\ \A k \in DOMAIN batch : /\ Len(attempts) + k \in DOMAIN attempts'
                                 /\ attempts'[Len(attempts) + k] = batch[k]
  BY <1>1, <1>2 DEF StorageOK, TypeOK
<1>4. /\ \A id, c : Logged(id, c) => Logged(id, c)'
      /\ \A id, c : Accounted(id, c) => Accounted(id, c)'
  BY <1>2, <1>3 DEF Logged, Accounted
<1>5. StorageOK'
  BY <1>1, <1>2, <1>3 DEF StorageOK, IsWalk
<1>6. CoveredButStarts' /\ UniqueResumable'
  BY <1>1, <1>2, <1>4 DEF CoveredButStarts, IsWalk, UniqueResumable, Resumable
<1>7. TypeOK'
  BY <1>1, <1>2, <1>5 DEF TypeOK, Pcs
<1>8. SessionHeld'
  <2>1. \A c \in Odometers : Done(c)' => Done(c)
    BY <1>2 DEF Done
  <2>2. \A c : InBatch(c) => InBatch(c)'
    BY <1>2 DEF InBatch
  <2>3. Walking
    BY <1>2 DEF Walking
  <2>4. \A c \in Odometers : Done(c)' => Accounted(sid, c)' \/ InBatch(c)'
    BY <1>1, <1>2, <1>4, <2>1, <2>2, <2>3 DEF SessionHeld
  <2> QED
    BY <1>1, <1>2, <2>3, <2>4 DEF SessionHeld
<1>9. BatchReady'
  <2>1. ASSUME NEW k \in DOMAIN batch PROVE Logged(sid, batch[k].candidate)'
    BY <1>1, <1>2, <1>3 DEF Logged, BatchReady
  <2> QED
    BY <1>1, <1>2, <2>1 DEF BatchReady
<1>10. BeginReady' /\ CompletedAccounted'
  BY <1>2 DEF BeginReady, CompletedAccounted
<1> QED
  BY <1>6, <1>7, <1>8, <1>9, <1>10 DEF WalkInv

(* While the flush is at its second statement, everything dealt with has   *)
(* been accounted for, and the cursor it is about to persist is up to what *)
(* has been dealt with.                                                    *)
LEMMA FlushFacts ==
    ASSUME WalkInv, pc = "checkpoint"
    PROVE  /\ FlushCursor \in Odometers
           /\ \A c \in Odometers : Done(c) => Accounted(sid, c)
           /\ \A c \in Upto(FlushCursor) : Done(c)
<1>1. /\ TypeOK /\ SessionHeld /\ BatchReady /\ Walking
      /\ cursor \in Odometers /\ batch # <<>>
      /\ overflow => final /\ cursor = Zero
      /\ final /\ ~overflow => cursor # Zero
  BY DEF WalkInv, TypeOK, BatchReady, Walking
<1>2. ASSUME NEW c \in Odometers, Done(c) PROVE Accounted(sid, c)
  <2>1. CASE InBatch(c)
    <3>1. PICK k \in DOMAIN batch : batch[k].candidate = c
      BY <2>1 DEF InBatch
    <3>2. Logged(sid, c)
      BY <1>1, <3>1 DEF BatchReady
    <3> QED
      BY <3>2 DEF Accounted
  <2> QED
    BY <1>1, <1>2, <2>1 DEF SessionHeld
<1>3. PICK e \in Odometers : e = cursor
  BY <1>1
<1>4. CASE final /\ ~overflow
  <2>1. FlushCursor = decCursor(e) /\ e # Zero
    BY <1>1, <1>3, <1>4 DEF FlushCursor
  <2>2. FlushCursor \in Odometers
    BY <2>1, DecType
  <2>3. \A c \in Odometers : Precedes(c, e) <=> c \in Upto(FlushCursor)
    BY <2>1, BelowDec
  <2>4. \A c \in Upto(FlushCursor) : Precedes(c, e)
    BY <2>3 DEF Upto
  <2> QED
    BY <1>2, <1>3, <2>2, <2>4 DEF Done
<1>5. CASE ~final
  <2>1. FlushCursor = cursor
    BY <1>5 DEF FlushCursor
  <2>2. \A c \in Upto(cursor) : Done(c)
    BY <1>5 DEF Upto, Done
  <2> QED
    BY <1>1, <1>2, <2>1, <2>2
<1>6. CASE overflow
  <2>1. FlushCursor = cursor
    BY <1>6 DEF FlushCursor
  <2>2. \A c : Done(c)
    BY <1>6 DEF Done
  <2> QED
    BY <1>1, <1>2, <2>1, <2>2
<1> QED
  BY <1>4, <1>5, <1>6

LEMMA FlushCheckpointInv == WalkInv /\ FlushCheckpoint => WalkInv'
<1> SUFFICES ASSUME WalkInv, FlushCheckpoint PROVE WalkInv'
  OBVIOUS
<1>1. TypeOK /\ CoveredButStarts /\ UniqueResumable /\ SessionHeld /\ BatchReady /\ StorageOK
      /\ cursor \in Odometers
  BY DEF WalkInv, TypeOK
<1>2. PICK fc : fc = FlushCursor
  OBVIOUS
<1>3. /\ pc = "checkpoint"
      /\ sessions' = [sessions EXCEPT ![sid].cursor = String(fc)]
      /\ batch' = <<>>
      /\ UNCHANGED <<attempts, lastId, sig, sid, outcome, runs, cancelled, starts>>
  BY <1>2 DEF FlushCheckpoint, CheckpointCursor
<1>4. /\ fc \in Odometers /\ fc \in Cursors /\ String(fc) = fc /\ ParseCursor(fc) = fc
      /\ \A c \in Odometers : Done(c) => Accounted(sid, c)
      /\ \A c \in Upto(fc) : Done(c) /\ c \in Odometers
  BY <1>2, <1>3, FlushFacts, CursorText, WalkRowAssumption DEF Upto
<1>5. sid \in DOMAIN sessions /\ sid # 0 /\ sessions[sid].sig = sig
      /\ sessions[sid].status = "running" /\ sessions[sid] \in Row
      /\ sig \in WalkSignatures
  BY <1>1, <1>3 DEF SessionHeld, Walking, TypeOK, StorageOK
<1>6. /\ DOMAIN sessions' = DOMAIN sessions
      /\ \A id \in DOMAIN sessions : id # sid => sessions'[id] = sessions[id]
      /\ sessions'[sid] = [sessions[sid] EXCEPT !.cursor = fc]
  BY <1>3, <1>4, <1>5
<1>7. /\ sessions'[sid] \in Row /\ sessions'[sid].cursor = fc
      /\ sessions'[sid].sig = sessions[sid].sig
      /\ sessions'[sid].mode = sessions[sid].mode
      /\ sessions'[sid].status = sessions[sid].status
  BY <1>4, <1>5, <1>6 DEF Row
<1>8. /\ \A id, c : Accounted(id, c) <=> Accounted(id, c)'
      /\ \A id \in DOMAIN sessions : IsWalk(id)' <=> IsWalk(id)
  BY <1>3, <1>6, <1>7 DEF Accounted, Logged, IsWalk
<1>9. StorageOK'
  BY <1>1, <1>3, <1>4, <1>6, <1>7, <1>8 DEF StorageOK
<1>10. CoveredButStarts'
  <2>1. ASSUME NEW id \in DOMAIN sessions, IsWalk(id)',
               NEW c \in Upto(ParseCursor(sessions'[id].cursor))
        PROVE  Accounted(id, c)'
    <3>1. CASE id = sid
      BY <1>4, <1>7, <1>8, <2>1, <3>1
    <3>2. CASE id # sid
      BY <1>1, <1>6, <1>8, <2>1, <3>2 DEF CoveredButStarts
    <3> QED
      BY <3>1, <3>2
  <2> QED
    BY <1>6, <2>1 DEF CoveredButStarts
<1>11. UniqueResumable'
  <2>1. \A id \in DOMAIN sessions : sessions'[id].sig = sessions[id].sig
    BY <1>6, <1>7
  <2>2. \A id \in DOMAIN sessions : Resumable(id)' <=> Resumable(id)
    BY <1>6, <1>7 DEF Resumable
  <2> QED
    BY <1>1, <1>6, <2>1, <2>2 DEF UniqueResumable
<1>12. batch' \in Seq(Attempt(Odometers)) /\ Len(batch') <= BatchSize /\ Len(batch') < BatchSize
  BY <1>3, BatchAssumption
<1>13. CASE final
  <2>1. pc' = "end" /\ UNCHANGED <<cursor, overflow, final>>
    BY <1>13 DEF FlushCheckpoint
  <2>2. TypeOK'
    BY <1>1, <1>3, <1>6, <1>9, <1>12, <2>1 DEF TypeOK, Pcs
  <2>3. SessionHeld'
    <3>1. \A c \in Odometers : Done(c)' => Done(c)
      BY <2>1 DEF Done
    <3>2. \A c \in Odometers : Done(c)' => Accounted(sid, c)'
      BY <1>3, <1>4, <1>8, <3>1
    <3> QED
      BY <1>3, <1>5, <1>7, <2>1, <3>2 DEF SessionHeld
  <2>4. BatchReady'
    BY <1>1, <1>3, <2>1 DEF BatchReady
  <2>5. BeginReady' /\ CompletedAccounted'
    BY <2>1 DEF BeginReady, CompletedAccounted
  <2> QED
    BY <1>10, <1>11, <2>2, <2>3, <2>4, <2>5 DEF WalkInv
<1>14. CASE ~final
  <2>1. Advance(<<>>)
    BY <1>14 DEF FlushCheckpoint
  <2>2. cursor' = Inc(cursor) /\ overflow' = Overflows(cursor)
    BY <2>1 DEF Advance
  <2>3. /\ cursor' \in Odometers /\ overflow' \in BOOLEAN
        /\ overflow' => cursor' = Zero
        /\ ~overflow' => cursor' # Zero
        /\ \A d \in Odometers :
             overflow' \/ Precedes(d, cursor') => d = cursor \/ Precedes(d, cursor)
    BY <1>1, <2>2, AdvanceFacts
  <2>4. \/ overflow' /\ pc' = "end" /\ final' = TRUE
        \/ ~overflow' /\ pc' = "loop" /\ final' = final
    BY <2>1 DEF Advance, Leave
  <2>5. TypeOK'
    <3>1. final' \in BOOLEAN /\ pc' \in Pcs
      BY <1>1, <2>4, Zenon DEF TypeOK, Pcs
    <3> QED
      BY <1>1, <1>3, <1>6, <1>9, <1>12, <2>3, <3>1 DEF TypeOK
  <2>6. SessionHeld'
    <3>1. \A c \in Odometers : Done(c)' => c = cursor \/ Precedes(c, cursor)
      BY <2>3, <2>4, Zenon DEF Done
    <3>2. \A c \in Odometers : c = cursor \/ Precedes(c, cursor) => Done(c)
      BY <1>3, <1>14 DEF Done
    <3>3. \A c \in Odometers : Done(c)' => Accounted(sid, c)'
      BY <1>3, <1>4, <1>8, <3>1, <3>2
    <3>4. pc' \notin {"idle", "fresh", "load", "begin"}
      BY <2>4
    <3> QED
      BY <1>3, <1>5, <1>7, <3>3, <3>4 DEF SessionHeld
  <2>7. BatchReady'
    <3>1. CASE overflow'
      <4>1. pc' = "end"
        BY <2>4, <3>1
      <4> QED
        BY <1>3, <2>3, <4>1 DEF BatchReady
    <3>2. CASE ~overflow'
      <4>1. pc' = "loop" /\ ~final'
        BY <1>14, <2>4, <3>2
      <4> QED
        BY <1>3, <1>12, <3>2, <4>1 DEF BatchReady
    <3> QED
      BY <3>1, <3>2
  <2>8. BeginReady' /\ CompletedAccounted'
    BY <2>4 DEF BeginReady, CompletedAccounted
  <2> QED
    BY <1>10, <1>11, <2>5, <2>6, <2>7, <2>8 DEF WalkInv
<1> QED
  BY <1>13, <1>14

LEMMA EndWalkInv == WalkInv /\ EndWalk => WalkInv'
<1> SUFFICES ASSUME WalkInv, EndWalk PROVE WalkInv'
  OBVIOUS
<1>1. TypeOK /\ CoveredButStarts /\ UniqueResumable /\ SessionHeld /\ BatchReady
      /\ StorageOK /\ TableOK
  BY TableFromType DEF WalkInv, TypeOK
<1>2. PICK status \in {"paused", "completed"} : status = FinalStatus
  BY DEF FinalStatus
<1>3. /\ pc = "end" /\ pc' = "returned" /\ outcome' = status
      /\ EndSession(sid, status)
      /\ UNCHANGED <<sig, sid, runs, cancelled, cursor, overflow, final, batch, starts>>
      /\ status = "completed" => overflow
      /\ batch = <<>>
  BY <1>1, <1>2 DEF EndWalk, FinalStatus, walking, BatchReady
<1>4. sid \in DOMAIN sessions /\ Resumable(sid) /\ Walking
  BY <1>1, <1>3 DEF SessionHeld, Walking, TypeOK, Resumable
<1>5. TableOK' /\ UniqueResumable' /\ StatusOnly
  BY <1>1, <1>3, <1>4, EndFacts
<1>6. StorageOK' /\ CoveredButStarts' /\ DOMAIN sessions' = DOMAIN sessions
      /\ \A id, c : Accounted(id, c) => Accounted(id, c)'
  BY <1>1, <1>3, <1>5, StatusFrame
<1>7. TypeOK'
  BY <1>1, <1>3, <1>6 DEF TypeOK, Pcs
<1>8. SessionHeld' /\ BeginReady'
  BY <1>3 DEF SessionHeld, Walking, BeginReady
<1>9. BatchReady'
  BY <1>1, <1>3 DEF BatchReady
<1>10. CompletedAccounted'
  <2>1. SUFFICES ASSUME status = "completed", NEW c \in Odometers PROVE Accounted(sid, c)'
    BY <1>3 DEF CompletedAccounted
  <2>2. ~InBatch(c)
    BY <1>3 DEF InBatch
  <2>3. Done(c)
    BY <1>3, <2>1 DEF Done
  <2> QED
    BY <1>1, <1>3, <1>4, <1>6, <2>2, <2>3 DEF SessionHeld
<1> QED
  BY <1>5, <1>6, <1>7, <1>8, <1>9, <1>10 DEF WalkInv

-----------------------------------------------------------------------------

LEMMA StutterInv == WalkInv /\ UNCHANGED vars => WalkInv'
<1> SUFFICES ASSUME WalkInv, UNCHANGED vars PROVE WalkInv'
  OBVIOUS
<1>1. /\ UNCHANGED <<sessions, attempts, lastId, pc, sig, sid, outcome, runs, cancelled,
                     cursor, overflow, final, batch, starts>>
  BY DEF vars, storage, control, walking
<1>2. StorageOK' /\ CoveredButStarts' /\ UniqueResumable'
  BY <1>1, StorageFrame DEF WalkInv, TypeOK, storage
<1>3. TypeOK'
  BY <1>1, <1>2 DEF WalkInv, TypeOK
<1>4. SessionHeld' /\ BatchReady' /\ CompletedAccounted'
  BY <1>1 DEF WalkInv, SessionHeld, Walking, Done, InBatch, Accounted, Logged, BatchReady,
              CompletedAccounted
<1>5. BeginReady'
  BY <1>1 DEF WalkInv, BeginReady, ResumableIds, Resumable
<1> QED
  BY <1>2, <1>3, <1>4, <1>5 DEF WalkInv

LEMMA NextInv == WalkInv /\ [Next]_vars => WalkInv'
<1> SUFFICES ASSUME WalkInv, [Next]_vars PROVE WalkInv'
  OBVIOUS
<1>1. ASSUME NEW s \in WalkSignatures, NEW fresh \in BOOLEAN, Start(s, fresh) PROVE WalkInv'
  BY <1>1, StartInv
<1>2. CASE Walk
  <2>1. ASSUME NEW meta \in Metas, NEW now \in Clock, Begin(meta, now) PROVE WalkInv'
    BY <2>1, BeginInv
  <2>2. CASE StartupError
    BY <2>2, ReturnInv DEF StartupError
  <2>3. CASE WriteError
    BY <2>3, ReturnInv DEF WriteError
  <2> QED
    BY <1>2, <2>1, <2>2, <2>3, ClearPausedInv, LoadCursorInv, LoadExhaustedInv,
       LoopCancelledInv, TryInv, TryValidInv, FlushInsertInv, FlushCheckpointInv, EndWalkInv
       DEF Walk
<1>3. CASE Exit \/ Crash
  BY <1>3, BecomeIdleInv DEF Exit, Crash
<1>4. ASSUME NEW s \in Signatures \ WalkSignatures, NEW meta \in Metas, NEW now \in Clock,
             OtherSweep(s, meta, now)
      PROVE  WalkInv'
  BY <1>4, OtherSweepInv
<1>5. CASE Rest \/ UNCHANGED vars
  BY <1>5, StutterInv DEF Rest
<1> QED
  BY <1>1, <1>2, <1>3, <1>4, <1>5, CancelInv DEF Next

-----------------------------------------------------------------------------
(* The persisted cursor and the one in hand.                               *)

(* A cursor comes before the next one.                                     *)
LEMMA BeforeInc ==
    ASSUME NEW e \in Odometers, ~Overflows(e), NEW c \in Upto(e)
    PROVE  Precedes(c, Inc(e)) /\ c \in Upto(Inc(e))
<1>1. c \in Odometers
  BY DEF Upto
<1>2. Precedes(c, Inc(e))
  BY <1>1, BelowInc
<1> QED
  BY <1>1, <1>2 DEF Upto

LEMMA TriedAhead ==
    ASSUME WalkInv, CursorAhead, pc \in {"loop", "lookup"}, NEW res, Tried(res),
           UNCHANGED <<sessions, sid>>
    PROVE  CursorAhead'
<1>1. cursor \in Odometers /\ ~final /\ ~overflow
  BY DEF WalkInv, TypeOK, BatchReady
<1>2. PICK p \in Upto(cursor) : p = sessions[sid].cursor
  BY <1>1 DEF CursorAhead, InLoop
<1> DEFINE rows == Append(batch, [session |-> sid, candidate |-> cursor, res |-> res])
<1>3. CASE Full(rows)
  <2>1. pc' = "insert" /\ UNCHANGED <<cursor, overflow, final>>
    BY <1>3 DEF Tried
  <2> QED
    BY <1>1, <1>2, <2>1 DEF CursorAhead
<1>4. CASE ~Full(rows)
  <2>1. Advance(rows)
    BY <1>4 DEF Tried
  <2>2. cursor' = Inc(cursor) /\ overflow' = Overflows(cursor) /\ pc' # "begin"
    BY <2>1 DEF Advance, Leave
  <2>3. ~overflow' => Precedes(p, cursor') /\ p \in Upto(cursor')
    BY <1>1, <2>2, BeforeInc
  <2>4. sessions'[sid'].cursor = p
    BY <1>2
  <2> QED
    BY <2>2, <2>3, <2>4 DEF CursorAhead
<1> QED
  BY <1>3, <1>4

LEMMA CheckpointAhead ==
    ASSUME WalkInv, FlushCheckpoint PROVE CursorAhead'
<1>1. CASE final
  <2>1. pc' = "end"
    BY <1>1 DEF FlushCheckpoint
  <2> QED
    BY <2>1 DEF CursorAhead, InLoop
<1>2. CASE ~final
  <2>1. PICK e \in Odometers : e = cursor
    BY DEF WalkInv, TypeOK
  <2>2. /\ cursor' = Inc(e) /\ overflow' = Overflows(e) /\ pc' # "begin"
        /\ batch' = <<>> /\ sid' = sid
        /\ sessions' = [sessions EXCEPT ![sid].cursor = String(e)]
    <3>1. Advance(<<>>) /\ FlushCursor = e
      BY <1>2, <2>1 DEF FlushCheckpoint, FlushCursor
    <3> QED
      BY <2>1, <3>1 DEF FlushCheckpoint, CheckpointCursor, Advance, Leave
  <2>3. sid \in DOMAIN sessions /\ sessions[sid] \in Row
    BY DEF FlushCheckpoint, WalkInv, TypeOK, StorageOK, SessionHeld, Walking
  <2>4. sessions'[sid'].cursor = e
    BY <2>2, <2>3, CursorText DEF Row
  <2>5. ~overflow' => e \in Upto(cursor')
    <3>1. e \in Upto(e)
      BY DEF Upto
    <3> QED
      BY <2>2, <3>1, BeforeInc
  <2> QED
    BY <2>2, <2>4, <2>5 DEF CursorAhead
<1> QED
  BY <1>1, <1>2

LEMMA BeginAhead ==
    ASSUME WalkInv, NEW meta \in Metas, NEW now \in Clock, Begin(meta, now)
    PROVE  CursorAhead'
<1>1. WalkInv' /\ pc' = "loop" /\ batch = <<>>
  BY BeginInv DEF Begin, WalkInv, BatchReady
<1>2. PICK e \in Odometers : e = cursor
  BY DEF WalkInv, TypeOK
<1>3. sessions'[sid'].cursor = e /\ cursor' = e /\ batch' = <<>>
  <2>1. /\ TableOK /\ UniqueResumable /\ sig \in Signatures
        /\ e \in Cursors /\ "walk" \in Modes /\ now \in Nat
    BY TableFromType, WalkRowAssumption DEF WalkInv, TypeOK, Modes
  <2>2. PICK id0 : id0 = BeginSessionId(sig)
    OBVIOUS
  <2>3. /\ sid' = id0
        /\ BeginSession([sig |-> sig, meta |-> meta, mode |-> "walk", cursor |-> e], now)
    BY <1>2, <2>2, CursorText DEF Begin
  <2>4. Begun(id0, sig, meta, "walk", e)
    BY <2>1, <2>2, <2>3, BeginFacts
  <2> QED
    BY <1>1, <1>2, <2>3, <2>4 DEF Begin, walking, Begun
<1> QED
  BY <1>1, <1>2, <1>3 DEF CursorAhead, Upto

(* A step that leaves the sessions and the walk's variables alone.         *)
LEMMA AheadFrame ==
    ASSUME CursorAhead, UNCHANGED <<sessions, sid, sig, cursor, overflow, batch>>,
           InLoop' => InLoop,
           pc' \in {"loop", "lookup"} \/ final' =>
             pc \in {"loop", "lookup"} \/ final \/ ~InLoop',
           pc' = "begin" => pc = "begin"
    PROVE  CursorAhead'
<1>1. WasResumed' = WasResumed /\ LastCursor' = LastCursor
  BY DEF WasResumed, SomeResumable, LastCursor, LatestResumable, Resumable
<1> QED
  BY <1>1 DEF CursorAhead

LEMMA AheadStep == WalkInv /\ CursorAhead /\ [Next]_vars => CursorAhead'
<1> SUFFICES ASSUME WalkInv, CursorAhead, [Next]_vars PROVE CursorAhead'
  OBVIOUS
<1> USE DEF storage, walking, control, InLoop
<1>1. CASE UNCHANGED vars \/ Cancel \/ Rest
  BY <1>1, AheadFrame DEF vars, Cancel, Rest
<1>2. ASSUME NEW s, NEW fresh, Start(s, fresh) PROVE CursorAhead'
  BY <1>2 DEF Start, CursorAhead
<1>3. CASE ClearPaused \/ LoadExhausted \/ StartupError \/ WriteError \/ EndWalk
  BY <1>3 DEF ClearPaused, LoadExhausted, StartupError, WriteError, EndWalk, CursorAhead
<1>4. CASE LoadCursor
  <2>1. /\ pc' = "begin" /\ WasResumed' = WasResumed /\ LastCursor' = LastCursor
        /\ WasResumed => ~Overflows(LastCursor) /\ cursor' = Inc(LastCursor)
    BY <1>4 DEF LoadCursor, AfterLast, WasResumed, SomeResumable, LastCursor,
       LatestResumable, Resumable
  <2> QED
    BY <2>1 DEF CursorAhead
<1>5. ASSUME NEW meta \in Metas, NEW now \in Clock, Begin(meta, now) PROVE CursorAhead'
  BY <1>5, BeginAhead
<1>6. CASE LoopCancelled
  <2>1. CASE batch = <<>>
    <3>1. pc' = "end"
      BY <1>6, <2>1 DEF LoopCancelled, Leave
    <3> QED
      BY <3>1 DEF CursorAhead
  <2>2. CASE batch # <<>>
    <3>1. pc = "loop" /\ pc' = "insert" /\ UNCHANGED <<sessions, sid, sig, cursor, overflow, batch>>
      BY <1>6, <2>2 DEF LoopCancelled, Leave
    <3> QED
      BY <3>1, AheadFrame
  <2> QED
    BY <2>1, <2>2
<1>7. CASE TryInvalid
  BY <1>7, TriedAhead DEF TryInvalid
<1>8. CASE Lookup
  <2>1. PICK res : Tried(res)
    BY <1>8 DEF Lookup
  <2> QED
    BY <1>8, <2>1, TriedAhead DEF Lookup
<1>9. CASE TryValid \/ FlushInsert
  BY <1>9, AheadFrame DEF TryValid, FlushInsert, InsertAttempts
<1>10. CASE FlushCheckpoint
  BY <1>10, CheckpointAhead
<1>11. CASE Exit \/ Crash
  BY <1>11 DEF Exit, Crash, BecomeIdle, CursorAhead
<1>12. ASSUME NEW s, NEW meta, NEW now, OtherSweep(s, meta, now) PROVE CursorAhead'
  BY <1>12 DEF OtherSweep, CursorAhead
<1> QED
  BY <1>1, <1>2, <1>3, <1>4, <1>5, <1>6, <1>7, <1>8, <1>9, <1>10, <1>11, <1>12
     DEF Next, Walk

-----------------------------------------------------------------------------
(* How many candidates a walk may leave out.                               *)

(* Candidates that are each the start of a run are no more than the runs.  *)
LEMMA FewLost ==
    ASSUME NEW id, NEW U, NEW A, IsFiniteSet(A), \A c \in U : <<id, c>> \in A
    PROVE  /\ IsFiniteSet(U) /\ Cardinality(U) \in Nat /\ Cardinality(A) \in Nat
           /\ Cardinality(U) <= Cardinality(A)
<1> DEFINE f == [c \in U |-> <<id, c>>]
<1>1. f \in Injection(U, A)
  BY DEF Injection, IsInjective
<1>2. IsFiniteSet(U) /\ Cardinality(U) <= Cardinality(A)
  <2> HIDE DEF f
  <2> QED
    BY <1>1, FS_Injection
<1> QED
  BY <1>2, FS_CardinalityType

(* A step that begins no session, and neither is in the loop nor completed. *)
LEMMA CountKept ==
    ASSUME StartsCounted, UNCHANGED <<starts, runs>>, ~Started' => ~Started,
           ~Walking', ~ (pc' = "returned" /\ outcome' = "completed")
    PROVE  StartsCounted'
BY DEF StartsCounted

(* The candidate a run began with, while it tries candidates and flushes.  *)
LEMMA FirstKept ==
    ASSUME WalkInv, StartsCounted, Walking, Walking' \/ pc' = "returned",
           NEW e \in Odometers, e = cursor,
           UNCHANGED <<sid, starts, runs>>,
           pc = "end" => batch = <<>> /\ pc' = "returned",
           pc' = "returned" => overflow \/ outcome' # "completed",
           pc \in {"loop", "lookup"} => pc' # "returned",
           \A c : Logged(sid, c) => Logged(sid, c)',
           \A c : InBatch(c) => Logged(sid, c)' \/ (pc' # "returned" /\ InBatch(c)'),
           pc \in {"loop", "lookup"} =>
               \/ InBatch(e)'
               \/ pc' \in {"loop", "lookup"} /\ UNCHANGED <<cursor, overflow, batch>>
               \/ pc' = (IF batch = <<>> THEN "end" ELSE "insert")
                  /\ UNCHANGED <<cursor, overflow, batch>>
    PROVE  StartsCounted'
<1>1. sid # 0 /\ sid' # 0 /\ starts' = starts /\ runs' = runs
  BY DEF WalkInv, SessionHeld
<1>2. Started /\ Started'
  BY <1>1 DEF Started, Walking
<1>3. PICK c \in Odometers :
        /\ <<sid, c>> \in starts
        /\ \/ Logged(sid, c)
           \/ pc # "returned" /\ InBatch(c)
           \/ pc \in {"loop", "lookup", "end"} /\ c = cursor /\ ~overflow /\ batch = <<>>
  BY DEF StartsCounted, FirstTried
<1>4. <<sid', c>> \in starts'
  BY <1>1, <1>3
<1>5. CASE Logged(sid, c)
  <2>1. FirstTried'
    BY <1>1, <1>4, <1>5 DEF FirstTried, Logged
  <2> QED
    BY <1>1, <1>2, <2>1 DEF StartsCounted
<1>6. CASE InBatch(c)
  <2>1. Logged(sid, c)' \/ (pc' # "returned" /\ InBatch(c)')
    BY <1>6
  <2>2. FirstTried'
    BY <1>1, <1>4, <2>1 DEF FirstTried, Logged
  <2> QED
    BY <1>1, <1>2, <2>2 DEF StartsCounted
<1>7. CASE c = cursor /\ pc \in {"loop", "lookup"} /\ ~overflow /\ batch = <<>>
  <2>1. \/ pc' # "returned" /\ InBatch(c)'
        \/ pc' \in {"loop", "lookup", "end"} /\ c = cursor' /\ ~overflow' /\ batch' = <<>>
    BY <1>7
  <2>2. FirstTried'
    BY <1>4, <2>1 DEF FirstTried
  <2> QED
    BY <1>1, <1>2, <2>2 DEF StartsCounted
<1>8. CASE pc = "end" /\ ~overflow
  <2>1. pc' = "returned" /\ outcome' # "completed"
    BY <1>8
  <2> QED
    BY <1>1, <1>2, <2>1 DEF StartsCounted, Walking
<1> QED
  BY <1>3, <1>5, <1>6, <1>7, <1>8

LEMMA CountInit == Init => StartsCounted
<1>1. IsFiniteSet({}) /\ Cardinality({}) = 0
  BY FS_EmptySet
<1> QED
  BY <1>1 DEF Init, StartsCounted, Started, Walking

LEMMA CountBegin ==
    ASSUME WalkInv, StartsCounted, NEW meta \in Metas, NEW now \in Clock, Begin(meta, now)
    PROVE  StartsCounted'
<1>1. PICK id0 : id0 = BeginSessionId(sig)
  OBVIOUS
<1>2. PICK e \in Odometers : e = cursor
  BY DEF WalkInv, TypeOK
<1>3. /\ pc = "begin" /\ pc' = "loop" /\ sid' = id0 /\ starts' = starts \cup {<<id0, e>>}
      /\ runs' = runs /\ cursor' = e /\ ~overflow' /\ batch' = <<>> /\ runs \in Nat
  BY <1>1, <1>2, WalkRunsAssumption DEF Begin, walking, WalkInv, BatchReady, TypeOK
<1>4. IsFiniteSet(starts) /\ Cardinality(starts) < runs
  BY <1>3 DEF StartsCounted, Started
<1>5. Cardinality(starts) \in Nat
  BY <1>4, FS_CardinalityType
<1>6. /\ IsFiniteSet(starts')
      /\ Cardinality(starts') \in {Cardinality(starts), Cardinality(starts) + 1}
  BY <1>3, <1>4, FS_AddElement
<1>7. Cardinality(starts') <= runs'
  BY <1>3, <1>4, <1>5, <1>6
<1>8. FirstTried' /\ Started'
  BY <1>3 DEF FirstTried, Started
<1> QED
  BY <1>3, <1>6, <1>7, <1>8 DEF StartsCounted

LEMMA CountTried ==
    ASSUME WalkInv, StartsCounted, pc \in {"loop", "lookup"}, NEW res, Tried(res),
           UNCHANGED <<attempts, sid, runs, starts>>
    PROVE  StartsCounted'
<1> DEFINE row == [session |-> sid, candidate |-> cursor, res |-> res]
<1>1. batch \in Seq(Attempt(Odometers)) /\ row.candidate = cursor
  BY DEF WalkInv, TypeOK
<1> HIDE DEF row
<1>2. batch' = Append(batch, row)
  BY DEF Tried, row
<1>3. /\ Len(batch') \in DOMAIN batch' /\ batch'[Len(batch')] = row
      /\ \A k \in DOMAIN batch : k \in DOMAIN batch' /\ batch'[k] = batch[k]
  BY <1>1, <1>2
<1>4. /\ \A c : InBatch(c) => InBatch(c)'
      /\ \E k \in DOMAIN batch' : batch'[k].candidate = cursor
  BY <1>1, <1>3 DEF InBatch
<1>5. pc' \in {"loop", "insert", "end"}
  BY DEF Tried, Advance, Leave
<1>6. PICK e \in Odometers : e = cursor
  BY DEF WalkInv, TypeOK
<1>7. InBatch(e)'
  BY <1>4, <1>6 DEF InBatch
<1>8. \A c : Logged(sid, c) => Logged(sid, c)'
  BY DEF Logged
<1> QED
  BY <1>4, <1>5, <1>6, <1>7, <1>8, FirstKept DEF Walking

LEMMA CountStep == WalkInv /\ StartsCounted /\ [Next]_vars => StartsCounted'
<1> SUFFICES ASSUME WalkInv, StartsCounted, [Next]_vars PROVE StartsCounted'
  OBVIOUS
<1> USE DEF storage, walking, control
<1>0. PICK e \in Odometers : e = cursor
  BY DEF WalkInv, TypeOK
<1>1. CASE UNCHANGED vars \/ Cancel \/ Rest
  <2>1. UNCHANGED <<sessions, attempts, pc, sig, sid, cursor, overflow, outcome, batch, runs, starts>>
    BY <1>1 DEF vars, Cancel, Rest
  <2>2. /\ Started' = Started /\ Walking' = Walking /\ FirstTried' = FirstTried
        /\ WasResumed' = WasResumed /\ LastCursor' = LastCursor
    BY <2>1 DEF Started, Walking, FirstTried, Logged, InBatch, WasResumed, SomeResumable,
                LastCursor, LatestResumable, Resumable
  <2> QED
    BY <2>1, <2>2 DEF StartsCounted
<1>2. ASSUME pc = "idle", runs' = runs + 1, UNCHANGED <<sid, outcome, starts>>,
             pc' \in {"idle", "fresh", "load"}
      PROVE  StartsCounted'
  <2>1. IsFiniteSet(starts) /\ Cardinality(starts) <= runs /\ runs \in Nat
    BY WalkRunsAssumption DEF StartsCounted, WalkInv, TypeOK
  <2>2. Cardinality(starts) \in Nat
    BY <2>1, FS_CardinalityType
  <2>3. Cardinality(starts') < runs'
    BY <1>2, <2>1, <2>2
  <2>4. Cardinality(starts') <= runs' /\ IsFiniteSet(starts')
    BY <1>2, <2>1, <2>2
  <2> QED
    BY <1>2, <2>3, <2>4 DEF StartsCounted, Walking
<1>3. ASSUME NEW s, NEW fresh, Start(s, fresh) PROVE StartsCounted'
  BY <1>2, <1>3 DEF Start
<1>4. ASSUME NEW s, NEW meta, NEW now, OtherSweep(s, meta, now) PROVE StartsCounted'
  BY <1>2, <1>4 DEF OtherSweep
<1>5. CASE ClearPaused \/ LoadCursor \/ StartupError
  BY <1>5, CountKept DEF ClearPaused, LoadCursor, StartupError, Started, Walking
<1>6. CASE LoadExhausted
  <2>1. /\ pc = "load" /\ pc' = "returned" /\ sid = 0 /\ sid' = 0
        /\ UNCHANGED <<starts, runs>>
        /\ WasResumed' = WasResumed /\ LastCursor' = LastCursor
        /\ WasResumed /\ Overflows(LastCursor)
    BY <1>6 DEF LoadExhausted, WalkInv, SessionHeld, WasResumed, SomeResumable,
                LastCursor, LatestResumable, Resumable
  <2> QED
    BY <2>1 DEF StartsCounted, Started, Walking
<1>7. ASSUME NEW meta \in Metas, NEW now \in Clock, Begin(meta, now) PROVE StartsCounted'
  BY <1>7, CountBegin
<1>8. CASE LoopCancelled \/ TryValid
  <2>1. /\ UNCHANGED <<attempts, sid, runs, starts, cursor, overflow, batch>>
        /\ pc = "loop"
        /\ pc' \in {"lookup", IF batch = <<>> THEN "end" ELSE "insert"}
    BY <1>8 DEF LoopCancelled, Leave, TryValid
  <2>2. \A c : (Logged(sid, c) => Logged(sid, c)') /\ (InBatch(c) => InBatch(c)')
    BY <2>1 DEF Logged, InBatch
  <2> QED
    BY <1>0, <2>1, <2>2, FirstKept DEF Walking
<1>9. CASE TryInvalid
  BY <1>9, CountTried DEF TryInvalid
<1>10. CASE Lookup
  <2>1. PICK res : Tried(res)
    BY <1>10 DEF Lookup
  <2> QED
    BY <1>10, <2>1, CountTried DEF Lookup
<1>11. CASE FlushInsert
  <2>1. /\ UNCHANGED <<sid, runs, starts, batch>>
        /\ pc = "insert" /\ pc' = "checkpoint" /\ attempts' = attempts \o batch
    BY <1>11 DEF FlushInsert, InsertAttempts
  <2>2. attempts \in Seq(Attempt(Odometers)) /\ batch \in Seq(Attempt(Odometers))
    BY DEF WalkInv, TypeOK, StorageOK
  <2>3. \A k \in DOMAIN attempts : k \in DOMAIN attempts' /\ attempts'[k] = attempts[k]
    BY <2>1, <2>2
  <2>4. \A c : (Logged(sid, c) => Logged(sid, c)') /\ (InBatch(c) => InBatch(c)')
    BY <2>1, <2>3 DEF Logged, InBatch
  <2> QED
    BY <1>0, <2>1, <2>4, FirstKept DEF Walking
<1>12. CASE FlushCheckpoint
  <2>1. /\ UNCHANGED <<attempts, sid, runs, starts>>
        /\ pc = "checkpoint" /\ pc' \in {"loop", "end"}
    BY <1>12 DEF FlushCheckpoint, CheckpointCursor, Advance, Leave
  <2>2. \A c : Logged(sid, c) => Logged(sid, c)'
    BY <2>1 DEF Logged
  <2>3. \A c : InBatch(c) => Logged(sid, c)'
    BY <2>1, <2>2 DEF WalkInv, BatchReady, InBatch
  <2> QED
    BY <1>0, <2>1, <2>2, <2>3, FirstKept DEF Walking
<1>13. CASE EndWalk
  <2>1. /\ UNCHANGED <<attempts, sid, runs, starts, overflow>>
        /\ pc = "end" /\ pc' = "returned" /\ outcome' = FinalStatus /\ batch = <<>>
    BY <1>13 DEF EndWalk, EndSession, WalkInv, BatchReady
  <2>2. overflow \/ outcome' # "completed"
    BY <2>1 DEF FinalStatus
  <2>3. \A c : (Logged(sid, c) => Logged(sid, c)') /\ ~InBatch(c)
    BY <2>1 DEF Logged, InBatch
  <2> QED
    BY <1>0, <2>1, <2>2, <2>3, FirstKept DEF Walking
<1>14. CASE WriteError
  <2>1. sid # 0
    BY <1>14 DEF WriteError, WalkInv, SessionHeld, Walking
  <2> QED
    BY <1>14, <2>1, CountKept DEF WriteError, Started, Walking
<1>15. CASE Exit \/ Crash
  BY <1>15, CountKept DEF Exit, Crash, BecomeIdle, Started, Walking
<1> QED
  BY <1>1, <1>3, <1>4, <1>5, <1>6, <1>7, <1>8, <1>9, <1>10, <1>11, <1>12, <1>13, <1>14,
     <1>15 DEF Next, Walk

(* Of the candidates without a row, none but the first ones of runs, and   *)
(* not the one that the run that ends began with.                          *)
LEMMA FewUntried == IndInv => CompletedCovered
<1> SUFFICES ASSUME IndInv, pc = "returned", outcome = "completed"
             PROVE  /\ \A c \in Untried(EndedSession) : <<EndedSession, c>> \in starts
                    /\ Cardinality(Untried(EndedSession)) < runs
  BY DEF CompletedCovered
<1>1. WalkInv /\ StartsCounted /\ runs \in Nat
  BY WalkRunsAssumption DEF IndInv, WalkInv, TypeOK
<1>2. IsFiniteSet(starts) /\ Cardinality(starts) \in Nat /\ Cardinality(starts) <= runs
  BY <1>1, FS_CardinalityType DEF StartsCounted
<1>3. CASE sid # 0
  <2>1. EndedSession = sid
    BY <1>3 DEF EndedSession
  <2>2. \A c \in Untried(sid) : <<sid, c>> \in starts
    BY <1>1, <1>3 DEF WalkInv, CompletedAccounted, Accounted, Untried
  <2>3. PICK c0 \in Odometers : <<sid, c0>> \in starts /\ Logged(sid, c0)
    BY <1>1, <1>3 DEF StartsCounted, FirstTried
  <2> DEFINE A == starts \ {<<sid, c0>>}
  <2>4. \A c \in Untried(sid) : <<sid, c>> \in A
    <3>1. \A c \in Untried(sid) : c # c0
      BY <2>3 DEF Untried
    <3> QED
      BY <2>2, <3>1
  <2>5. IsFiniteSet(A) /\ Cardinality(A) = Cardinality(starts) - 1
    BY <1>2, <2>3, FS_RemoveElement
  <2> HIDE DEF A
  <2>6. Cardinality(Untried(sid)) \in Nat /\ Cardinality(Untried(sid)) <= Cardinality(A)
    BY <2>4, <2>5, FewLost
  <2> QED
    BY <1>1, <1>2, <2>1, <2>2, <2>5, <2>6
<1>4. CASE sid = 0
  <2>1. PICK id : id = LatestResumable
    OBVIOUS
  <2>2. WasResumed /\ Overflows(LastCursor) /\ Cardinality(starts) < runs
    BY <1>1, <1>4 DEF StartsCounted, Started
  <2>3. id \in DOMAIN sessions /\ IsWalk(id)
    BY <1>1, <2>1, <2>2, LatestExists, TableFromType DEF WasResumed, WalkInv, TypeOK, IsWalk
  <2>4. PICK last \in Odometers : last = sessions[id].cursor
    BY <1>1, <2>3 DEF WalkInv, TypeOK, StorageOK
  <2>5. ParseCursor(sessions[id].cursor) = last /\ Overflows(last)
    BY <2>1, <2>2, <2>4, CursorText DEF LastCursor
  <2>6. Upto(last) = Odometers
    BY <2>5, UptoLast
  <2>7. \A c \in Untried(id) : <<id, c>> \in starts
    BY <1>1, <2>3, <2>5, <2>6 DEF WalkInv, CoveredButStarts, Accounted, Untried
  <2>8. Cardinality(Untried(id)) \in Nat /\ Cardinality(Untried(id)) <= Cardinality(starts)
    BY <1>2, <2>7, FewLost
  <2> QED
    BY <1>1, <1>2, <1>4, <2>1, <2>2, <2>7, <2>8 DEF EndedSession
<1> QED
  BY <1>3, <1>4

-----------------------------------------------------------------------------
(* The theorems.                                                           *)

(* Across cancelled, failed and killed runs the store, the cursor and the  *)
(* batch in hand account for every candidate the walk has passed, the      *)
(* cursor in hand is ahead of the persisted one, and no more candidates    *)
(* are the first ones of runs than there were runs.                        *)
THEOREM WalkInductive == Spec => []IndInv
<1>1. Init => CursorAhead /\ StartsCounted
  BY CountInit DEF Init, CursorAhead, InLoop
<1>2. WalkInv /\ CursorAhead /\ [Next]_vars => CursorAhead'
  BY AheadStep
<1>3. WalkInv /\ StartsCounted /\ [Next]_vars => StartsCounted'
  BY CountStep
<1>4. IndInv <=> WalkInv /\ CursorAhead /\ StartsCounted
  BY DEF IndInv
<1> QED
  BY <1>1, <1>2, <1>3, <1>4, InitInv, NextInv, PTL DEF Spec

LEMMA WalkKeepsInv == Spec => []WalkInv
<1>1. IndInv => WalkInv
  BY DEF IndInv
<1> QED
  BY <1>1, WalkInductive, PTL

(* The types, and that a walker never holds more than BatchSize rows.      *)
THEOREM WalkTypeCorrect == Spec => []TypeOK
<1>1. WalkInv => TypeOK
  BY DEF WalkInv
<1> QED
  BY <1>1, WalkKeepsInv, PTL

(* Wherever a run stopped, a resume skips no candidate without a row but   *)
(* the first ones of runs.                                                 *)
THEOREM WalkCoveredButStarts == Spec => []CoveredButStarts
<1>1. WalkInv => CoveredButStarts
  BY DEF WalkInv
<1> QED
  BY <1>1, WalkKeepsInv, PTL

(* A walk that reports completed has left out first candidates of runs     *)
(* only, and fewer of them than there were runs: whatever interrupted the  *)
(* runs before, each cost the walk at most the candidate it began with.    *)
THEOREM WalkCompletedCovered == Spec => []CompletedCovered
BY WalkInductive, FewUntried, PTL

-----------------------------------------------------------------------------
(* What a step does to a persisted cursor.                                 *)

Forward ==
    \A id \in DOMAIN sessions :
        IsWalk(id) /\ ~overflow
        /\ (pc = "begin" /\ Resumable(id) => LatestResumable = id) =>
           Upto(sessions[id].cursor) \subseteq Upto(sessions'[id].cursor)

LEMMA UptoBelow ==
    ASSUME NEW c \in Odometers, NEW d \in Upto(c)
    PROVE  Upto(d) \subseteq Upto(c)
<1>1. d \in Odometers
  BY DEF Upto
<1>2. ASSUME NEW e \in Odometers, Precedes(e, d), Precedes(d, c) PROVE Precedes(e, c)
  BY <1>1, <1>2, PrecedesTransitive
<1> QED
  BY <1>2 DEF Upto

(* Statements on other columns, or on the session of another signature.    *)
LEMMA ForwardSame ==
    ASSUME \A id \in DOMAIN sessions :
             IsWalk(id) => sessions'[id].cursor = sessions[id].cursor
    PROVE  Forward
BY DEF Forward

LEMMA ForwardBegin ==
    ASSUME WalkInv, CursorAhead, NEW meta \in Metas, NEW now \in Clock, Begin(meta, now)
    PROVE  Forward
<1>1. PICK id0 : id0 = BeginSessionId(sig)
  OBVIOUS
<1>2. PICK e \in Odometers : e = cursor
  BY DEF WalkInv, TypeOK
<1>3. Begun(id0, sig, meta, "walk", e) /\ pc = "begin"
  <2>1. /\ TableOK /\ UniqueResumable /\ sig \in Signatures
        /\ e \in Cursors /\ "walk" \in Modes /\ now \in Nat
    BY TableFromType, WalkRowAssumption DEF WalkInv, TypeOK, Modes
  <2>2. BeginSession([sig |-> sig, meta |-> meta, mode |-> "walk", cursor |-> e], now)
    BY <1>2, CursorText DEF Begin
  <2>3. Begun(id0, sig, meta, "walk", e)
    BY <1>1, <2>1, <2>2, BeginFacts
  <2> QED
    BY <2>3 DEF Begin
<1>4. ASSUME NEW id \in DOMAIN sessions, IsWalk(id), Resumable(id) => LatestResumable = id
      PROVE  Upto(sessions[id].cursor) \subseteq Upto(sessions'[id].cursor)
  <2>1. CASE id # id0
    BY <1>3, <2>1 DEF Begun
  <2>2. CASE id = id0
    <3>1. id0 \in ResumableIds(sig)
      BY <1>3, <2>2 DEF Begun
    <3>2. SomeResumable /\ LatestResumable = id0 /\ sessions[id0].sig = sig
      BY <1>4, <2>2, <3>1 DEF SomeResumable, ResumableIds
    <3>3. PICK last \in Odometers : last = sessions[id0].cursor
      BY <1>4, <2>2 DEF WalkInv, TypeOK, StorageOK
    <3>4. WasResumed /\ LastCursor = last
      BY <1>4, <2>2, <3>2, <3>3, CursorText DEF WasResumed, LastCursor, IsWalk
    <3>5. ~Overflows(last) /\ e = Inc(last)
      BY <1>2, <1>3, <3>4 DEF CursorAhead
    <3>6. sessions'[id0].cursor = e
      BY <1>3 DEF Begun
    <3> QED
      BY <2>2, <3>3, <3>5, <3>6, UptoInc
  <2> QED
    BY <2>1, <2>2
<1> QED
  BY <1>3, <1>4 DEF Forward

LEMMA ForwardCheckpoint ==
    ASSUME WalkInv, CursorAhead, FlushCheckpoint, ~overflow
    PROVE  Forward
<1>1. /\ pc = "checkpoint" /\ batch # <<>>
      /\ final => cursor # Zero
  BY DEF FlushCheckpoint, WalkInv, BatchReady
<1>2. PICK e \in Odometers : e = cursor
  BY DEF WalkInv, TypeOK
<1>3. PICK p : p = sessions[sid].cursor
  OBVIOUS
<1>4. p \in Upto(e) /\ (final => Precedes(p, e))
  BY <1>1, <1>2, <1>3 DEF CursorAhead, InLoop
<1>5. PICK fc : fc = FlushCursor
  OBVIOUS
<1>6. fc \in Odometers /\ p \in Upto(fc)
  <2>1. CASE final
    <3>1. fc = decCursor(e) /\ e # Zero /\ p \in Odometers
      BY <1>1, <1>2, <1>4, <1>5, <2>1 DEF FlushCursor, Upto
    <3> QED
      BY <1>4, <2>1, <3>1, DecType, BelowDec
  <2>2. CASE ~final
    BY <1>2, <1>4, <1>5, <2>2 DEF FlushCursor
  <2> QED
    BY <2>1, <2>2
<1>7. sessions' = [sessions EXCEPT ![sid].cursor = fc]
  BY <1>5, <1>6, CursorText DEF FlushCheckpoint, CheckpointCursor
<1>8. ASSUME NEW id \in DOMAIN sessions
      PROVE  Upto(sessions[id].cursor) \subseteq Upto(sessions'[id].cursor)
  <2>1. CASE id # sid
    BY <1>7, <2>1
  <2>2. CASE id = sid
    <3>1. sessions[sid] \in Row
      BY <2>2, <1>8 DEF WalkInv, TypeOK, StorageOK
    <3>2. sessions'[sid].cursor = fc
      BY <1>7, <1>8, <2>2, <3>1 DEF Row
    <3> QED
      BY <1>3, <1>6, <2>2, <3>2, UptoBelow
  <2> QED
    BY <2>1, <2>2
<1> QED
  BY <1>8 DEF Forward

LEMMA ForwardStep == IndInv /\ [Next]_vars => Forward
<1> SUFFICES ASSUME WalkInv, CursorAhead, [Next]_vars PROVE Forward
  BY DEF IndInv
<1> USE DEF storage
<1>1. CASE UNCHANGED vars \/ Cancel \/ Rest
  BY <1>1, ForwardSame DEF vars, Cancel, Rest
<1>2. ASSUME NEW s, NEW fresh, Start(s, fresh) PROVE Forward
  BY <1>2, ForwardSame DEF Start
<1>3. CASE LoadCursor \/ LoadExhausted \/ StartupError \/ WriteError \/ LoopCancelled
           \/ TryInvalid \/ TryValid \/ Lookup \/ FlushInsert \/ Exit \/ Crash
  BY <1>3, ForwardSame DEF LoadCursor, LoadExhausted, StartupError, WriteError,
     LoopCancelled, TryInvalid, TryValid, Lookup, FlushInsert, InsertAttempts, Exit, Crash,
     BecomeIdle
<1>4. CASE ClearPaused \/ EndWalk
  <2>1. StatusOnly
    <3>1. TableOK /\ UniqueResumable
      BY TableFromType DEF WalkInv, TypeOK
    <3>2. CASE ClearPaused
      BY <3>1, <3>2, MarkFacts DEF ClearPaused
    <3>3. CASE EndWalk
      <4>1. sid \in DOMAIN sessions /\ Resumable(sid)
        BY <3>3 DEF EndWalk, WalkInv, TypeOK, SessionHeld, Walking, Resumable
      <4>2. FinalStatus \in {"paused", "completed"}
        BY DEF FinalStatus
      <4>3. EndSession(sid, FinalStatus)
        BY <3>3 DEF EndWalk
      <4> QED
        BY <3>1, <4>1, <4>2, <4>3, EndFacts
    <3> QED
      BY <1>4, <3>2, <3>3
  <2> QED
    BY <2>1, ForwardSame DEF StatusOnly
<1>5. ASSUME NEW meta \in Metas, NEW now \in Clock, Begin(meta, now) PROVE Forward
  BY <1>5, ForwardBegin
<1>6. CASE FlushCheckpoint
  BY <1>6, ForwardCheckpoint DEF Forward
<1>7. ASSUME NEW s \in Signatures \ WalkSignatures, NEW meta \in Metas, NEW now \in Clock,
             OtherSweep(s, meta, now)
      PROVE  Forward
  <2>1. PICK id0 : id0 = BeginSessionId(s)
    OBVIOUS
  <2>2. Begun(id0, s, meta, "sweep", NoCursor)
    <3>1. /\ TableOK /\ UniqueResumable /\ s \in Signatures
          /\ NoCursor \in Cursors /\ "sweep" \in Modes /\ now \in Nat
      BY TableFromType, WalkRowAssumption DEF WalkInv, TypeOK, Modes
    <3>2. BeginSession([sig |-> s, meta |-> meta, mode |-> "sweep", cursor |-> NoCursor], now)
      BY <1>7 DEF OtherSweep
    <3> HIDE DEF NoCursor
    <3> QED
      BY <2>1, <3>1, <3>2, BeginFacts
  <2>3. ASSUME NEW id \in DOMAIN sessions, IsWalk(id) PROVE id # id0
    <3>1. id0 \in DOMAIN sessions => sessions[id0].sig = s
      BY <2>2 DEF Begun, ResumableIds, TableOK
    <3>2. sessions[id].sig \in WalkSignatures
      BY <2>3 DEF WalkInv, TypeOK, StorageOK
    <3> QED
      BY <3>1, <3>2
  <2> QED
    BY <2>2, <2>3, ForwardSame DEF Begun
<1> QED
  BY <1>1, <1>2, <1>3, <1>4, <1>5, <1>6, <1>7 DEF Next, Walk

(* The persisted cursor of a session never goes back, but where a walk     *)
(* wraps or starts over in a session that is not the latest.               *)
THEOREM WalkCursorForward == Spec => CursorForward
<1>1. CursorForward <=> [][Forward]_vars
  BY PTL DEF CursorForward, Forward
<1>2. IndInv /\ [Next]_vars => [Forward]_vars
  BY ForwardStep
<1> QED
  BY <1>1, <1>2, WalkInductive, PTL DEF Spec
-----------------------------------------------------------------------------
(* Walks of one signature that only cancellation and failing lookups       *)
(* disturb.                                                                *)

LEMMA SameRows ==
    ASSUME RowsBehind, attempts' = attempts, DOMAIN sessions \subseteq DOMAIN sessions',
           \A id \in DOMAIN sessions' :
             Resumable(id)' /\ ~ (id = sid /\ Walking /\ (pc = "checkpoint" \/ overflow))' =>
               /\ id \in DOMAIN sessions /\ Resumable(id)
               /\ ~ (id = sid /\ Walking /\ (pc = "checkpoint" \/ overflow))
               /\ sessions'[id].cursor = sessions[id].cursor
    PROVE  RowsBehind'
<1>1. \A id, c : Logged(id, c)' <=> Logged(id, c)
  BY DEF Logged
<1> QED
  BY <1>1 DEF RowsBehind

LEMMA SameBatch ==
    ASSUME BatchAscends, UNCHANGED <<attempts, batch, sid>>,
           pc' # "checkpoint" => pc # "checkpoint" \/ batch = <<>>,
           InLoop' => InLoop /\ \A c \in Odometers : Done(c) => Done(c)'
    PROVE  BatchAscends'
<1>1. \A id, c : Logged(id, c)' <=> Logged(id, c)
  BY DEF Logged
<1>2. \A c : InBatch(c)' <=> InBatch(c)
  BY DEF InBatch
<1> QED
  BY <1>1, <1>2 DEF BatchAscends

LEMMA EmptyBatch ==
    ASSUME batch' = <<>>, ~InLoop' PROVE BatchAscends'
BY DEF BatchAscends

LEMMA SameOrder == WalkAscends /\ attempts' = attempts => WalkAscends'
BY DEF WalkAscends

(* There is one signature, so at most one session to resume.               *)
LEMMA OneToResume ==
    ASSUME Undisturbed, WalkInv, NEW id \in ResumableIds(sig)
    PROVE  /\ SomeResumable /\ LatestResumable = id /\ WasResumed
           /\ sessions[id].cursor \in Odometers /\ LastCursor = sessions[id].cursor
<1>1. TableOK /\ UniqueResumable /\ StorageOK /\ sig \in WalkSignatures
  BY TableFromType DEF WalkInv, TypeOK
<1>2. id \in DOMAIN sessions /\ Resumable(id) /\ sessions[id].sig = sig /\ SomeResumable
  BY DEF ResumableIds, SomeResumable
<1>3. PICK latest : latest = LatestResumable
  OBVIOUS
<1>4. latest \in DOMAIN sessions /\ Resumable(latest)
  BY <1>1, <1>2, <1>3, LatestExists
<1>5. sessions[latest].sig = sessions[id].sig
  <2>1. sessions[latest].sig \in Signatures /\ sessions[id].sig \in Signatures
    BY <1>1, <1>2, <1>4 DEF StorageOK, Row
  <2> QED
    BY <2>1 DEF Undisturbed
<1>6. latest = id
  BY <1>1, <1>2, <1>4, <1>5 DEF UniqueResumable
<1>7. IsWalk(id) /\ sessions[id].cursor \in Odometers
  BY <1>1, <1>2 DEF StorageOK
<1> QED
  BY <1>2, <1>3, <1>6, <1>7, CursorText DEF WasResumed, LastCursor, IsWalk

LEMMA AscendingBegin ==
    ASSUME Undisturbed, WalkInv, CursorAhead, Ascending,
           NEW meta \in Metas, NEW now \in Clock, Begin(meta, now)
    PROVE  Ascending'
<1>1. PICK id0 : id0 = BeginSessionId(sig)
  OBVIOUS
<1>2. PICK e \in Odometers : e = cursor
  BY DEF WalkInv, TypeOK
<1>3. /\ pc = "begin" /\ pc' = "loop" /\ sid = 0 /\ sid' = id0
      /\ batch' = <<>> /\ ~overflow /\ ~overflow' /\ cursor' = e
  BY <1>1, <1>2 DEF Begin, walking, WalkInv, SessionHeld, BatchReady
<1>4. Begun(id0, sig, meta, "walk", e)
  <2>1. /\ TableOK /\ UniqueResumable /\ sig \in Signatures
        /\ e \in Cursors /\ "walk" \in Modes /\ now \in Nat
    BY TableFromType, WalkRowAssumption DEF WalkInv, TypeOK, Modes
  <2>2. BeginSession([sig |-> sig, meta |-> meta, mode |-> "walk", cursor |-> e], now)
    BY <1>2, CursorText DEF Begin
  <2> QED
    BY <1>1, <2>1, <2>2, BeginFacts
<1>5. ASSUME NEW c \in Odometers, Logged(id0, c) PROVE Precedes(c, e)
  <2>1. id0 \in DOMAIN sessions
    BY <1>5 DEF Logged, Ascending, RowsBehind
  <2>2. id0 \in ResumableIds(sig)
    BY <1>4, <2>1 DEF Begun
  <2>3. PICK last \in Odometers : last = sessions[id0].cursor
    BY <2>2, OneToResume
  <2>4. ~Overflows(last) /\ e = Inc(last)
    BY <1>2, <1>3, <2>2, <2>3, OneToResume DEF CursorAhead
  <2>5. c \in Upto(last)
    BY <1>3, <1>5, <2>1, <2>2, <2>3 DEF Ascending, RowsBehind, ResumableIds, Walking
  <2> QED
    BY <2>4, <2>5, BeforeInc
<1>6. \A id, c : Logged(id, c)' <=> Logged(id, c)
  BY <1>4 DEF Begun, Logged
<1>7. BatchAscends'
  <2>1. \A c \in Odometers : Logged(id0, c) => Done(c)'
    BY <1>3, <1>5 DEF Done
  <2>2. \A c : ~InBatch(c)'
    BY <1>3 DEF InBatch
  <2> QED
    BY <1>3, <1>6, <2>1, <2>2 DEF BatchAscends
<1>8. RowsBehind'
  <2>1. \A k \in DOMAIN attempts' : attempts'[k].session \in DOMAIN sessions'
    BY <1>4 DEF Begun, Ascending, RowsBehind
  <2>2. ASSUME NEW id \in DOMAIN sessions', Resumable(id)', NEW c \in Odometers, Logged(id, c)'
        PROVE  c \in Upto(sessions'[id].cursor)
    <3>1. Logged(id, c)
      BY <1>6, <2>2
    <3>2. CASE id = id0
      BY <1>4, <1>5, <3>1, <3>2 DEF Begun, Upto
    <3>3. CASE id # id0
      <4>1. id \in DOMAIN sessions /\ sessions'[id] = sessions[id]
        BY <1>4, <3>3 DEF Begun
      <4>2. Resumable(id)
        BY <2>2, <4>1 DEF Resumable
      <4> QED
        BY <1>3, <3>1, <4>1, <4>2 DEF Ascending, RowsBehind, Walking
    <3> QED
      BY <3>2, <3>3
  <2> QED
    BY <2>1, <2>2 DEF RowsBehind
<1>9. WalkAscends'
  BY <1>4, SameOrder DEF Ascending, Begun
<1> QED
  BY <1>7, <1>8, <1>9 DEF Ascending

LEMMA AscendingTried ==
    ASSUME WalkInv, Ascending, pc \in {"loop", "lookup"}, NEW res \in Results, Tried(res),
           UNCHANGED <<storage, sid>>
    PROVE  Ascending'
<1> USE DEF storage
<1>1. PICK e \in Odometers : e = cursor
  BY DEF WalkInv, TypeOK
<1>2. PICK row : row = [session |-> sid, candidate |-> e, res |-> res]
  OBVIOUS
<1>3. ~final /\ ~overflow /\ batch \in Seq(Attempt(Odometers))
  BY DEF WalkInv, TypeOK, BatchReady
<1>4. row \in Attempt(Odometers) /\ row.candidate = e
  BY <1>1, <1>2 DEF WalkInv, TypeOK, StorageOK, Attempt
<1>5. batch' = Append(batch, row)
  BY <1>1, <1>2 DEF Tried
<1>6. /\ \A k \in DOMAIN batch : k \in DOMAIN batch' /\ batch'[k] = batch[k]
      /\ \A k \in DOMAIN batch' : k \in DOMAIN batch \/ batch'[k] = row
      /\ \A j, k \in DOMAIN batch' : j < k => j \in DOMAIN batch
  BY <1>3, <1>4, <1>5
<1>7. \A c \in Odometers : Logged(sid, c) \/ InBatch(c) => Precedes(c, e)
  BY <1>1, <1>3 DEF Ascending, BatchAscends, InLoop, Done
<1>8. \A c \in Odometers : c \in Upto(e) => Done(c)'
  <2>1. CASE Full(batch')
    <3>1. pc' = "insert" /\ cursor' = e /\ final' = final
      BY <1>1, <1>2, <1>5, <2>1 DEF Tried
    <3> QED
      BY <1>3, <3>1 DEF Done, Upto
  <2>2. CASE ~Full(batch')
    <3>1. cursor' = Inc(e) /\ overflow' = Overflows(e)
      BY <1>1, <1>2, <1>5, <2>2 DEF Tried, Advance
    <3> QED
      BY <3>1, BeforeInc DEF Done
  <2> QED
    BY <2>1, <2>2
<1>9. pc' # "checkpoint"
  BY DEF Tried, Advance, Leave
<1>10. \A id, c : Logged(id, c)' <=> Logged(id, c)
  BY DEF Logged
<1>11. \A k \in DOMAIN batch : batch[k].candidate \in Odometers /\ InBatch(batch[k].candidate)
  <2>1. \A k \in DOMAIN batch : batch[k] \in Attempt(Odometers)
    BY <1>3
  <2>2. \A k \in DOMAIN batch : batch[k].candidate \in Odometers
    BY <2>1 DEF Attempt
  <2> QED
    BY <2>2 DEF InBatch
<1>12. BatchAscends'
  <2>1. ASSUME NEW j \in DOMAIN batch', NEW k \in DOMAIN batch', j < k
        PROVE  Precedes(batch'[j].candidate, batch'[k].candidate)
    <3>1. j \in DOMAIN batch /\ batch'[j] = batch[j]
      BY <1>6, <2>1
    <3>2. CASE k \in DOMAIN batch
      BY <1>6, <2>1, <3>1, <3>2 DEF Ascending, BatchAscends
    <3>3. CASE batch'[k] = row
      BY <1>4, <1>7, <1>11, <3>1, <3>3
    <3> QED
      BY <1>6, <3>2, <3>3
  <2>2. ASSUME NEW k \in DOMAIN batch', NEW c \in Odometers, Logged(sid, c)
        PROVE  Precedes(c, batch'[k].candidate)
    <3>1. CASE k \in DOMAIN batch
      <4>1. pc # "checkpoint" /\ batch'[k] = batch[k]
        BY <1>6, <3>1
      <4> QED
        BY <2>2, <3>1, <4>1 DEF Ascending, BatchAscends
    <3>2. CASE batch'[k] = row
      BY <1>4, <1>7, <2>2, <3>2
    <3> QED
      BY <1>6, <3>1, <3>2
  <2>3. \A c \in Odometers : InBatch(c)' => c \in Upto(e)
    <3>1. \A c \in Odometers : InBatch(c)' => InBatch(c) \/ c = e
      BY <1>4, <1>6 DEF InBatch
    <3> QED
      BY <1>7, <3>1 DEF Upto
  <2>4. \A c \in Odometers : Logged(sid, c) => c \in Upto(e)
    BY <1>7 DEF Upto
  <2> QED
    BY <1>8, <1>9, <1>10, <2>1, <2>2, <2>3, <2>4 DEF BatchAscends
<1>13. RowsBehind'
  BY <1>3, SameRows DEF Ascending, Resumable
<1> QED
  BY <1>12, <1>13, SameOrder DEF Ascending

LEMMA AscendingInsert ==
    ASSUME WalkInv, Ascending, FlushInsert PROVE Ascending'
<1>1. /\ pc = "insert" /\ pc' = "checkpoint" /\ attempts' = attempts \o batch
      /\ UNCHANGED <<sessions, sid, cursor, overflow, final, batch>>
      /\ sid \in DOMAIN sessions
  BY DEF FlushInsert, InsertAttempts, walking, WalkInv, TypeOK, SessionHeld, Walking
<1>2. /\ attempts \in Seq(Attempt(Odometers)) /\ batch \in Seq(Attempt(Odometers))
      /\ \A k \in DOMAIN batch : batch[k].session = sid
  BY DEF WalkInv, TypeOK, StorageOK, BatchReady
<1>3. PICK n \in Nat : n = Len(attempts) /\ DOMAIN attempts = 1 .. n
  BY <1>2
<1>4. /\ \A k \in DOMAIN attempts : attempts'[k] = attempts[k]
      /\ \A k \in DOMAIN attempts' :
           \/ k \in DOMAIN attempts
           \/ k - n \in DOMAIN batch /\ attempts'[k] = batch[k - n]
      /\ \A j, k \in DOMAIN attempts' : j < k /\ k \in DOMAIN attempts => j \in DOMAIN attempts
      /\ \A j, k \in DOMAIN attempts' : j < k => j - n < k - n
  BY <1>1, <1>2, <1>3
<1>5. WalkAscends'
  <2>1. ASSUME NEW j \in DOMAIN attempts', NEW k \in DOMAIN attempts', j < k,
               attempts'[j].session = attempts'[k].session
        PROVE  Precedes(attempts'[j].candidate, attempts'[k].candidate)
    <3>1. CASE k \in DOMAIN attempts
      BY <1>4, <2>1, <3>1 DEF Ascending, WalkAscends
    <3>2. CASE k \notin DOMAIN attempts /\ j \in DOMAIN attempts
      <4>1. k - n \in DOMAIN batch /\ attempts'[k] = batch[k - n] /\ attempts'[j] = attempts[j]
        BY <1>4, <3>2
      <4>2. attempts[j].session = sid
        BY <1>2, <2>1, <4>1
      <4>3. attempts[j] \in Attempt(Odometers)
        BY <1>2, <3>2
      <4>4. attempts[j].candidate \in Odometers
        BY <4>3 DEF Attempt
      <4>5. Logged(sid, attempts[j].candidate)
        BY <3>2, <4>2 DEF Logged
      <4> QED
        BY <1>1, <4>1, <4>4, <4>5 DEF Ascending, BatchAscends
    <3>3. CASE k \notin DOMAIN attempts /\ j \notin DOMAIN attempts
      <4>1. /\ k - n \in DOMAIN batch /\ attempts'[k] = batch[k - n]
            /\ j - n \in DOMAIN batch /\ attempts'[j] = batch[j - n] /\ j - n < k - n
        BY <1>4, <2>1, <3>3
      <4> QED
        BY <4>1 DEF Ascending, BatchAscends
    <3> QED
      BY <3>1, <3>2, <3>3
  <2> QED
    BY <2>1 DEF WalkAscends
<1>6. \A id, c : Logged(id, c)' => Logged(id, c) \/ (id = sid /\ InBatch(c))
  BY <1>2, <1>4 DEF Logged, InBatch
<1>7. BatchAscends'
  <2>1. \A c : InBatch(c)' <=> InBatch(c)
    BY <1>1 DEF InBatch
  <2>2. \A c : Done(c)' <=> Done(c)
    BY <1>1 DEF Done
  <2> QED
    BY <1>1, <1>6, <2>1, <2>2 DEF Ascending, BatchAscends, InLoop
<1>8. RowsBehind'
  <2>1. ASSUME NEW k \in DOMAIN attempts' PROVE attempts'[k].session \in DOMAIN sessions'
    BY <1>1, <1>2, <1>4 DEF Ascending, RowsBehind
  <2>2. ASSUME NEW id \in DOMAIN sessions, id # sid, Resumable(id), NEW c \in Odometers,
               Logged(id, c)'
        PROVE  c \in Upto(sessions[id].cursor)
    BY <1>6, <2>2 DEF Ascending, RowsBehind
  <2>3. Walking' /\ \A id : Resumable(id)' <=> Resumable(id)
    BY <1>1 DEF Walking, Resumable
  <2> QED
    BY <1>1, <2>1, <2>2, <2>3 DEF RowsBehind
<1> QED
  BY <1>5, <1>7, <1>8 DEF Ascending

LEMMA AscendingCheckpoint ==
    ASSUME WalkInv, Ascending, FlushCheckpoint PROVE Ascending'
<1>1. PICK fc : fc = FlushCursor
  OBVIOUS
<1>2. PICK e \in Odometers : e = cursor
  BY DEF WalkInv, TypeOK
<1>3. /\ pc = "checkpoint" /\ batch' = <<>> /\ UNCHANGED <<attempts, sid>>
      /\ sessions' = [sessions EXCEPT ![sid].cursor = String(fc)]
      /\ overflow => final
      /\ final /\ ~overflow => e # Zero
  BY <1>1, <1>2 DEF FlushCheckpoint, CheckpointCursor, WalkInv, BatchReady
<1>4. fc \in Odometers
  BY <1>1, <1>3, FlushFacts
<1>5. sid \in DOMAIN sessions /\ sessions[sid] \in Row
  BY <1>3 DEF WalkInv, TypeOK, StorageOK, SessionHeld, Walking
<1>6. /\ DOMAIN sessions' = DOMAIN sessions
      /\ \A id \in DOMAIN sessions : id # sid => sessions'[id] = sessions[id]
      /\ sessions'[sid].cursor = fc /\ sessions'[sid].status = sessions[sid].status
  BY <1>3, <1>4, <1>5, CursorText DEF Row
<1>7. \A c \in Odometers : Logged(sid, c) => Done(c)
  BY <1>3 DEF Ascending, BatchAscends, InLoop
<1>8. ~overflow => \A c \in Odometers : Logged(sid, c) => c \in Upto(fc)
  <2>1. CASE final /\ ~overflow
    <3>1. fc = decCursor(e) /\ \A c \in Odometers : Done(c) => Precedes(c, e)
      BY <1>1, <1>2, <2>1 DEF FlushCursor, Done
    <3> QED
      BY <1>3, <1>7, <2>1, <3>1, BelowDec
  <2>2. CASE ~final
    <3>1. fc = e /\ \A c \in Odometers : Done(c) => c \in Upto(e)
      BY <1>1, <1>2, <1>3, <2>2 DEF FlushCursor, Done, Upto
    <3> QED
      BY <1>7, <3>1
  <2> QED
    BY <2>1, <2>2
<1>9. \/ final /\ pc' = "end" /\ overflow' = overflow
      \/ /\ ~final /\ fc = e /\ cursor' = Inc(e) /\ overflow' = Overflows(e)
         /\ pc' = (IF overflow' THEN "end" ELSE "loop")
  BY <1>1, <1>2 DEF FlushCheckpoint, Advance, Leave, FlushCursor
<1>10. \A id, c : Logged(id, c)' <=> Logged(id, c)
  BY <1>3 DEF Logged
<1>11. BatchAscends'
  <2>1. CASE pc' = "end"
    BY <1>3, <2>1, EmptyBatch DEF InLoop
  <2>2. CASE pc' # "end"
    <3>1. ~overflow /\ ~Overflows(e) /\ fc = e /\ cursor' = Inc(e)
      BY <1>3, <1>9, <2>2
    <3>2. \A c \in Odometers : Logged(sid, c) => Done(c)'
      BY <1>8, <3>1, BeforeInc DEF Done
    <3>3. \A c : ~InBatch(c)'
      BY <1>3 DEF InBatch
    <3> QED
      BY <1>3, <1>10, <3>2, <3>3 DEF BatchAscends
  <2> QED
    BY <2>1, <2>2
<1>12. RowsBehind'
  <2>1. \A k \in DOMAIN attempts' : attempts'[k].session \in DOMAIN sessions'
    BY <1>3, <1>6 DEF Ascending, RowsBehind
  <2>2. Walking' /\ (~overflow' => ~overflow)
    BY <1>3, <1>9 DEF Walking
  <2>3. ASSUME NEW id \in DOMAIN sessions, Resumable(id)', ~ (id = sid /\ overflow'),
               NEW c \in Odometers, Logged(id, c)
        PROVE  c \in Upto(sessions'[id].cursor)
    <3>1. CASE id = sid
      BY <1>6, <1>8, <2>2, <2>3, <3>1
    <3>2. CASE id # sid
      <4>1. sessions'[id] = sessions[id] /\ Resumable(id)
        BY <1>6, <2>3, <3>2 DEF Resumable
      <4> QED
        BY <2>3, <3>2, <4>1 DEF Ascending, RowsBehind
    <3> QED
      BY <3>1, <3>2
  <2> QED
    BY <1>3, <1>6, <1>10, <2>1, <2>2, <2>3 DEF RowsBehind
<1> QED
  BY <1>3, <1>11, <1>12, SameOrder DEF Ascending

LEMMA AscendingStep ==
    ASSUME Undisturbed, WalkInv, CursorAhead, Ascending, [Next]_vars PROVE Ascending'
<1> USE DEF storage, walking, control, InLoop
<1>0. /\ pc \in {"idle", "fresh", "load", "begin"} => sid = 0
      /\ pc \notin {"loop", "lookup", "insert", "checkpoint", "returned"} => batch = <<>>
      /\ pc \in {"loop", "lookup"} => ~overflow
      /\ \A id \in DOMAIN sessions : id # 0
  BY DEF WalkInv, SessionHeld, BatchReady, TypeOK, StorageOK
<1>1. CASE UNCHANGED vars \/ Cancel \/ Rest
  <2>1. UNCHANGED <<sessions, attempts, pc, sid, cursor, overflow, final, batch>>
    BY <1>1 DEF vars, Cancel, Rest
  <2>2. \A c : Done(c)' <=> Done(c)
    BY <2>1 DEF Done
  <2> QED
    BY <2>1, <2>2, SameRows, SameBatch, SameOrder DEF Ascending, Walking, Resumable
<1>2. ASSUME NEW s, NEW fresh, Start(s, fresh) PROVE Ascending'
  <2>1. /\ pc = "idle" /\ pc' \in {"fresh", "load"}
        /\ UNCHANGED <<sessions, attempts, sid, overflow, batch>>
    BY <1>2 DEF Start
  <2> QED
    BY <1>0, <2>1, SameRows, EmptyBatch, SameOrder DEF Ascending, Walking, Resumable
<1>3. CASE LoadCursor \/ LoadExhausted \/ StartupError
  <2>1. /\ pc \in {"fresh", "load", "begin"} /\ pc' \in {"begin", "returned"}
        /\ UNCHANGED <<sessions, attempts, sid, overflow, batch>>
    BY <1>3 DEF LoadCursor, LoadExhausted, StartupError
  <2> QED
    BY <1>0, <2>1, SameRows, EmptyBatch, SameOrder DEF Ascending, Walking, Resumable
<1>4. CASE ClearPaused
  <2>1. /\ pc = "fresh" /\ pc' = "load" /\ DOMAIN sessions' = DOMAIN sessions
        /\ UNCHANGED <<attempts, sid, overflow, batch>>
    BY <1>4 DEF ClearPaused, MarkPausedAsCompleted
  <2>2. ASSUME NEW id \in DOMAIN sessions, Resumable(id)'
        PROVE  Resumable(id) /\ sessions'[id].cursor = sessions[id].cursor
    <3>1. sessions[id] \in Row
      BY DEF WalkInv, TypeOK, StorageOK
    <3>2. \/ sessions'[id] = sessions[id]
          \/ sessions'[id] = [sessions[id] EXCEPT !.status = "completed"]
      BY <1>4 DEF ClearPaused, MarkPausedAsCompleted
    <3>3. sessions'[id].status # "completed"
      BY <2>2 DEF Resumable
    <3> QED
      BY <2>2, <3>1, <3>2, <3>3 DEF Resumable, Row
  <2> QED
    BY <1>0, <2>1, <2>2, SameRows, EmptyBatch, SameOrder DEF Ascending, Walking
<1>5. ASSUME NEW meta \in Metas, NEW now \in Clock, Begin(meta, now) PROVE Ascending'
  BY <1>5, AscendingBegin
<1>6. CASE LoopCancelled
  <2>1. /\ pc = "loop" /\ pc' \in {"end", "insert"}
        /\ UNCHANGED <<sessions, attempts, sid, cursor, overflow, batch>>
    BY <1>6 DEF LoopCancelled, Leave
  <2>2. \A c : Done(c) => Done(c)'
    BY <2>1 DEF Done
  <2> QED
    BY <2>1, <2>2, SameRows, SameBatch, SameOrder DEF Ascending, Walking, Resumable
<1>7. CASE TryInvalid
  <2>1. "skipped" \in Results
    BY DEF Results
  <2> QED
    BY <1>7, <2>1, AscendingTried DEF TryInvalid
<1>8. CASE Lookup
  <2>1. PICK res \in Results : Tried(res)
    BY <1>8 DEF Lookup, Answer, Results
  <2> QED
    BY <1>8, <2>1, AscendingTried DEF Lookup
<1>9. CASE TryValid
  <2>1. /\ pc = "loop" /\ pc' = "lookup"
        /\ UNCHANGED <<sessions, attempts, sid, cursor, overflow, final, batch>>
    BY <1>9 DEF TryValid
  <2>2. \A c : Done(c) => Done(c)'
    BY <2>1 DEF Done
  <2> QED
    BY <2>1, <2>2, SameRows, SameBatch, SameOrder DEF Ascending, Walking, Resumable
<1>10. CASE FlushInsert
  BY <1>10, AscendingInsert
<1>11. CASE FlushCheckpoint
  BY <1>11, AscendingCheckpoint
<1>12. CASE EndWalk
  <2>1. /\ pc = "end" /\ pc' = "returned" /\ EndSession(sid, FinalStatus)
        /\ UNCHANGED <<attempts, sid, overflow, batch>>
    BY <1>12 DEF EndWalk, EndSession
  <2>2. sid \in DOMAIN sessions /\ sessions[sid] \in Row
    BY <2>1 DEF WalkInv, TypeOK, StorageOK, SessionHeld, Walking
  <2>3. /\ DOMAIN sessions' = DOMAIN sessions
        /\ \A id \in DOMAIN sessions : id # sid => sessions'[id] = sessions[id]
        /\ sessions'[sid].cursor = sessions[sid].cursor
        /\ sessions'[sid].status = FinalStatus
    BY <2>1, <2>2 DEF EndSession, Row
  <2>4. ASSUME NEW id \in DOMAIN sessions, Resumable(id)'
        PROVE  /\ Resumable(id) /\ ~ (id = sid /\ overflow)
               /\ sessions'[id].cursor = sessions[id].cursor
    <3>1. CASE id = sid
      <4>1. ~overflow
        BY <2>3, <2>4, <3>1 DEF FinalStatus, Resumable
      <4>2. Resumable(sid)
        BY <2>1 DEF WalkInv, SessionHeld, Walking, Resumable
      <4> QED
        BY <2>3, <3>1, <4>1, <4>2
    <3>2. CASE id # sid
      BY <2>3, <2>4, <3>2 DEF Resumable
    <3> QED
      BY <3>1, <3>2
  <2> QED
    BY <1>0, <2>1, <2>3, <2>4, SameRows, EmptyBatch, SameOrder DEF Ascending
<1>13. CASE Exit
  <2>1. /\ pc = "returned" /\ pc' = "idle" /\ sid' = 0 /\ batch' = <<>>
        /\ UNCHANGED <<sessions, attempts>>
    BY <1>13 DEF Exit, BecomeIdle
  <2> QED
    BY <2>1, SameRows, EmptyBatch, SameOrder DEF Ascending, Walking, Resumable
<1>14. ~WriteError /\ ~Crash
  BY DEF Undisturbed, WriteError, Crash
<1>15. Signatures \ WalkSignatures = {}
  BY DEF Undisturbed
<1> QED
  BY <1>1, <1>2, <1>3, <1>4, <1>5, <1>6, <1>7, <1>8, <1>9, <1>10, <1>11, <1>12, <1>13,
     <1>14, <1>15 DEF Next, Walk

(* The rows of a session ascend over all its runs, as long as all walks    *)
(* have one signature and neither the database nor a process fails.        *)
THEOREM WalkRowsAscend ==
    ASSUME Undisturbed PROVE Spec => []WalkAscends
<1>1. Init => Ascending
  <2> SUFFICES ASSUME Init PROVE Ascending
    OBVIOUS
  <2>1. sessions = [id \in {} |-> {}] /\ attempts = <<>> /\ batch = <<>> /\ pc = "idle"
    BY DEF Init, StorageInit
  <2> QED
    BY <2>1 DEF Ascending, WalkAscends, BatchAscends, RowsBehind, InLoop
<1>2. WalkInv /\ CursorAhead /\ Ascending /\ [Next]_vars => Ascending'
  BY AscendingStep
<1>3. Ascending => WalkAscends
  BY DEF Ascending
<1>4. IndInv => WalkInv /\ CursorAhead
  BY DEF IndInv
<1> QED
  BY <1>1, <1>2, <1>3, <1>4, WalkInductive, PTL DEF Spec
=============================================================================
