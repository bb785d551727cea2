---------------------------- MODULE SweepProofs ----------------------------
(***************************************************************************)
(* Proofs about SweepPipeline, for every word list, number of derivers,    *)
(* batch size, set of faults and number of runs.                           *)
(***************************************************************************)
EXTENDS SweepProperties, SequenceTheorems, FiniteSetTheorems,
        WellFoundedInduction, TLAPS

-----------------------------------------------------------------------------
(* The store.                                                              *)

(* A non-empty set of session ids has a highest one.                       *)
LEMMA HighestExists ==
    ASSUME NEW n \in Nat, NEW S, S \subseteq 1 .. n, S # {}
    PROVE  \E m \in S : \A x \in S : x <= m
<1> DEFINE T == {n - x : x \in S}
<1>1. \A x \in S : x \in Int /\ n - x \in Nat
  OBVIOUS
<1>2. T \subseteq Nat /\ T # {}
  BY <1>1
<1>3. PICK t \in T : \A u \in T : ~ (<<u, t>> \in OpToRel(<, Nat))
  <2> HIDE DEF T
  <2> QED
    BY <1>2, WFMin, NatLessThanWellFounded
<1>4. PICK m \in S : t = n - m
  OBVIOUS
<1>5. ASSUME NEW x \in S PROVE x <= m
  <2>1. ~ (<<n - x, n - m>> \in OpToRel(<, Nat))
    BY <1>3, <1>4
  <2>2. ~ (n - x < n - m)
    BY <2>1, <1>1 DEF OpToRel
  <2> QED
    BY <2>2, <1>1
<1> QED
  BY <1>5

(* What Resume and BeginSession look up is one of the resumable sessions   *)
(* of the signature.                                                       *)
LEMMA LatestIsResumable ==
    ASSUME StorageOK, NEW s, ResumableIds(s) # {}
    PROVE  LatestId(ResumableIds(s)) \in ResumableIds(s)
<1> DEFINE S == ResumableIds(s)
<1>1. S \subseteq 1 .. lastId /\ lastId \in Nat
  BY DEF ResumableIds, StorageOK
<1>2. \E m \in S : \A x \in S : x <= m
  <2> HIDE DEF S
  <2> QED
    BY <1>1, HighestExists DEF S
<1> QED
  BY <1>2 DEF LatestId

LEMMA CapIsNat == CandidateCap \in Nat
<1> Cardinality(Workers) \in Nat
  BY WorkersAssumption, FS_CardinalityType
<1> QED
  BY SizeAssumption DEF CandidateCap

(* A step that leaves the store alone keeps what is true of the store.     *)
LEMMA StorageSame ==
    ASSUME UNCHANGED storage
    PROVE  /\ StorageOK => StorageOK'
           /\ CheckpointCovered => CheckpointCovered'
           /\ UniqueResumable => UniqueResumable'
           /\ \A id, i : Recorded(id, i) => Recorded(id, i)'
           /\ \A s : Resume(s)' = Resume(s)
BY DEF storage, StorageOK, CheckpointCovered, UniqueResumable, Recorded,
       Resume, ResumableIds, LatestId, Resumable

-----------------------------------------------------------------------------
(* The inductive invariant: initial states.                                *)

LEMMA InitInv == Init => PipelineInv
<1> SUFFICES ASSUME Init PROVE PipelineInv
  OBVIOUS
<1> USE DEF Init, StorageInit, Quiet
<1>1. StorageOK
  BY DEF StorageOK
<1>2. ControlOK
  <2>1. cancelled \in BOOLEAN
    BY Zenon
  <2> QED
    BY <2>1, SizeAssumption, MaxRunsAssumption DEF ControlOK, Pcs
<1>3. UpstreamOK
  BY CapIsNat, SizeAssumption DEF UpstreamOK, None, Gone
<1>4. OrderingOK /\ CheckingOK /\ LoggingOK
  <2>1. /\ reoDone \in BOOLEAN /\ chkDone \in BOOLEAN
        /\ sawCancel \in BOOLEAN /\ logErr \in BOOLEAN
    BY Zenon
  <2>2. OrderingOK
    BY <2>1, SizeAssumption DEF OrderingOK, None
  <2>3. CheckingOK
    BY <2>1, SizeAssumption DEF CheckingOK
  <2>4. LoggingOK
    BY <2>1, SizeAssumption DEF LoggingOK, Logs, NoStats
  <2> QED
    BY <2>2, <2>3, <2>4
<1>5. CheckpointCovered /\ UniqueResumable
  BY DEF CheckpointCovered, UniqueResumable
<1>6. SessionHeld /\ FlushReady /\ ResultsSound
  BY DEF SessionHeld, FlushReady, ResultsSound, Streaming
<1>7. ~Streaming /\ NothingInFlight
  BY DEF Streaming, NothingInFlight
<1> QED
  BY <1>1, <1>2, <1>3, <1>4, <1>5, <1>6, <1>7 DEF PipelineInv, TypeOK

-----------------------------------------------------------------------------
(* The inductive invariant: generate and derive.                           *)

(* A step upstream of the reorder stage has to keep UpstreamOK only.       *)
LEMMA UpstreamFrame ==
    ASSUME PipelineInv, Streaming,
           UNCHANGED <<storage, control, cancelled, ordering, checking, logging>>,
           UpstreamOK'
    PROVE  PipelineInv'
<1> USE DEF control, ordering, checking, logging
<1>1. TypeOK'
  BY StorageSame DEF PipelineInv, TypeOK, ControlOK, OrderingOK, CheckingOK,
       LoggingOK, storage
<1>2. CheckpointCovered' /\ UniqueResumable'
  BY StorageSame DEF PipelineInv
<1>3. SessionHeld'
  BY StorageSame DEF PipelineInv, SessionHeld, Streaming, Committed, storage
<1>4. FlushReady'
  BY StorageSame DEF PipelineInv, FlushReady
<1>5. ResultsSound'
  BY DEF PipelineInv, ResultsSound
<1>6. Streaming' /\ InOrder'
  BY DEF PipelineInv, Streaming, InOrder, Committed
<1> QED
  BY <1>1, <1>2, <1>3, <1>4, <1>5, <1>6 DEF PipelineInv

LEMMA GenerateInv == PipelineInv /\ Generate => PipelineInv'
<1> SUFFICES ASSUME PipelineInv, Generate PROVE PipelineInv'
  OBVIOUS
<1> USE DEF PipelineInv, TypeOK, UpstreamOK
<1>0. Streaming
  BY DEF NothingInFlight, Generate, GenerateFails, GenerateSend, GenerateCancelled,
         GenerateDone
<1>1. CASE GenerateSend
  <2>1. cand' \in Seq(Idx) /\ Len(cand') <= CandidateCap /\ gen' \in 0 .. WordlistSize
    BY <1>1, CapIsNat, SizeAssumption DEF GenerateSend, InRange, Idx
  <2> QED
    BY <1>0, <1>1, <2>1, UpstreamFrame DEF GenerateSend
<1>2. CASE GenerateFails \/ GenerateCancelled \/ GenerateDone
  BY <1>0, <1>2, UpstreamFrame DEF GenerateFails, GenerateCancelled, GenerateDone
<1> QED
  BY <1>1, <1>2 DEF Generate

LEMMA DeriveInv ==
    ASSUME PipelineInv, NEW w \in Workers, Derive(w) PROVE PipelineInv'
<1> USE DEF PipelineInv, TypeOK, UpstreamOK
<1>0. Streaming
  BY SizeAssumption DEF NothingInFlight, Derive, DeriveRecv, DeriveSend, DeriveClosed,
         DeriveCancelled, None, Gone, Idx
<1>1. CASE DeriveRecv(w)
  <2>1. cand' \in Seq(Idx) /\ Len(cand') <= CandidateCap /\ Head(cand) \in Idx
    BY <1>1, CapIsNat, HeadTailProperties DEF DeriveRecv
  <2> QED
    BY <1>0, <1>1, <2>1, UpstreamFrame DEF DeriveRecv
<1>2. CASE DeriveSend(w)
  <2>1. raw' \in Seq(Idx) /\ Len(raw') <= CandidateCap
    BY <1>2, CapIsNat DEF DeriveSend
  <2> QED
    BY <1>0, <1>2, <2>1, UpstreamFrame DEF DeriveSend
<1>3. CASE DeriveClosed(w) \/ DeriveCancelled(w)
  BY <1>0, <1>3, UpstreamFrame DEF DeriveClosed, DeriveCancelled
<1> QED
  BY <1>1, <1>2, <1>3 DEF Derive

-----------------------------------------------------------------------------
(* The inductive invariant: reorder and check.                             *)

LEMMA MiddleFrame ==
    ASSUME PipelineInv, UNCHANGED <<storage, control, cancelled, logging>>
    PROVE  /\ StorageOK' /\ ControlOK' /\ LoggingOK'
           /\ CheckpointCovered' /\ UniqueResumable'
           /\ SessionHeld' /\ FlushReady'
           /\ Streaming' = Streaming /\ Committed' = Committed
<1> USE DEF control, logging
<1>1. StorageOK' /\ CheckpointCovered' /\ UniqueResumable'
  BY StorageSame DEF PipelineInv, TypeOK
<1>2. ControlOK' /\ LoggingOK'
  BY DEF PipelineInv, TypeOK, ControlOK, LoggingOK, storage
<1>3. Streaming' = Streaming /\ Committed' = Committed
  BY DEF Streaming, Committed
<1>4. SessionHeld'
  BY StorageSame, <1>3 DEF PipelineInv, SessionHeld, storage
<1>5. FlushReady'
  BY StorageSame DEF PipelineInv, FlushReady
<1> QED
  BY <1>1, <1>2, <1>3, <1>4, <1>5

LEMMA ReorderInv == PipelineInv /\ Reorder => PipelineInv'
<1> SUFFICES ASSUME PipelineInv, Reorder PROVE PipelineInv'
  OBVIOUS
<1>1. ~reoDone /\ Streaming /\ InOrder
  BY DEF PipelineInv, NothingInFlight, Reorder, ReorderRecv, ReorderEmit,
         ReorderCancelled, ReorderClosed
<1>2. /\ TypeOK /\ UpstreamOK /\ OrderingOK /\ CheckingOK /\ LoggingOK
      /\ ControlOK /\ ResultsSound
  BY DEF PipelineInv, TypeOK
<1>3. UNCHANGED <<storage, control, cancelled, logging>>
  BY DEF Reorder, ReorderRecv, ReorderEmit, ReorderCancelled, ReorderClosed
<1>4. SUFFICES /\ UpstreamOK' /\ OrderingOK' /\ CheckingOK'
               /\ ResultsSound' /\ InOrder'
  BY <1>1, <1>3, MiddleFrame DEF PipelineInv, TypeOK
<1>5. CASE ReorderRecv
  <2>1. Head(raw) \in Idx /\ raw' \in Seq(Idx) /\ Len(raw') <= CandidateCap
    BY <1>2, <1>5, CapIsNat, HeadTailProperties DEF ReorderRecv, UpstreamOK
  <2>2. UpstreamOK' /\ OrderingOK'
    BY <1>2, <1>5, <2>1 DEF ReorderRecv, UpstreamOK, OrderingOK
  <2>3. CheckingOK' /\ ResultsSound'
    BY <1>2, <1>3, <1>5 DEF ReorderRecv, CheckingOK, ResultsSound, checking, logging
  <2>4. InOrder'
    BY <1>1, <1>3, <1>5 DEF ReorderRecv, IsNext, InOrder, Committed, checking,
         logging, control
  <2> QED
    BY <2>2, <2>3, <2>4
<1>6. CASE ReorderEmit
  <2>1. emitting = next /\ next \in Idx
    BY <1>1, <1>2, <1>6 DEF ReorderEmit, InOrder, OrderingOK
  <2>2. derived' \in Seq(Idx) /\ Len(derived') = Len(derived) + 1
        /\ \A k \in 1 .. Len(derived) + 1 :
             derived'[k] = IF k <= Len(derived) THEN derived[k] ELSE next
    BY <1>2, <1>6, <2>1 DEF ReorderEmit, CheckingOK
  <2>3. UpstreamOK'
    BY <1>2, <1>6 DEF ReorderEmit, UpstreamOK, upstream
  <2>4. OrderingOK'
    <3>1. next' \in 0 .. WordlistSize
      BY <1>6, <2>1, SizeAssumption DEF ReorderEmit, Idx
    <3>2. pending' \subseteq Idx /\ emitting' \in Idx \cup {None}
      BY <1>2, <1>6 DEF ReorderEmit, OrderingOK
    <3>3. reoDone' \in BOOLEAN
      BY <1>2, <1>6 DEF ReorderEmit, OrderingOK
    <3> QED
      BY <3>1, <3>2, <3>3 DEF OrderingOK
  <2>5. CheckingOK'
    BY <1>2, <1>6, <2>2, SizeAssumption DEF ReorderEmit, CheckingOK
  <2>6. ResultsSound'
    BY <1>2, <1>3, <1>6 DEF ReorderEmit, ResultsSound, logging
  <2>7. InOrder'
    <3>1. Len(derived) \in Nat /\ DOMAIN derived = 1 .. Len(derived)
          /\ DOMAIN derived' = 1 .. Len(derived) + 1 /\ next' \in Int
      BY <1>2, <1>6, <2>1, <2>2 DEF CheckingOK, ReorderEmit, Idx
    <3>2. Committed' = Committed /\ Committed \in Int
          /\ Len(batch) \in Nat /\ Len(checked) \in Nat /\ Len(hand) \in Nat
      BY <1>2, <1>3 DEF Committed, control, logging, ControlOK, LoggingOK,
           CheckingOK, Idx, None
    <3> QED
      BY <1>1, <1>3, <1>6, <2>1, <2>2, <3>1, <3>2 DEF ReorderEmit, InOrder, logging
  <2> QED
    BY <2>3, <2>4, <2>5, <2>6, <2>7
<1>7. CASE ReorderCancelled \/ ReorderClosed
  <2>1. UpstreamOK' /\ OrderingOK' /\ CheckingOK'
    BY <1>2, <1>7 DEF ReorderCancelled, ReorderClosed, UpstreamOK, OrderingOK,
         CheckingOK, upstream, checking
  <2>2. ResultsSound' /\ InOrder'
    BY <1>1, <1>2, <1>3, <1>7 DEF ReorderCancelled, ReorderClosed, ResultsSound,
         InOrder, Committed, checking, logging, control
  <2> QED
    BY <2>1, <2>2
<1> QED
  BY <1>5, <1>6, <1>7 DEF Reorder

LEMMA CheckInv == PipelineInv /\ Check => PipelineInv'
<1> SUFFICES ASSUME PipelineInv, Check PROVE PipelineInv'
  OBVIOUS
<1>1. Streaming /\ InOrder
  BY DEF PipelineInv, NothingInFlight, Check, CheckRecv, CheckLookup, CheckSend,
         CheckClosed
<1>2. /\ UpstreamOK /\ OrderingOK /\ CheckingOK /\ LoggingOK
      /\ ControlOK /\ ResultsSound
  BY DEF PipelineInv, TypeOK
<1>3. UNCHANGED <<storage, control, cancelled, upstream, ordering, logging>>
  BY DEF Check, CheckRecv, CheckLookup, CheckSend, CheckClosed
<1>4. UpstreamOK' /\ OrderingOK'
  BY <1>2, <1>3 DEF UpstreamOK, OrderingOK, upstream, ordering
<1>5. SUFFICES CheckingOK' /\ ResultsSound' /\ InOrder'
  BY <1>1, <1>3, <1>4, MiddleFrame DEF PipelineInv, TypeOK
<1>6. /\ Committed' = Committed /\ Committed \in Int
      /\ Len(batch) \in Nat /\ Len(checked) \in Nat
      /\ Len(hand) \in Nat /\ Len(derived) \in Nat
      /\ DOMAIN checked = 1 .. Len(checked) /\ DOMAIN hand = 1 .. Len(hand)
      /\ DOMAIN derived = 1 .. Len(derived)
  BY <1>2, <1>3 DEF Committed, control, logging, ControlOK, LoggingOK,
       CheckingOK, Idx, None
<1>7. CASE CheckRecv
  <2>1. /\ derived' \in Seq(Idx) /\ Head(derived) \in Idx
        /\ Head(derived) = derived[1] /\ Len(derived') = Len(derived) - 1
        /\ \A k \in 1 .. Len(derived) - 1 : derived'[k] = derived[k + 1]
    BY <1>2, <1>7, HeadTailProperties DEF CheckRecv, CheckingOK
  <2>2. FirstResult(Head(derived)) \in Results \cup {"pending"}
    BY DEF FirstResult, Results
  <2>3. CheckingOK'
    BY <1>2, <1>7, <2>1, <2>2, SizeAssumption DEF CheckRecv, CheckingOK, Item
  <2>4. ResultsSound'
    <3>1. \A k \in DOMAIN hand' :
            IF hand'[k].res = "pending" THEN hand'[k].idx \in Valid
            ELSE hand'[k].res \in Outcomes[hand'[k].idx]
      BY <1>7, <2>1 DEF CheckRecv, FirstResult, Outcomes
    <3> QED
      BY <1>2, <1>3, <1>7, <3>1 DEF CheckRecv, ResultsSound, logging
  <2>5. InOrder'
    <3>1. Len(hand') = 1 /\ DOMAIN hand' = {1} /\ hand'[1].idx = derived[1]
          /\ hand = <<>>
      BY <1>7, <2>1 DEF CheckRecv
    <3>2. Len(hand) = 0 /\ DOMAIN derived' = 1 .. Len(derived) - 1 /\ 1 \in DOMAIN derived
      BY <1>6, <1>7, <2>1, <3>1 DEF CheckRecv
    <3> QED
      BY <1>1, <1>3, <1>6, <1>7, <2>1, <3>1, <3>2
         DEF CheckRecv, InOrder, logging, ordering
  <2> QED
    BY <2>3, <2>4, <2>5
<1>8. CASE CheckLookup
  <2>1. PICK res \in {Answer(hand[1].idx), "error"} :
          hand' = <<[hand[1] EXCEPT !.res = res]>>
    BY <1>8 DEF CheckLookup
  <2>2. hand[1] \in Item /\ hand[1].idx \in Valid /\ DOMAIN hand = {1} /\ Len(hand) = 1
    BY <1>2, <1>6, <1>8 DEF CheckLookup, CheckingOK, ResultsSound
  <2>3. hand'[1].idx = hand[1].idx /\ hand'[1].res = res
        /\ DOMAIN hand' = {1} /\ Len(hand') = 1 /\ hand' \in Seq(Item)
    BY <2>1, <2>2 DEF Item, Answer, Results
  <2>4. CheckingOK'
    BY <1>2, <1>8, <2>3 DEF CheckLookup, CheckingOK
  <2>5. ResultsSound'
    <3>1. res \in Outcomes[hand[1].idx] /\ res # "pending"
      BY <2>1, <2>2 DEF Outcomes, Item, Answer
    <3>2. UNCHANGED <<batch, checked>>
      BY <1>3, <1>8 DEF CheckLookup, logging
    <3>3. Outcomes' = Outcomes
      BY DEF Outcomes, Answer
    <3> QED
      BY <1>2, <2>3, <3>1, <3>2, <3>3 DEF ResultsSound
  <2>6. InOrder'
    BY <1>1, <1>3, <1>6, <1>8, <2>2, <2>3
       DEF CheckLookup, InOrder, logging, ordering
  <2> QED
    BY <2>4, <2>5, <2>6
<1>9. CASE CheckSend
  <2>1. hand[1] \in Item /\ DOMAIN hand = {1} /\ Len(hand) = 1
    BY <1>2, <1>6, <1>9 DEF CheckSend, CheckingOK
  <2>2. /\ checked' \in Seq(Item) /\ Len(checked') = Len(checked) + 1
        /\ DOMAIN checked' = 1 .. Len(checked) + 1
        /\ \A k \in 1 .. Len(checked) + 1 :
             checked'[k] = IF k <= Len(checked) THEN checked[k] ELSE hand[1]
        /\ hand' = <<>> /\ Len(hand') = 0
    BY <1>2, <1>6, <1>9, <2>1 DEF CheckSend, CheckingOK
  <2>3. CheckingOK'
    BY <1>2, <1>9, <2>2, SizeAssumption DEF CheckSend, CheckingOK
  <2>4. ResultsSound'
    BY <1>2, <1>3, <1>6, <1>9, <2>1, <2>2 DEF CheckSend, ResultsSound, logging
  <2>5. InOrder'
    <3>1. UNCHANGED <<batch, derived, next, emitting>>
      BY <1>3, <1>9 DEF CheckSend, logging, ordering
    <3>2. hand[1].idx = Committed + Len(batch) + Len(checked) + 1
      BY <1>1, <1>6, <2>1 DEF InOrder
    <3>3. ASSUME NEW k \in DOMAIN checked'
          PROVE  checked'[k].idx = Committed + Len(batch) + k
      <4>1. Len(checked) \in Nat /\ DOMAIN checked = 1 .. Len(checked)
        BY <1>2 DEF CheckingOK
      <4>2. CASE k \in DOMAIN checked
        <5>1. checked'[k] = checked[k]
          BY <2>2, <4>1, <4>2
        <5> QED
          BY <1>1, <1>6, <4>2, <5>1 DEF InOrder
      <4>3. CASE k = Len(checked) + 1
        <5>1. checked'[k] = hand[1]
          BY <2>2, <4>1, <4>3
        <5> QED
          BY <1>6, <3>2, <4>1, <4>3, <5>1
      <4> QED
        BY <2>2, <4>1, <4>2, <4>3
    <3>4. /\ \A k \in DOMAIN derived :
               derived[k] = Committed + Len(batch) + Len(checked') + Len(hand') + k
          /\ next = Committed + Len(batch) + Len(checked') + Len(hand') + Len(derived) + 1
      BY <1>1, <1>6, <2>1, <2>2 DEF InOrder
    <3>5. DOMAIN hand' = {}
      BY <2>2
    <3> QED
      BY <1>1, <1>6, <3>1, <3>3, <3>4, <3>5 DEF InOrder
  <2> QED
    BY <2>3, <2>4, <2>5
<1>10. CASE CheckClosed
  BY <1>1, <1>2, <1>3, <1>6, <1>10
     DEF CheckClosed, CheckingOK, ResultsSound, InOrder, logging, ordering
<1> QED
  BY <1>7, <1>8, <1>9, <1>10 DEF Check

-----------------------------------------------------------------------------
(* The inductive invariant: logResults.                                    *)

(* What every step of logResults starts from.                              *)
LEMMA LogFacts ==
    ASSUME PipelineInv, log # "done"
    PROVE  /\ pc = "run" /\ Streaming /\ InOrder
           /\ sid \in DOMAIN sessions /\ sessions[sid] \in Row
           /\ sessions[sid].last = Committed /\ Committed \in -1 .. WordlistSize - 1
           /\ Len(batch) \in Nat /\ Len(checked) \in Nat
           /\ Len(hand) \in Nat /\ Len(derived) \in Nat
           /\ DOMAIN batch = 1 .. Len(batch) /\ DOMAIN checked = 1 .. Len(checked)
           /\ \A k \in 1 .. Len(batch) : batch[k] \in Item
<1>1. pc = "run" /\ Streaming
  BY DEF PipelineInv, FlushReady, SessionHeld, Streaming
<1>2. InOrder
  BY <1>1 DEF PipelineInv
<1>3. sid \in DOMAIN sessions /\ sessions[sid] \in Row
  BY <1>1 DEF PipelineInv, SessionHeld, TypeOK, ControlOK, StorageOK
<1>4. sessions[sid].last = Committed /\ Committed \in -1 .. WordlistSize - 1
  BY <1>1, <1>3 DEF PipelineInv, SessionHeld, TypeOK, StorageOK
<1>5. /\ Len(batch) \in Nat /\ Len(checked) \in Nat
      /\ Len(hand) \in Nat /\ Len(derived) \in Nat
      /\ DOMAIN batch = 1 .. Len(batch) /\ DOMAIN checked = 1 .. Len(checked)
      /\ \A k \in 1 .. Len(batch) : batch[k] \in Item
  BY DEF PipelineInv, TypeOK, LoggingOK, CheckingOK
<1> QED
  BY <1>1, <1>2, <1>3, <1>4, <1>5

(* A step of the logger that leaves the store alone has to keep the batch. *)
LEMMA LogFrame ==
    ASSUME PipelineInv, Streaming,
           UNCHANGED <<storage, control, cancelled, upstream, ordering, highest>>,
           CheckingOK', LoggingOK', FlushReady', ResultsSound', InOrder'
    PROVE  PipelineInv'
<1> USE DEF control, upstream, ordering
<1>1. StorageOK' /\ CheckpointCovered' /\ UniqueResumable'
  BY StorageSame DEF PipelineInv, TypeOK
<1>2. ControlOK' /\ UpstreamOK' /\ OrderingOK'
  BY DEF PipelineInv, TypeOK, ControlOK, UpstreamOK, OrderingOK, storage
<1>3. Streaming' /\ Committed' = Committed
  BY DEF Streaming, Committed
<1>4. SessionHeld'
  BY StorageSame, <1>3 DEF PipelineInv, SessionHeld, storage
<1> QED
  BY <1>1, <1>2, <1>3, <1>4 DEF PipelineInv, TypeOK

LEMMA LogRecvInv ==
    ASSUME PipelineInv, NEW loop \in {"select", "drain"}, LogRecv(loop)
    PROVE  PipelineInv'
<1>1. /\ log \in {"select", "drain"} /\ checked # <<>>
      /\ checked' = Tail(checked) /\ batch' = Append(batch, Head(checked))
      /\ log' \in {"insert", "select", "drain"} /\ after' \in {"select", "drain"}
      /\ log' # "insert" => ~Full(batch')
      /\ UNCHANGED <<storage, control, cancelled, upstream, ordering, derived,
                     hand, chkDone, highest, sawCancel, logErr>>
  BY DEF LogRecv
<1>2. /\ Streaming /\ InOrder /\ pc = "run" /\ Committed \in Int
      /\ Len(batch) \in Nat /\ Len(checked) \in Nat
      /\ Len(hand) \in Nat /\ Len(derived) \in Nat
      /\ DOMAIN batch = 1 .. Len(batch) /\ DOMAIN checked = 1 .. Len(checked)
  BY <1>1, LogFacts
<1>3. CheckingOK /\ LoggingOK /\ ResultsSound /\ FlushReady
  BY DEF PipelineInv, TypeOK
<1>4. /\ checked' \in Seq(Item) /\ Head(checked) \in Item
      /\ Len(checked') = Len(checked) - 1
      /\ Head(checked) = checked[1] /\ 1 \in DOMAIN checked
      /\ DOMAIN checked' = 1 .. Len(checked) - 1
      /\ \A k \in 1 .. Len(checked) - 1 : checked'[k] = checked[k + 1]
  BY <1>1, <1>2, <1>3, HeadTailProperties DEF CheckingOK
<1>5. /\ batch' \in Seq(Item) /\ Len(batch') = Len(batch) + 1 /\ batch' # <<>>
      /\ DOMAIN batch' = 1 .. Len(batch) + 1
      /\ \A k \in 1 .. Len(batch) + 1 :
           batch'[k] = IF k <= Len(batch) THEN batch[k] ELSE checked[1]
  BY <1>1, <1>2, <1>3, <1>4 DEF LoggingOK
<1>6. CheckingOK'
  BY <1>1, <1>2, <1>3, <1>4, SizeAssumption DEF CheckingOK
<1>7. LoggingOK'
  <2>1. stats' \in [processed: Nat, valid: Nat, hits: Nat, errors: Nat]
    BY <1>3 DEF LogRecv, LoggingOK, Counted, One
  <2>2. Len(batch') <= BatchSize
    BY <1>1, <1>2, <1>3, <1>5, SizeAssumption DEF FlushReady
  <2> QED
    BY <1>1, <1>3, <1>5, <2>1, <2>2 DEF LoggingOK, Logs
<1>8. FlushReady'
  BY <1>1, <1>2, <1>5, SizeAssumption DEF FlushReady, Full, control
<1>9. ResultsSound'
  BY <1>1, <1>2, <1>3, <1>4, <1>5 DEF ResultsSound
<1>10. InOrder'
  <2>1. Committed' = Committed /\ UNCHANGED <<next, emitting>>
    BY <1>1 DEF Committed, control, ordering
  <2>2. /\ \A k \in 1 .. Len(batch) : batch[k].idx = Committed + k
        /\ \A k \in 1 .. Len(checked) : checked[k].idx = Committed + Len(batch) + k
        /\ \A k \in DOMAIN hand :
             hand[k].idx = Committed + Len(batch) + Len(checked) + k
        /\ \A k \in DOMAIN derived :
             derived[k] = Committed + Len(batch) + Len(checked) + Len(hand) + k
        /\ next = Committed + Len(batch) + Len(checked) + Len(hand) + Len(derived) + 1
    BY <1>2 DEF InOrder
  <2>3. ASSUME NEW k \in DOMAIN batch' PROVE batch'[k].idx = Committed + k
    <3>1. CASE k <= Len(batch)
      BY <1>2, <1>5, <2>2, <3>1
    <3>2. CASE k = Len(batch) + 1
      <4>1. batch'[k] = checked[1]
        BY <1>2, <1>5, <3>2
      <4>2. checked[1].idx = Committed + Len(batch) + 1
        BY <1>2, <1>4, <2>2
      <4> QED
        BY <3>2, <4>1, <4>2, <1>2
    <3> QED
      BY <1>2, <1>5, <3>1, <3>2
  <2>4. ASSUME NEW k \in DOMAIN checked'
        PROVE  checked'[k].idx = Committed + Len(batch') + k
    <3>1. checked'[k] = checked[k + 1] /\ k + 1 \in 1 .. Len(checked) /\ k \in Int
      BY <1>2, <1>4
    <3>2. checked[k + 1].idx = Committed + Len(batch) + (k + 1)
      BY <2>2, <3>1
    <3> QED
      BY <1>2, <1>5, <3>1, <3>2
  <2>5. Len(batch') + Len(checked') = Len(batch) + Len(checked)
        /\ Committed + Len(batch') + Len(checked') = Committed + Len(batch) + Len(checked)
    BY <1>2, <1>4, <1>5
  <2>6. /\ \A k \in DOMAIN hand :
             hand[k].idx = Committed + Len(batch') + Len(checked') + k
        /\ \A k \in DOMAIN derived :
             derived[k] = Committed + Len(batch') + Len(checked') + Len(hand) + k
        /\ next = Committed + Len(batch') + Len(checked') + Len(hand) + Len(derived) + 1
    BY <2>2, <2>5
  <2> QED
    BY <1>1, <1>2, <2>1, <2>3, <2>4, <2>6 DEF InOrder
<1> QED
  BY <1>1, <1>2, <1>6, <1>7, <1>8, <1>9, <1>10, LogFrame

LEMMA LogMoveInv ==
    ASSUME PipelineInv, LogClosed \/ LogCancel \/ DrainDone \/ FlushError
    PROVE  PipelineInv'
<1>1. /\ log # "done" /\ log' \in {"drain", "done", "insert"}
      /\ after' \in {"select", "drain", "return"}
      /\ log' = "insert" => batch # <<>>
      /\ log' = "drain" => log = "select"
      /\ UNCHANGED <<storage, control, cancelled, upstream, ordering, checking,
                     batch, highest, stats>>
  BY DEF LogClosed, LogCancel, DrainDone, FlushError, LogReturn, LastFlush, PipelineInv,
         TypeOK, LoggingOK
<1>2. sawCancel' \in BOOLEAN /\ logErr' \in BOOLEAN
  <2>1. sawCancel \in BOOLEAN /\ logErr \in BOOLEAN
    BY DEF PipelineInv, TypeOK, LoggingOK
  <2>2. sawCancel' = sawCancel \/ sawCancel' = TRUE
    BY DEF LogClosed, LogCancel, DrainDone, FlushError, LogReturn
  <2>3. logErr' = logErr \/ logErr' = TRUE
    BY DEF LogClosed, LogCancel, DrainDone, FlushError, LogReturn
  <2> QED
    BY <2>1, <2>2, <2>3, Zenon
<1>3. Streaming /\ InOrder /\ pc = "run"
  BY <1>1, LogFacts
<1>4. CheckingOK' /\ LoggingOK'
  BY <1>1, <1>2 DEF PipelineInv, TypeOK, CheckingOK, LoggingOK, checking, Logs
<1>5. FlushReady'
  BY <1>1, <1>3 DEF PipelineInv, FlushReady, control
<1>6. ResultsSound'
  BY <1>1 DEF PipelineInv, ResultsSound, checking
<1>7. InOrder'
  BY <1>1, <1>3 DEF InOrder, Committed, control, ordering, checking
<1> QED
  BY <1>1, <1>3, <1>4, <1>5, <1>6, <1>7, LogFrame

(* The rows of a flush: the indices after the checkpoint, in order.        *)
LEMMA RowsFacts ==
    ASSUME PipelineInv, log = "insert"
    PROVE  /\ Rows \in Seq(Attempt(Idx)) /\ Len(Rows) = Len(batch)
           /\ DOMAIN Rows = 1 .. Len(batch) /\ Len(batch) \in Nat \ {0}
           /\ \A k \in 1 .. Len(batch) :
                /\ Rows[k].session = sid
                /\ Rows[k].candidate = batch[k].idx
                /\ Rows[k].candidate = sessions[sid].last + k
                /\ Rows[k].candidate \in Idx
                /\ Rows[k].res = batch[k].res
                /\ Rows[k].res \in Outcomes[Rows[k].candidate] \cap Results
<1>1. /\ InOrder /\ sid \in DOMAIN sessions
      /\ sessions[sid].last = Committed /\ Len(batch) \in Nat
      /\ DOMAIN batch = 1 .. Len(batch)
      /\ \A k \in 1 .. Len(batch) : batch[k] \in Item
  BY LogFacts
<1>2. /\ sid \in Nat
      /\ \A k \in 1 .. Len(batch) :
           batch[k].res \in Outcomes[batch[k].idx] /\ batch[k].idx = Committed + k
  <2>1. sid \in Nat
    BY <1>1 DEF PipelineInv, TypeOK, StorageOK
  <2>2. \A k \in 1 .. Len(batch) : batch[k].res \in Outcomes[batch[k].idx]
    BY <1>1 DEF PipelineInv, ResultsSound
  <2>3. \A k \in 1 .. Len(batch) : batch[k].idx = Committed + k
    BY <1>1 DEF InOrder
  <2> QED
    BY <2>1, <2>2, <2>3
<1>3. \A k \in 1 .. Len(batch) : batch[k].idx \in Idx /\ batch[k].res \in Results
  BY <1>1, <1>2 DEF Item, Outcomes, Answer, Results
<1>4. Rows \in [1 .. Len(batch) -> Attempt(Idx)]
  BY <1>2, <1>3 DEF Rows, Attempt
<1>5. Rows \in Seq(Attempt(Idx)) /\ Len(Rows) = Len(batch)
  BY <1>1, <1>4, SeqDef
<1>6. Len(batch) # 0
  BY <1>1 DEF PipelineInv, FlushReady, TypeOK, LoggingOK
<1> QED
  BY <1>1, <1>2, <1>3, <1>5, <1>6 DEF Rows

(* A commit only adds rows.                                                *)
LEMMA RecordedStays ==
    ASSUME PipelineInv, FlushInsert
    PROVE  /\ attempts' \in Seq(Attempt(Idx))
           /\ \A id, i : Recorded(id, i) => Recorded(id, i)'
           /\ \A k \in DOMAIN batch : Recorded(sid, batch[k].idx)'
<1>1. attempts' = attempts \o Rows /\ log = "insert"
  BY DEF FlushInsert, InsertAttempts
<1>2. /\ Rows \in Seq(Attempt(Idx)) /\ Len(Rows) = Len(batch)
      /\ DOMAIN Rows = 1 .. Len(batch) /\ Len(batch) \in Nat
      /\ \A k \in 1 .. Len(batch) :
           /\ Rows[k].session = sid /\ Rows[k].candidate = batch[k].idx
           /\ Rows[k].res \in Outcomes[batch[k].idx]
  BY <1>1, RowsFacts
<1>3. attempts \in Seq(Attempt(Idx)) /\ DOMAIN batch = 1 .. Len(batch)
  BY DEF PipelineInv, TypeOK, StorageOK, LoggingOK
<1>4. /\ attempts' \in Seq(Attempt(Idx)) /\ Len(attempts) \in Nat
      /\ DOMAIN attempts = 1 .. Len(attempts)
      /\ DOMAIN attempts' = 1 .. Len(attempts) + Len(batch)
      /\ \A k \in 1 .. Len(attempts) : attempts'[k] = attempts[k]
      /\ \A k \in 1 .. Len(batch) : attempts'[Len(attempts) + k] = Rows[k]
  <2>1. Rows \in Seq(Attempt(Idx)) /\ attempts \in Seq(Attempt(Idx))
    BY <1>2, <1>3
  <2>2. /\ attempts \o Rows \in Seq(Attempt(Idx))
        /\ Len(attempts \o Rows) = Len(attempts) + Len(Rows)
        /\ \A k \in 1 .. Len(attempts) + Len(Rows) : (attempts \o Rows)[k] =
             IF k <= Len(attempts) THEN attempts[k] ELSE Rows[k - Len(attempts)]
    BY <2>1, ConcatProperties, Zenon
  <2>3. /\ Len(attempts) \in Nat /\ DOMAIN attempts = 1 .. Len(attempts)
        /\ attempts' \in Seq(Attempt(Idx)) /\ DOMAIN attempts' = 1 .. Len(attempts')
        /\ Len(attempts') = Len(attempts) + Len(batch)
    BY <1>1, <1>2, <2>1, <2>2
  <2>4. ASSUME NEW k \in 1 .. Len(attempts) PROVE attempts'[k] = attempts[k]
    BY <1>1, <1>2, <2>2, <2>3
  <2>5. ASSUME NEW k \in 1 .. Len(batch)
        PROVE  attempts'[Len(attempts) + k] = Rows[k]
    <3>1. /\ Len(attempts) + k \in 1 .. Len(attempts) + Len(Rows)
          /\ ~ (Len(attempts) + k <= Len(attempts))
          /\ (Len(attempts) + k) - Len(attempts) = k
      BY <1>2, <2>3
    <3> QED
      BY <1>1, <2>2, <3>1
  <2> QED
    BY <2>3, <2>4, <2>5
<1>5. ASSUME NEW id, NEW i, Recorded(id, i) PROVE Recorded(id, i)'
  <2>1. PICK k \in DOMAIN attempts :
          /\ attempts[k].session = id /\ attempts[k].candidate = i
          /\ attempts[k].res \in Outcomes[i]
    BY <1>5 DEF Recorded
  <2>2. k \in DOMAIN attempts' /\ attempts'[k] = attempts[k]
    BY <1>2, <1>4
  <2> QED
    BY <2>1, <2>2 DEF Recorded
<1>6. ASSUME NEW k \in DOMAIN batch PROVE Recorded(sid, batch[k].idx)'
  <2>1. Len(attempts) + k \in DOMAIN attempts' /\ attempts'[Len(attempts) + k] = Rows[k]
    BY <1>2, <1>3, <1>4
  <2>2. UNCHANGED <<sid, batch>>
    BY DEF FlushInsert, control
  <2> QED
    BY <1>2, <1>3, <2>1, <2>2 DEF Recorded
<1> QED
  BY <1>4, <1>5, <1>6

LEMMA FlushInsertInv == PipelineInv /\ FlushInsert => PipelineInv'
<1> SUFFICES ASSUME PipelineInv, FlushInsert PROVE PipelineInv'
  OBVIOUS
<1> USE DEF control, upstream, ordering, checking
<1>1. /\ log = "insert" /\ log' = "checkpoint" /\ attempts' = attempts \o Rows
      /\ UNCHANGED <<sessions, lastId, control, cancelled, upstream, ordering,
                     checking, after, batch, highest, sawCancel, logErr, stats>>
  BY DEF FlushInsert, InsertAttempts
<1>2. Streaming /\ InOrder /\ pc = "run" /\ sid \in DOMAIN sessions
  BY <1>1, LogFacts
<1>5. /\ attempts' \in Seq(Attempt(Idx))
      /\ \A id, i : Recorded(id, i) => Recorded(id, i)'
      /\ \A k \in DOMAIN batch : Recorded(sid, batch[k].idx)'
  BY RecordedStays
<1>6. StorageOK' /\ CheckpointCovered' /\ UniqueResumable'
  BY <1>1, <1>5 DEF PipelineInv, TypeOK, StorageOK, CheckpointCovered, UniqueResumable,
       Resumable
<1>7. ControlOK' /\ UpstreamOK' /\ OrderingOK' /\ CheckingOK' /\ LoggingOK'
  BY <1>1 DEF PipelineInv, TypeOK, ControlOK, UpstreamOK, OrderingOK, CheckingOK,
       LoggingOK, Logs
<1>8. Streaming' /\ Committed' = Committed
  BY <1>1, <1>2 DEF Streaming, Committed
<1>9. SessionHeld'
  BY <1>1, <1>2, <1>8 DEF PipelineInv, SessionHeld
<1>10. FlushReady'
  BY <1>1, <1>2, <1>5 DEF PipelineInv, FlushReady
<1>11. ResultsSound' /\ InOrder'
  BY <1>1, <1>2, <1>8 DEF PipelineInv, ResultsSound, InOrder, Outcomes, Answer
<1> QED
  BY <1>6, <1>7, <1>8, <1>9, <1>10, <1>11 DEF PipelineInv, TypeOK

LEMMA FlushCheckpointInv == PipelineInv /\ FlushCheckpoint => PipelineInv'
<1> SUFFICES ASSUME PipelineInv, FlushCheckpoint PROVE PipelineInv'
  OBVIOUS
<1>1. /\ log = "checkpoint"
      /\ UNCHANGED <<attempts, lastId, control, cancelled, upstream, ordering,
                     checking, after, sawCancel, logErr, stats>>
      /\ batch' = <<>> /\ highest' = TopIndex
      /\ log' = IF after = "return" THEN "done" ELSE after
  BY DEF FlushCheckpoint, Checkpoint
<1>2. /\ Streaming /\ InOrder /\ pc = "run"
      /\ sid \in DOMAIN sessions /\ sessions[sid] \in Row
      /\ sessions[sid].last = Committed /\ Committed \in -1 .. WordlistSize - 1
      /\ Len(batch) \in Nat /\ Len(checked) \in Nat
      /\ DOMAIN batch = 1 .. Len(batch) /\ DOMAIN checked = 1 .. Len(checked)
      /\ Len(hand) \in Nat /\ Len(derived) \in Nat
      /\ \A k \in 1 .. Len(batch) : batch[k] \in Item
  BY <1>1, LogFacts
<1>3. /\ Len(batch) > 0 /\ TopIndex = Committed + Len(batch) /\ TopIndex \in Idx
      /\ \A k \in 1 .. Len(batch) :
           batch[k].idx = Committed + k /\ Recorded(sid, Committed + k)
  <2>1. Len(batch) > 0
    BY <1>1, <1>2 DEF PipelineInv, FlushReady, TypeOK, LoggingOK
  <2>2. \A k \in 1 .. Len(batch) : batch[k].idx = Committed + k
    BY <1>2 DEF InOrder
  <2>3. \A k \in 1 .. Len(batch) : Recorded(sid, batch[k].idx)
    BY <1>1, <1>2 DEF PipelineInv, FlushReady
  <2> QED
    BY <1>2, <2>1, <2>2, <2>3 DEF TopIndex, Item
<1>4. sessions' = [sessions EXCEPT ![sid].last = TopIndex]
  <2>1. sessions[sid].last < TopIndex
    BY <1>2, <1>3
  <2>2. sessions' = [sessions EXCEPT ![sid].last =
                       IF sessions[sid].last < TopIndex THEN TopIndex
                       ELSE sessions[sid].last]
    BY DEF FlushCheckpoint, Checkpoint
  <2> QED
    BY <2>1, <2>2
<1>5. /\ DOMAIN sessions' = DOMAIN sessions
      /\ \A id \in DOMAIN sessions : id # sid => sessions'[id] = sessions[id]
      /\ sessions'[sid] = [sessions[sid] EXCEPT !.last = TopIndex]
      /\ sessions'[sid] \in Row /\ sessions'[sid].last = TopIndex
      /\ sessions'[sid].status = sessions[sid].status
      /\ sessions'[sid].sig = sessions[sid].sig
  BY <1>2, <1>3, <1>4 DEF Row, Idx
<1>6. \A id, i : Recorded(id, i) => Recorded(id, i)'
  BY <1>1 DEF Recorded, Outcomes, Answer
<1>7. StorageOK'
  <2>1. StorageOK /\ UNCHANGED <<lastId, attempts>>
    BY <1>1 DEF PipelineInv, TypeOK
  <2>2. TopIndex \in -1 .. WordlistSize - 1
    BY <1>3, SizeAssumption DEF Idx
  <2>3. \A id \in DOMAIN sessions' :
          sessions'[id] \in Row /\ sessions'[id].last \in -1 .. WordlistSize - 1
    BY <1>5, <2>1, <2>2 DEF StorageOK
  <2> QED
    BY <1>5, <2>1, <2>3 DEF StorageOK
<1>8. CheckpointCovered'
  <2>1. ASSUME NEW i \in 0 .. TopIndex PROVE Recorded(sid, i)
    <3>1. CASE i <= Committed
      BY <1>2, <3>1 DEF PipelineInv, CheckpointCovered
    <3>2. CASE i > Committed
      <4>1. i - Committed \in 1 .. Len(batch) /\ i = Committed + (i - Committed)
        BY <1>2, <1>3, <3>2
      <4> QED
        BY <1>3, <4>1
    <3> QED
      BY <1>2, <3>1, <3>2
  <2> QED
    BY <1>5, <1>6, <2>1 DEF PipelineInv, CheckpointCovered
<1>9. UniqueResumable'
  BY <1>2, <1>5 DEF PipelineInv, UniqueResumable, Resumable
<1>10. ControlOK' /\ UpstreamOK' /\ OrderingOK' /\ CheckingOK'
  BY <1>1, <1>5 DEF PipelineInv, TypeOK, ControlOK, UpstreamOK, OrderingOK, CheckingOK,
       control, upstream, ordering, checking
<1>11. LoggingOK'
  BY <1>1, <1>3, SizeAssumption DEF PipelineInv, TypeOK, LoggingOK, Logs
<1>12. Streaming' /\ Committed' = TopIndex
  BY <1>1, <1>2, <1>3 DEF Streaming, Committed, control, Idx, None
<1>13. SessionHeld'
  <2>1. Committed >= start - 1 /\ Committed' >= start' - 1
    <3>1. Committed >= start - 1 /\ start' = start /\ start \in Int
      BY <1>1, <1>2 DEF PipelineInv, SessionHeld, TypeOK, ControlOK, control
    <3> QED
      BY <1>2, <1>3, <1>12, <3>1
  <2> QED
    BY <1>1, <1>2, <1>5, <1>12, <2>1 DEF PipelineInv, SessionHeld, control
<1>14. FlushReady'
  BY <1>1, <1>2, SizeAssumption DEF PipelineInv, FlushReady, control, TypeOK, LoggingOK
<1>15. ResultsSound'
  <2>1. DOMAIN batch' = {}
    BY <1>1
  <2>2. UNCHANGED <<checked, hand>>
    BY <1>1 DEF checking
  <2> QED
    BY <2>1, <2>2 DEF PipelineInv, ResultsSound
<1>16. InOrder'
  <2>1. Len(batch') = 0 /\ DOMAIN batch' = {}
    BY <1>1
  <2>2. UNCHANGED <<checked, hand, derived, next, emitting>>
    BY <1>1 DEF checking, ordering
  <2>3. Committed' = Committed + Len(batch)
    BY <1>3, <1>12
  <2> QED
    BY <1>2, <2>1, <2>2, <2>3 DEF InOrder
<1> QED
  BY <1>7, <1>8, <1>9, <1>10, <1>11, <1>12, <1>13, <1>14, <1>15, <1>16
     DEF PipelineInv, TypeOK

LEMMA LogInv == PipelineInv /\ Log => PipelineInv'
BY LogRecvInv, LogMoveInv, FlushInsertInv, FlushCheckpointInv DEF Log

-----------------------------------------------------------------------------
(* The inductive invariant: Run itself and its environment.                *)

(* Outside the concurrent part only the store and the control change.      *)
LEMMA QuietFrame ==
    ASSUME PipelineInv, ~Streaming, ~Streaming', log = "done",
           UNCHANGED <<upstream, ordering, checking, logging>>,
           StorageOK', ControlOK', CheckpointCovered', UniqueResumable',
           SessionHeld'
    PROVE  PipelineInv'
<1> USE DEF upstream, ordering, checking, logging
<1>1. UpstreamOK' /\ OrderingOK' /\ CheckingOK' /\ LoggingOK'
  BY DEF PipelineInv, TypeOK, UpstreamOK, OrderingOK, CheckingOK, LoggingOK
<1>2. FlushReady'
  BY DEF FlushReady
<1>3. ResultsSound'
  BY DEF PipelineInv, ResultsSound
<1>4. NothingInFlight'
  BY DEF PipelineInv, NothingInFlight
<1> QED
  BY <1>1, <1>2, <1>3, <1>4 DEF PipelineInv, TypeOK

LEMMA ResumeRange ==
    ASSUME StorageOK, NEW s PROVE Resume(s) \in -1 .. WordlistSize - 1
<1>1. CASE ResumableIds(s) = {}
  BY <1>1, SizeAssumption DEF Resume
<1>2. CASE ResumableIds(s) # {}
  <2>1. LatestId(ResumableIds(s)) \in DOMAIN sessions
    BY <1>2, LatestIsResumable DEF ResumableIds
  <2> QED
    BY <1>2, <2>1 DEF Resume, StorageOK
<1> QED
  BY <1>1, <1>2

LEMMA StartInv ==
    ASSUME PipelineInv, NEW s \in Signatures, NEW fresh \in BOOLEAN, Start(s, fresh)
    PROVE  PipelineInv'
<1>1. /\ pc = "idle" /\ pc' \in {"fresh", "resume"} /\ sig' = s /\ sid = 0
      /\ runs' = runs + 1 /\ runs < MaxRuns /\ log = "done"
      /\ UNCHANGED <<storage, start, sid, outcome, cancelled,
                     upstream, ordering, checking, logging>>
  BY DEF Start, PipelineInv, SessionHeld, FlushReady
<1>2. ~Streaming /\ ~Streaming'
  BY <1>1 DEF Streaming
<1>3. StorageOK' /\ CheckpointCovered' /\ UniqueResumable'
  BY <1>1, StorageSame DEF PipelineInv, TypeOK
<1>4. ControlOK'
  BY <1>1, MaxRunsAssumption DEF PipelineInv, TypeOK, ControlOK, Pcs, storage
<1>5. SessionHeld'
  BY <1>1, <1>2 DEF SessionHeld
<1> QED
  BY <1>1, <1>2, <1>3, <1>4, <1>5, QuietFrame

LEMMA ClearPausedInv == PipelineInv /\ ClearPaused => PipelineInv'
<1> SUFFICES ASSUME PipelineInv, ClearPaused PROVE PipelineInv'
  OBVIOUS
<1>1. /\ pc = "fresh" /\ pc' = "resume" /\ sid = 0 /\ log = "done"
      /\ UNCHANGED <<attempts, lastId, sig, start, sid, outcome, runs, cancelled,
                     upstream, ordering, checking, logging>>
  BY DEF ClearPaused, MarkPausedAsCompleted, PipelineInv, SessionHeld, FlushReady
<1>2. /\ DOMAIN sessions' = DOMAIN sessions
      /\ \A id \in DOMAIN sessions :
           \/ sessions'[id] = sessions[id]
           \/ sessions'[id] = [sessions[id] EXCEPT !.status = "completed"]
  BY DEF ClearPaused, MarkPausedAsCompleted
<1>3. \A id \in DOMAIN sessions :
        /\ sessions'[id] \in Row /\ sessions'[id].last = sessions[id].last
        /\ sessions'[id].sig = sessions[id].sig
        /\ Resumable(id)' => Resumable(id)
  BY <1>2 DEF PipelineInv, TypeOK, StorageOK, Row, Statuses, Resumable
<1>4. StorageOK'
  BY <1>1, <1>2, <1>3 DEF PipelineInv, TypeOK, StorageOK
<1>5. CheckpointCovered'
  BY <1>1, <1>2, <1>3 DEF PipelineInv, CheckpointCovered, Recorded
<1>6. UniqueResumable'
  BY <1>2, <1>3 DEF PipelineInv, UniqueResumable
<1>7. ControlOK'
  BY <1>1, <1>2 DEF PipelineInv, TypeOK, ControlOK, Pcs
<1>8. ~Streaming /\ ~Streaming' /\ SessionHeld'
  BY <1>1 DEF Streaming, SessionHeld
<1> QED
  BY <1>1, <1>4, <1>5, <1>6, <1>7, <1>8, QuietFrame

LEMMA LookupResumeInv == PipelineInv /\ LookupResume => PipelineInv'
<1> SUFFICES ASSUME PipelineInv, LookupResume PROVE PipelineInv'
  OBVIOUS
<1>1. /\ pc = "resume" /\ pc' = "begin" /\ sid = 0 /\ log = "done"
      /\ start' = Resume(sig) + 1
      /\ UNCHANGED <<storage, sig, sid, outcome, runs, cancelled,
                     upstream, ordering, checking, logging>>
  BY DEF LookupResume, StartIndex, PipelineInv, SessionHeld, FlushReady
<1>2. start' \in 0 .. WordlistSize
  BY <1>1, ResumeRange, SizeAssumption DEF PipelineInv, TypeOK
<1>3. StorageOK' /\ CheckpointCovered' /\ UniqueResumable'
  BY <1>1, StorageSame DEF PipelineInv, TypeOK
<1>4. ControlOK'
  BY <1>1, <1>2 DEF PipelineInv, TypeOK, ControlOK, Pcs, storage
<1>5. ~Streaming /\ ~Streaming'
  BY <1>1 DEF Streaming
<1>6. Resume(sig)' = Resume(sig)
  BY <1>1 DEF storage, Resume, ResumableIds, LatestId, Resumable
<1>7. SessionHeld'
  BY <1>1, <1>5, <1>6 DEF SessionHeld
<1> QED
  BY <1>1, <1>3, <1>4, <1>5, <1>7, QuietFrame

(* Startup errors leave nothing in flight, and the end of a run only       *)
(* changes the status of its session.                                      *)
LEMMA StartupErrorInv == PipelineInv /\ StartupError => PipelineInv'
<1> SUFFICES ASSUME PipelineInv, StartupError PROVE PipelineInv'
  OBVIOUS
<1>1. /\ pc \in {"fresh", "resume", "begin", "endnow"} /\ pc' = "returned"
      /\ outcome' = "error" /\ log = "done"
      /\ UNCHANGED <<storage, sig, start, sid, runs, cancelled,
                     upstream, ordering, checking, logging>>
  BY DEF StartupError, PipelineInv, FlushReady
<1>2. sid = 0 \/ start = WordlistSize
  BY <1>1 DEF PipelineInv, SessionHeld
<1>3. ~Streaming /\ ~Streaming'
  BY <1>1, <1>2, SizeAssumption DEF Streaming
<1>4. StorageOK' /\ CheckpointCovered' /\ UniqueResumable'
  BY <1>1, StorageSame DEF PipelineInv, TypeOK
<1>5. ControlOK'
  BY <1>1 DEF PipelineInv, TypeOK, ControlOK, Pcs, storage
<1>6. SessionHeld'
  BY <1>1, <1>3 DEF SessionHeld
<1> QED
  BY <1>1, <1>3, <1>4, <1>5, <1>6, QuietFrame

LEMMA CoveredFrame ==
    ASSUME CheckpointCovered, attempts' = attempts,
           \A id \in DOMAIN sessions' :
             sessions'[id].last =
               IF id \in DOMAIN sessions THEN sessions[id].last ELSE -1
    PROVE  CheckpointCovered'
<1>1. \A id, i : Recorded(id, i) => Recorded(id, i)'
  BY DEF Recorded
<1>2. ASSUME NEW id \in DOMAIN sessions', NEW i \in 0 .. sessions'[id].last
      PROVE  Recorded(id, i)'
  <2>1. id \in DOMAIN sessions /\ sessions'[id].last = sessions[id].last
    BY <1>2
  <2> QED
    BY <1>1, <2>1 DEF CheckpointCovered
<1> QED
  BY <1>2 DEF CheckpointCovered

(* BeginSession leaves the session of the run as the only resumable one of *)
(* its signature, with the checkpoint the run starts from.                 *)
LEMMA BeginStore ==
    ASSUME PipelineInv, NEW meta \in Metas, Begin(meta)
    PROVE  /\ StorageOK' /\ CheckpointCovered' /\ UniqueResumable'
           /\ sid' \in DOMAIN sessions' /\ sid' # 0
           /\ sessions'[sid'].status = "running" /\ sessions'[sid'].sig = sig
           /\ sessions'[sid'].last = start - 1
<1> DEFINE init == [sig |-> sig, meta |-> meta, mode |-> "sweep", cursor |-> NoCursor]
<1>1. /\ start = Resume(sig) + 1 /\ sid' = BeginSessionId(sig)
      /\ BeginSession(init, 0)
  BY DEF Begin, PipelineInv, SessionHeld
<1>2. /\ init.sig = sig /\ init.meta = meta /\ init.mode = "sweep"
      /\ init.cursor = NoCursor
  OBVIOUS
<1>3. StorageOK /\ CheckpointCovered /\ UniqueResumable /\ sig \in Signatures
  BY DEF PipelineInv, TypeOK, ControlOK
<1>4. lastId \in Nat /\ DOMAIN sessions = 1 .. lastId
  BY <1>3 DEF StorageOK
<1> HIDE DEF init
<1>5. CASE ResumableIds(sig) = {}
  <2> DEFINE row == [sig |-> sig, meta |-> meta, mode |-> "sweep", cursor |-> NoCursor,
                     last |-> -1, status |-> "running", startedAt |-> 0]
  <2>1. InsertSession(init, 0)
    BY <1>1, <1>2, <1>5 DEF BeginSession
  <2>2. /\ lastId' = lastId + 1 /\ attempts' = attempts
        /\ sessions' = [id \in DOMAIN sessions \cup {lastId + 1} |->
                          IF id \in DOMAIN sessions THEN sessions[id] ELSE row]
    BY <1>2, <2>1 DEF InsertSession, NewRow
  <2>3. sid' = lastId + 1 /\ start = 0
    BY <1>1, <1>5 DEF BeginSessionId, Resume
  <2>4. /\ row \in Row /\ row.last = -1 /\ row.sig = sig /\ row.status = "running"
    <3>1. "sweep" \in Modes /\ NoCursor \in Cursors /\ "running" \in Statuses
      BY SweepRowAssumption, Zenon DEF Modes, Statuses
    <3>2. sig \in Signatures /\ meta \in Metas /\ -1 \in Int /\ 0 \in Nat
      BY <1>3
    <3> QED
      BY <3>1, <3>2, Zenon DEF Row
  <2> HIDE DEF row
  <2>5. lastId + 1 \notin DOMAIN sessions /\ lastId + 1 # 0
        /\ DOMAIN sessions' = 1 .. lastId + 1
        /\ DOMAIN sessions' = DOMAIN sessions \cup {lastId + 1}
    BY <1>4, <2>2
  <2>6. sessions'[lastId + 1] = row
        /\ \A id \in DOMAIN sessions : sessions'[id] = sessions[id]
    BY <2>2, <2>5
  <2>7. StorageOK'
    <3>1. \A id \in DOMAIN sessions' :
            sessions'[id] \in Row /\ sessions'[id].last \in -1 .. WordlistSize - 1
      BY <1>3, <2>4, <2>5, <2>6, SizeAssumption DEF StorageOK
    <3>2. lastId' \in Nat /\ DOMAIN sessions' = 1 .. lastId'
      BY <1>4, <2>2, <2>5
    <3>3. attempts' \in Seq(Attempt(Idx))
      BY <1>3, <2>2 DEF StorageOK
    <3> QED
      BY <3>1, <3>2, <3>3 DEF StorageOK
  <2>8. CheckpointCovered'
    BY <1>3, <2>2, <2>4, <2>5, <2>6, CoveredFrame
  <2>9. UniqueResumable'
    <3>1. \A id \in DOMAIN sessions : sessions[id].sig = sig => ~Resumable(id)
      BY <1>5 DEF ResumableIds
    <3>2. \A id \in DOMAIN sessions : Resumable(id)' = Resumable(id)
      BY <2>6 DEF Resumable
    <3>3. ASSUME NEW a \in DOMAIN sessions', NEW b \in DOMAIN sessions',
                 Resumable(a)', Resumable(b)', sessions'[a].sig = sessions'[b].sig
          PROVE  a = b
      <4>1. CASE a \in DOMAIN sessions /\ b \in DOMAIN sessions
        BY <1>3, <2>6, <3>2, <3>3, <4>1 DEF UniqueResumable
      <4>2. CASE a = lastId + 1 /\ b \in DOMAIN sessions
        BY <2>4, <2>6, <3>1, <3>2, <3>3, <4>2
      <4>3. CASE b = lastId + 1 /\ a \in DOMAIN sessions
        BY <2>4, <2>6, <3>1, <3>2, <3>3, <4>3
      <4> QED
        BY <2>5, <4>1, <4>2, <4>3
    <3> QED
      BY <3>3 DEF UniqueResumable
  <2>10. /\ sid' \in DOMAIN sessions' /\ sid' # 0 /\ sessions'[sid'] = row
         /\ start - 1 = -1
    BY <2>3, <2>5, <2>6
  <2> QED
    BY <2>4, <2>7, <2>8, <2>9, <2>10
<1>6. CASE ResumableIds(sig) # {}
  <2>1. PICK id0 : id0 = LatestId(ResumableIds(sig))
    OBVIOUS
  <2>2. id0 \in DOMAIN sessions /\ sessions[id0].sig = sig /\ Resumable(id0)
    BY <1>3, <1>6, <2>1, LatestIsResumable DEF ResumableIds
  <2>3. sessions[id0] \in Row /\ sessions[id0].last \in Int /\ id0 # 0
    BY <1>3, <1>4, <2>2 DEF StorageOK
  <2>4. sid' = id0 /\ start - 1 = sessions[id0].last
    BY <1>1, <1>6, <2>1, <2>3 DEF BeginSessionId, Resume
  <2>5. ReuseSession(id0, init)
    BY <1>1, <1>2, <1>6, <2>1 DEF BeginSession, BeginSessionId
  <2>6. /\ UNCHANGED <<attempts, lastId>>
        /\ sessions' = [sessions EXCEPT ![id0].status = "running",
                                        ![id0].meta = meta,
                                        ![id0].mode = "sweep",
                                        ![id0].cursor = NoCursor]
    BY <1>2, <2>5 DEF ReuseSession
  <2>7. /\ DOMAIN sessions' = DOMAIN sessions
        /\ \A id \in DOMAIN sessions : id # id0 => sessions'[id] = sessions[id]
        /\ sessions'[id0] = [sessions[id0] EXCEPT !.status = "running", !.meta = meta,
                                                  !.mode = "sweep", !.cursor = NoCursor]
    BY <2>2, <2>3, <2>6 DEF Row
  <2>8. /\ sessions'[id0] \in Row /\ sessions'[id0].status = "running"
        /\ sessions'[id0].sig = sessions[id0].sig
        /\ sessions'[id0].last = sessions[id0].last
    BY <2>3, <2>7, SweepRowAssumption DEF Row, Modes, Statuses
  <2>9. StorageOK'
    BY <1>3, <2>3, <2>6, <2>7, <2>8 DEF StorageOK
  <2>10. CheckpointCovered'
    BY <1>3, <2>6, <2>7, <2>8, CoveredFrame
  <2>11. UniqueResumable'
    <3>1. \A id \in DOMAIN sessions : Resumable(id)' => Resumable(id)
      BY <2>2, <2>7 DEF Resumable
    <3>2. \A id \in DOMAIN sessions : sessions'[id].sig = sessions[id].sig
      BY <2>7, <2>8
    <3> QED
      BY <1>3, <2>7, <3>1, <3>2 DEF UniqueResumable
  <2> QED
    BY <2>2, <2>3, <2>4, <2>7, <2>8, <2>9, <2>10, <2>11
<1> QED
  BY <1>5, <1>6

LEMMA BeginInv ==
    ASSUME PipelineInv, NEW meta \in Metas, Begin(meta) PROVE PipelineInv'
<1>1. /\ pc = "begin" /\ sid = 0 /\ ~Streaming /\ NothingInFlight /\ log = "done"
      /\ start \in 0 .. WordlistSize
      /\ UNCHANGED <<sig, start, outcome, runs, cancelled>>
  BY DEF Begin, PipelineInv, SessionHeld, Streaming, FlushReady, TypeOK, ControlOK
<1>2. /\ StorageOK' /\ CheckpointCovered' /\ UniqueResumable'
      /\ sid' \in DOMAIN sessions' /\ sid' # 0
      /\ sessions'[sid'].status = "running" /\ sessions'[sid'].sig = sig
      /\ sessions'[sid'].last = start - 1
  BY BeginStore
<1>3. CASE start >= WordlistSize
  <2>1. pc' = "endnow" /\ UNCHANGED <<upstream, ordering, checking, logging>>
        /\ start = WordlistSize
    <3>1. start = WordlistSize
      BY <1>1, <1>3, SizeAssumption
    <3>2. pc' = "endnow" /\ UNCHANGED <<upstream, ordering, checking, logging>>
      BY <1>3, Zenon DEF Begin
    <3> QED
      BY <3>1, <3>2
  <2>2. ControlOK'
    BY <1>1, <1>2, <2>1 DEF PipelineInv, TypeOK, ControlOK, Pcs
  <2>3. ~Streaming' /\ SessionHeld'
    BY <1>1, <1>2, <2>1 DEF Streaming, SessionHeld
  <2> QED
    BY <1>1, <1>2, <2>1, <2>2, <2>3, QuietFrame
<1>4. CASE ~ (start >= WordlistSize)
  <2>1. /\ pc' = "run" /\ start < WordlistSize
        /\ gen' = start /\ genErr' = "running"
        /\ hold' = [w \in Workers |-> None]
        /\ next' = start /\ reoDone' = FALSE /\ chkDone' = FALSE
        /\ log' = "select" /\ after' = "select"
        /\ UNCHANGED <<cand, raw, pending, emitting, derived, hand, checked,
                       batch, highest, sawCancel, logErr, stats>>
    <3>1. start < WordlistSize
      BY <1>1, <1>4, SizeAssumption
    <3> QED
      BY <1>4, <3>1, Zenon DEF Begin
  <2>2. /\ emitting = None /\ derived = <<>> /\ hand = <<>> /\ checked = <<>>
        /\ batch = <<>> /\ highest = None
    BY <1>1 DEF NothingInFlight
  <2>3. ControlOK'
    BY <1>1, <1>2, <2>1 DEF PipelineInv, TypeOK, ControlOK, Pcs
  <2>4. UpstreamOK'
    BY <1>1, <2>1 DEF PipelineInv, TypeOK, UpstreamOK
  <2>5. reoDone' \in BOOLEAN /\ chkDone' \in BOOLEAN
    BY <2>1, Zenon
  <2>6. OrderingOK' /\ CheckingOK'
    BY <1>1, <2>1, <2>5 DEF PipelineInv, TypeOK, OrderingOK, CheckingOK
  <2>7. LoggingOK'
    BY <2>1 DEF PipelineInv, TypeOK, LoggingOK, Logs
  <2>8. Streaming' /\ Committed' = start - 1
    BY <1>1, <1>2, <2>1, <2>2 DEF Streaming, Committed
  <2>9. SessionHeld'
    BY <1>1, <1>2, <2>1, <2>8 DEF SessionHeld
  <2>10. FlushReady' /\ ResultsSound'
    BY <2>1, <2>2, SizeAssumption DEF FlushReady, ResultsSound
  <2>11. InOrder'
    BY <1>1, <2>1, <2>2, <2>8 DEF InOrder
  <2> QED
    BY <1>2, <2>3, <2>4, <2>6, <2>7, <2>8, <2>9, <2>10, <2>11 DEF PipelineInv, TypeOK
<1> QED
  BY <1>3, <1>4

(* EndSession on the running session of a run.                             *)
LEMMA EndStore ==
    ASSUME PipelineInv, NEW status \in {"paused", "completed"},
           pc \in {"endnow", "end"},
           sessions' = [sessions EXCEPT ![sid].status = status],
           UNCHANGED <<attempts, lastId>>
    PROVE  /\ StorageOK' /\ CheckpointCovered' /\ UniqueResumable'
           /\ DOMAIN sessions' = DOMAIN sessions
           /\ sessions'[sid].last = sessions[sid].last
<1>1. /\ StorageOK /\ CheckpointCovered /\ UniqueResumable
      /\ sid \in DOMAIN sessions /\ sessions[sid].status = "running"
      /\ sessions[sid] \in Row
  BY DEF PipelineInv, TypeOK, SessionHeld, ControlOK, StorageOK
<1>2. /\ DOMAIN sessions' = DOMAIN sessions
      /\ \A id \in DOMAIN sessions :
           /\ sessions'[id] \in Row /\ sessions'[id].last = sessions[id].last
           /\ sessions'[id].sig = sessions[id].sig
           /\ Resumable(id)' => Resumable(id)
  <2>1. \A id \in DOMAIN sessions : id # sid => sessions'[id] = sessions[id]
    OBVIOUS
  <2>2. /\ sessions'[sid] \in Row /\ sessions'[sid].last = sessions[sid].last
        /\ sessions'[sid].sig = sessions[sid].sig
    BY <1>1 DEF Row, Statuses
  <2> QED
    BY <1>1, <2>1, <2>2 DEF StorageOK, Resumable
<1>3. StorageOK'
  BY <1>1, <1>2 DEF StorageOK
<1>4. CheckpointCovered'
  BY <1>1, <1>2 DEF CheckpointCovered, Recorded
<1>5. UniqueResumable'
  BY <1>1, <1>2 DEF UniqueResumable
<1> QED
  BY <1>1, <1>2, <1>3, <1>4, <1>5

LEMMA EndNowInv == PipelineInv /\ EndNow => PipelineInv'
<1> SUFFICES ASSUME PipelineInv, EndNow PROVE PipelineInv'
  OBVIOUS
<1>1. /\ pc = "endnow" /\ pc' = "returned" /\ outcome' = "completed"
      /\ sessions' = [sessions EXCEPT ![sid].status = "completed"]
      /\ log = "done" /\ start = WordlistSize
      /\ UNCHANGED <<attempts, lastId, sig, start, sid, runs, cancelled,
                     upstream, ordering, checking, logging>>
  BY DEF EndNow, EndSession, PipelineInv, SessionHeld, FlushReady
<1>2. /\ StorageOK' /\ CheckpointCovered' /\ UniqueResumable'
      /\ DOMAIN sessions' = DOMAIN sessions
  BY <1>1, EndStore
<1>3. ControlOK'
  BY <1>1, <1>2 DEF PipelineInv, TypeOK, ControlOK, Pcs
<1>4. ~Streaming /\ ~Streaming' /\ SessionHeld'
  BY <1>1, SizeAssumption DEF Streaming, SessionHeld
<1> QED
  BY <1>1, <1>2, <1>3, <1>4, QuietFrame

(* From run to end to returned: only pc, the outcome and the status of the *)
(* session change.                                                         *)
LEMMA EndFrame ==
    ASSUME PipelineInv, pc \in {"run", "end"}, log = "done",
           pc' \in {"end", "returned"}, ControlOK',
           pc' = "end" => outcome' \in {"paused", "completed"},
           pc' = "end" => sessions'[sid].status = "running",
           sessions'[sid].sig = sessions[sid].sig,
           sessions'[sid].last = sessions[sid].last,
           StorageOK', CheckpointCovered', UniqueResumable',
           UNCHANGED <<attempts, sig, start, sid, runs, upstream, ordering, checking,
                       logging>>
    PROVE  PipelineInv'
<1> USE DEF upstream, ordering, checking, logging
<1>1. /\ sid # 0 /\ start < WordlistSize /\ Streaming /\ InOrder
      /\ sessions[sid].sig = sig /\ sessions[sid].last = Committed
      /\ Committed >= start - 1
  BY DEF PipelineInv, SessionHeld, Streaming
<1>2. Streaming' /\ Committed' = Committed
  BY <1>1 DEF Streaming, Committed
<1>3. UpstreamOK' /\ OrderingOK' /\ CheckingOK' /\ LoggingOK'
  BY DEF PipelineInv, TypeOK, UpstreamOK, OrderingOK, CheckingOK, LoggingOK
<1>4. SessionHeld'
  BY <1>1, <1>2 DEF SessionHeld
<1>5. FlushReady' /\ ResultsSound'
  BY DEF PipelineInv, FlushReady, ResultsSound
<1>6. InOrder'
  BY <1>1, <1>2 DEF InOrder
<1> QED
  BY <1>2, <1>3, <1>4, <1>5, <1>6 DEF PipelineInv, TypeOK

LEMMA EndInv == PipelineInv /\ (RunError \/ Finish \/ EndRun \/ EndRunError) => PipelineInv'
<1> SUFFICES ASSUME PipelineInv, RunError \/ Finish \/ EndRun \/ EndRunError
             PROVE  PipelineInv'
  OBVIOUS
<1>1. CASE EndRun
  <2>1. /\ pc = "end" /\ pc' = "returned" /\ log = "done"
        /\ outcome \in {"paused", "completed"}
        /\ sessions' = [sessions EXCEPT ![sid].status = outcome]
        /\ UNCHANGED <<attempts, lastId, sig, start, sid, outcome, runs, cancelled,
                       upstream, ordering, checking, logging>>
    BY <1>1 DEF EndRun, EndSession, PipelineInv, SessionHeld, FlushReady
  <2>2. /\ StorageOK' /\ CheckpointCovered' /\ UniqueResumable'
        /\ DOMAIN sessions' = DOMAIN sessions
        /\ sessions'[sid].last = sessions[sid].last
    <3>1. CASE outcome = "paused"
      BY <2>1, <3>1, EndStore
    <3>2. CASE outcome = "completed"
      BY <2>1, <3>2, EndStore
    <3> QED
      BY <2>1, <3>1, <3>2
  <2>3. ControlOK'
    BY <2>1, <2>2 DEF PipelineInv, TypeOK, ControlOK, Pcs
  <2>4. sessions'[sid].sig = sessions[sid].sig
    BY <2>1 DEF PipelineInv, TypeOK, ControlOK, SessionHeld
  <2> QED
    BY <2>1, <2>2, <2>3, <2>4, EndFrame
<1>2. CASE RunError \/ Finish \/ EndRunError
  <2>1. /\ pc \in {"run", "end"} /\ log = "done" /\ pc' \in {"end", "returned"}
        /\ outcome' \in {"paused", "completed", "error"}
        /\ pc' = "end" => outcome' \in {"paused", "completed"}
        /\ UNCHANGED <<storage, sig, start, sid, runs, cancelled,
                       upstream, ordering, checking, logging>>
    BY <1>2 DEF RunError, Finish, EndRunError, LogReturned, FinalStatus, PipelineInv,
         FlushReady
  <2>2. /\ StorageOK' /\ CheckpointCovered' /\ UniqueResumable'
        /\ UNCHANGED <<sessions, attempts>>
    BY <2>1, StorageSame DEF PipelineInv, TypeOK, storage
  <2>3. ControlOK'
    BY <2>1, <2>2 DEF PipelineInv, TypeOK, ControlOK, Pcs, storage
  <2>4. sessions'[sid].status = "running" /\ sessions'[sid].sig = sessions[sid].sig
    BY <2>1, <2>2 DEF PipelineInv, SessionHeld
  <2> QED
    BY <2>1, <2>2, <2>3, <2>4, EndFrame
<1> QED
  BY <1>1, <1>2

LEMMA MainInv == PipelineInv /\ Main => PipelineInv'
BY ClearPausedInv, LookupResumeInv, BeginInv, EndNowInv, StartupErrorInv, EndInv
   DEF Main

LEMMA ContextFrame ==
    ASSUME PipelineInv, cancelled' \in BOOLEAN,
           UNCHANGED <<storage, control, upstream, ordering, checking, logging>>
    PROVE  PipelineInv'
<1> USE DEF control, upstream, ordering, checking, logging
<1>1. TypeOK'
  BY StorageSame DEF PipelineInv, TypeOK, ControlOK, UpstreamOK, OrderingOK,
       CheckingOK, LoggingOK, storage
<1>2. CheckpointCovered' /\ UniqueResumable'
  BY StorageSame DEF PipelineInv
<1>3. Streaming' = Streaming /\ Committed' = Committed
  BY DEF Streaming, Committed
<1>4. SessionHeld' /\ FlushReady'
  BY <1>3, StorageSame DEF PipelineInv, SessionHeld, FlushReady, storage
<1>5. ResultsSound'
  BY DEF PipelineInv, ResultsSound
<1>6. IF Streaming' THEN InOrder' ELSE NothingInFlight'
  BY <1>3 DEF PipelineInv, InOrder, NothingInFlight
<1> QED
  BY <1>1, <1>2, <1>4, <1>5, <1>6 DEF PipelineInv

LEMMA StutterInv == PipelineInv /\ UNCHANGED vars => PipelineInv'
BY ContextFrame DEF PipelineInv, TypeOK, ControlOK, vars

LEMMA EnvironmentInv == PipelineInv /\ (Cancel \/ Exit \/ Crash \/ Rest) => PipelineInv'
<1> SUFFICES ASSUME PipelineInv, Cancel \/ Exit \/ Crash \/ Rest PROVE PipelineInv'
  OBVIOUS
<1>1. CASE Cancel
  <2>1. UNCHANGED <<storage, control, upstream, ordering, checking, logging>>
        /\ cancelled' \in BOOLEAN
    BY <1>1, Zenon DEF Cancel
  <2> QED
    BY <2>1, ContextFrame
<1>2. CASE Exit \/ Crash
  <2>1. BecomeQuiet
    BY <1>2 DEF Exit, Crash
  <2> USE <2>1 DEF BecomeQuiet
  <2>2. StorageOK' /\ CheckpointCovered' /\ UniqueResumable'
    BY StorageSame DEF PipelineInv, TypeOK
  <2>3. /\ cancelled' \in BOOLEAN /\ reoDone' \in BOOLEAN /\ chkDone' \in BOOLEAN
        /\ sawCancel' \in BOOLEAN /\ logErr' \in BOOLEAN
    BY Zenon
  <2>4. ControlOK'
    BY <2>3, SizeAssumption DEF PipelineInv, TypeOK, ControlOK, Pcs
  <2>5. UpstreamOK'
    BY CapIsNat, SizeAssumption DEF UpstreamOK, None, Gone
  <2>6. OrderingOK'
    BY <2>3, SizeAssumption DEF OrderingOK, None
  <2>7. CheckingOK'
    BY <2>3, SizeAssumption DEF CheckingOK
  <2>8. LoggingOK'
    BY <2>3, SizeAssumption DEF LoggingOK, Logs, NoStats
  <2>9. ~Streaming' /\ NothingInFlight'
    BY DEF Streaming, NothingInFlight
  <2>10. SessionHeld' /\ FlushReady' /\ ResultsSound'
    BY <2>9 DEF SessionHeld, FlushReady, ResultsSound
  <2> QED
    BY <2>2, <2>4, <2>5, <2>6, <2>7, <2>8, <2>9, <2>10 DEF PipelineInv, TypeOK
<1>3. CASE Rest
  BY <1>3, StutterInv DEF Rest
<1> QED
  BY <1>1, <1>2, <1>3

LEMMA PipelineStep == PipelineInv /\ [Next]_vars => PipelineInv'
BY StartInv, MainInv, GenerateInv, DeriveInv, ReorderInv, CheckInv, LogInv,
   EnvironmentInv, StutterInv DEF Next

-----------------------------------------------------------------------------
(* A run that nobody cancels drops nothing, and its stages stop in turn.   *)

LEMMA IndicesAppend ==
    ASSUME NEW S, NEW s \in Seq(S), NEW e \in S
    PROVE  Indices(Append(s, e)) = Indices(s) \cup {e}
<1>1. /\ Len(s) \in Nat /\ DOMAIN s = 1 .. Len(s)
      /\ DOMAIN Append(s, e) = 1 .. Len(s) + 1
      /\ \A k \in 1 .. Len(s) : Append(s, e)[k] = s[k]
      /\ Append(s, e)[Len(s) + 1] = e
  OBVIOUS
<1> QED
  BY <1>1 DEF Indices

LEMMA IndicesTail ==
    ASSUME NEW S, NEW s \in Seq(S), s # <<>>
    PROVE  Indices(s) = Indices(Tail(s)) \cup {Head(s)}
<1>1. /\ Len(s) \in Nat \ {0} /\ DOMAIN s = 1 .. Len(s) /\ Head(s) = s[1]
      /\ DOMAIN Tail(s) = 1 .. Len(s) - 1
      /\ \A k \in 1 .. Len(s) - 1 : Tail(s)[k] = s[k + 1]
  BY HeadTailProperties
<1>2. ASSUME NEW k \in 2 .. Len(s) PROVE s[k] \in Indices(Tail(s))
  <2>1. k - 1 \in DOMAIN Tail(s) /\ Tail(s)[k - 1] = s[k]
    BY <1>1
  <2> QED
    BY <2>1 DEF Indices
<1>3. Indices(Tail(s)) \subseteq Indices(s)
  BY <1>1 DEF Indices
<1>4. Indices(s) \subseteq Indices(Tail(s)) \cup {Head(s)}
  <2>1. ASSUME NEW k \in DOMAIN s PROVE s[k] \in Indices(Tail(s)) \cup {Head(s)}
    BY <1>1, <1>2
  <2> QED
    BY <2>1 DEF Indices
<1>5. Head(s) \in Indices(s)
  BY <1>1 DEF Indices
<1> QED
  BY <1>3, <1>4, <1>5

(* What the next lemmas start from.                                        *)
Flowing == PipelineInv /\ Streaming /\ ~cancelled /\ NothingDropped /\ StopInTurn

LEMMA FlowingGenerate ==
    ASSUME Flowing, Generate PROVE NothingDropped' /\ StopInTurn'
<1>1. /\ gen \in Nat /\ cand \in Seq(Idx) /\ gen \in 0 .. WordlistSize /\ next \in Nat
  BY DEF Flowing, PipelineInv, TypeOK, UpstreamOK, OrderingOK
<1>2. /\ genErr = "running" /\ genErr' # "canceled"
      /\ genErr' = "nil" => gen' = WordlistSize
      /\ UNCHANGED <<hold, raw, next, pending, emitting, reoDone, derived, hand,
                     chkDone, checked, log, after, batch, sawCancel, logErr>>
  BY <1>1, SizeAssumption
     DEF Flowing, Generate, GenerateFails, GenerateSend, GenerateCancelled,
         GenerateDone, InRange, ordering, checking, logging
<1>3. \A w \in Workers : hold[w] # Gone
  BY <1>2 DEF Flowing, StopInTurn
<1>4. StopInTurn'
  BY <1>2, <1>3 DEF Flowing, StopInTurn
<1>5. CASE GenerateSend
  <2>1. /\ gen' = gen + 1 /\ Indices(cand') = Indices(cand) \cup {gen}
    BY <1>1, <1>5, SizeAssumption, IndicesAppend DEF GenerateSend, InRange, Idx
  <2>2. ASSUME NEW i \in next' .. gen' - 1 PROVE OnItsWay(i)'
    <3>1. CASE i = gen
      BY <2>1, <3>1 DEF OnItsWay
    <3>2. CASE i \in next .. gen - 1
      BY <1>2, <2>1, <3>2 DEF Flowing, NothingDropped, OnItsWay
    <3> QED
      BY <1>1, <1>2, <2>1, <3>1, <3>2
  <2> QED
    BY <1>2, <1>4, <2>2 DEF Flowing, NothingDropped
<1>6. CASE ~GenerateSend
  <2>1. UNCHANGED <<gen, cand>>
    BY <1>6 DEF Generate, GenerateFails, GenerateCancelled, GenerateDone
  <2> QED
    BY <1>2, <1>4, <2>1 DEF Flowing, NothingDropped, OnItsWay
<1> QED
  BY <1>5, <1>6

LEMMA FlowingDerive ==
    ASSUME Flowing, NEW w \in Workers, Derive(w) PROVE NothingDropped' /\ StopInTurn'
<1>1. /\ cand \in Seq(Idx) /\ raw \in Seq(Idx) /\ hold \in [Workers -> Idx \cup {None, Gone}]
      /\ \A i \in Idx : i # None /\ i # Gone
  BY SizeAssumption DEF Flowing, PipelineInv, TypeOK, UpstreamOK, Idx, None, Gone
<1>2. /\ hold[w] # Gone /\ ~reoDone
      /\ UNCHANGED <<gen, genErr, next, pending, emitting, reoDone, derived, hand,
                     chkDone, checked, log, after, batch, sawCancel, logErr>>
  BY <1>1 DEF Flowing, StopInTurn, Derive, DeriveRecv, DeriveClosed, DeriveSend,
              DeriveCancelled, ordering, checking, logging, None, Gone
<1>3. CASE DeriveRecv(w)
  <2>1. /\ hold' = [hold EXCEPT ![w] = Head(cand)] /\ hold[w] = None /\ Head(cand) \in Idx
        /\ Indices(cand) = Indices(cand') \cup {Head(cand)} /\ raw' = raw /\ cand # <<>>
    BY <1>1, <1>3, IndicesTail, HeadTailProperties DEF DeriveRecv
  <2>2. ASSUME NEW i \in next .. gen - 1, OnItsWay(i) PROVE OnItsWay(i)'
    <3>1. i # None
      BY DEF Flowing, PipelineInv, TypeOK, OrderingOK, UpstreamOK, None
    <3> QED
      BY <1>1, <1>2, <2>1, <2>2, <3>1 DEF OnItsWay
  <2>3. NothingDropped'
    BY <1>2, <2>2 DEF Flowing, NothingDropped
  <2>4. StopInTurn'
    BY <1>1, <1>2, <2>1 DEF Flowing, StopInTurn
  <2> QED
    BY <2>3, <2>4
<1>4. CASE DeriveClosed(w)
  <2>1. /\ hold' = [hold EXCEPT ![w] = Gone] /\ hold[w] = None /\ cand = <<>>
        /\ genErr # "running" /\ raw' = raw /\ cand' = cand
    BY <1>4 DEF DeriveClosed
  <2>2. ASSUME NEW i \in next .. gen - 1, OnItsWay(i) PROVE OnItsWay(i)'
    <3>1. i # None
      BY DEF Flowing, PipelineInv, TypeOK, OrderingOK, UpstreamOK, None
    <3> QED
      BY <1>1, <1>2, <2>1, <2>2, <3>1 DEF OnItsWay
  <2>3. NothingDropped'
    BY <1>2, <2>2 DEF Flowing, NothingDropped
  <2>4. StopInTurn'
    BY <1>1, <1>2, <2>1 DEF Flowing, StopInTurn
  <2> QED
    BY <2>3, <2>4
<1>5. CASE DeriveSend(w)
  <2>1. /\ hold' = [hold EXCEPT ![w] = None] /\ hold[w] \in Idx
        /\ Indices(raw') = Indices(raw) \cup {hold[w]} /\ cand' = cand
    BY <1>1, <1>5, IndicesAppend DEF DeriveSend
  <2>2. ASSUME NEW i \in next .. gen - 1, OnItsWay(i) PROVE OnItsWay(i)'
    BY <1>1, <1>2, <2>1, <2>2 DEF OnItsWay
  <2>3. NothingDropped'
    BY <1>2, <2>2 DEF Flowing, NothingDropped
  <2>4. StopInTurn'
    BY <1>1, <1>2, <2>1 DEF Flowing, StopInTurn, None, Gone
  <2> QED
    BY <2>3, <2>4
<1>6. ~DeriveCancelled(w)
  BY DEF Flowing, DeriveCancelled
<1> QED
  BY <1>3, <1>4, <1>5, <1>6 DEF Derive

LEMMA FlowingReorder ==
    ASSUME Flowing, Reorder PROVE NothingDropped' /\ StopInTurn'
<1>1. /\ raw \in Seq(Idx) /\ next \in Nat /\ gen \in Nat /\ emitting \in {None, next}
      /\ pending \subseteq Idx /\ None \notin Idx /\ None \notin Nat
  BY SizeAssumption DEF Flowing, PipelineInv, TypeOK, UpstreamOK, OrderingOK, InOrder,
     Idx, None
<1>2. /\ ~reoDone
      /\ UNCHANGED <<gen, genErr, cand, hold, hand,
                     chkDone, checked, log, after, batch, sawCancel, logErr>>
  BY DEF Reorder, ReorderRecv, ReorderEmit, ReorderCancelled, ReorderClosed,
         upstream, checking, logging
<1>3. ~chkDone
  BY <1>2 DEF Flowing, StopInTurn
<1>4. CASE ReorderRecv
  <2>1. /\ Indices(raw) = Indices(raw') \cup {Head(raw)} /\ emitting = None /\ next' = next
        /\ \/ Head(raw) = next /\ emitting' = Head(raw) /\ pending' = pending
           \/ Head(raw) # next /\ emitting' = emitting /\ pending' = pending \cup {Head(raw)}
        /\ reoDone' = reoDone /\ derived' = derived
    BY <1>1, <1>4, IndicesTail DEF ReorderRecv, IsNext, checking
  <2>2. ASSUME NEW i \in next .. gen - 1, OnItsWay(i) PROVE OnItsWay(i)'
    <3>1. i # None
      BY <1>1
    <3> QED
      BY <1>2, <2>1, <2>2, <3>1 DEF OnItsWay
  <2>3. NothingDropped'
    BY <1>2, <2>1, <2>2 DEF Flowing, NothingDropped
  <2>4. StopInTurn'
    BY <1>2, <1>3, <2>1 DEF Flowing, StopInTurn
  <2> QED
    BY <2>3, <2>4
<1>5. CASE ReorderEmit
  <2>1. /\ emitting = next /\ next' = next + 1 /\ raw' = raw /\ reoDone' = reoDone
        /\ \/ /\ next + 1 \in pending /\ emitting' = next + 1
              /\ pending' = pending \ {next + 1}
           \/ next + 1 \notin pending /\ emitting' = None /\ pending' = pending
    BY <1>1, <1>5 DEF ReorderEmit, upstream
  <2>2. ASSUME NEW i \in next + 1 .. gen - 1, OnItsWay(i) PROVE OnItsWay(i)'
    <3>1. i # emitting
      BY <1>1, <2>1
    <3> QED
      BY <1>2, <2>1, <2>2, <3>1 DEF OnItsWay
  <2>3. next' \notin pending'
    BY <2>1
  <2>4. NothingDropped'
    BY <1>1, <1>2, <2>1, <2>2, <2>3 DEF Flowing, NothingDropped
  <2>5. StopInTurn'
    BY <1>2, <1>3, <2>1 DEF Flowing, StopInTurn
  <2> QED
    BY <2>4, <2>5
<1>6. CASE ReorderClosed
  <2>1. /\ UNCHANGED <<next, pending, emitting, raw, derived>> /\ emitting = None
        /\ raw = <<>> /\ \A w \in Workers : hold[w] = Gone
    BY <1>6 DEF ReorderClosed, upstream, checking
  <2> QED
    BY <1>2, <1>3, <2>1 DEF Flowing, NothingDropped, StopInTurn, OnItsWay
<1>7. ~ReorderCancelled
  BY DEF Flowing, ReorderCancelled
<1> QED
  BY <1>4, <1>5, <1>6, <1>7 DEF Reorder

LEMMA FlowingCheck ==
    ASSUME Flowing, Check PROVE NothingDropped' /\ StopInTurn'
<1>1. UNCHANGED <<gen, genErr, cand, hold, raw, next, pending, emitting, reoDone,
                  log, after, batch, sawCancel, logErr>>
  BY DEF Check, CheckRecv, CheckLookup, CheckSend, CheckClosed, upstream, ordering, logging
<1>2. NothingDropped'
  BY <1>1 DEF Flowing, NothingDropped, OnItsWay
<1>3. ~chkDone
  BY DEF Flowing, StopInTurn, Check, CheckRecv, CheckLookup, CheckSend, CheckClosed
<1>4. \/ chkDone' = chkDone
      \/ chkDone' /\ reoDone /\ hand' = <<>> /\ derived' = <<>>
  BY DEF Check, CheckRecv, CheckLookup, CheckSend, CheckClosed
<1>5. StopInTurn'
  BY <1>1, <1>3, <1>4 DEF Flowing, StopInTurn
<1> QED
  BY <1>2, <1>5

LEMMA FlowingLog ==
    ASSUME Flowing, Log PROVE NothingDropped' /\ StopInTurn'
<1>1. UNCHANGED <<gen, genErr, cand, hold, raw, next, pending, emitting, reoDone,
                  derived, hand, chkDone>>
  BY DEF Log, LogRecv, LogClosed, LogCancel, DrainDone, LogReturn, FlushInsert,
         FlushCheckpoint, FlushError, upstream, ordering, checking
<1>2. NothingDropped'
  BY <1>1 DEF Flowing, NothingDropped, OnItsWay
<1>3. /\ ~LogRecv("drain") /\ ~DrainDone /\ ~LogCancel
  BY DEF Flowing, StopInTurn, LogRecv, DrainDone, LogCancel
<1>4. CASE LogRecv("select")
  BY <1>1, <1>2, <1>4 DEF LogRecv, Flowing, StopInTurn
<1>5. CASE LogClosed
  BY <1>1, <1>2, <1>5 DEF LogClosed, LogReturn, LastFlush, Flowing, StopInTurn, checking
<1>6. CASE FlushInsert \/ FlushError
  BY <1>1, <1>2, <1>6 DEF FlushInsert, FlushError, Flowing, StopInTurn, checking
<1>7. CASE FlushCheckpoint
  <2>1. after # "done"
    BY DEF Flowing, PipelineInv, TypeOK, LoggingOK
  <2> QED
    BY <1>1, <1>2, <1>7, <2>1 DEF FlushCheckpoint, Flowing, StopInTurn, checking
<1> QED
  BY <1>3, <1>4, <1>5, <1>6, <1>7 DEF Log

(* A run begins with nothing in flight.                                    *)
LEMMA FlowingBegin ==
    ASSUME PipelineInv, NEW meta \in Metas, Begin(meta), Streaming'
    PROVE  NothingDropped' /\ StopInTurn'
<1>1. pc = "begin" /\ ~Streaming /\ NothingInFlight /\ start \in Nat
  BY DEF Begin, Streaming, PipelineInv, TypeOK, ControlOK
<1>2. ~ (start >= WordlistSize)
  BY <1>1, SizeAssumption DEF Streaming, Begin, PipelineInv, TypeOK, ControlOK
<1>3. /\ gen' = start /\ genErr' = "running" /\ hold' = [w \in Workers |-> None]
      /\ next' = start /\ ~reoDone' /\ ~chkDone' /\ log' = "select" /\ after' = "select"
      /\ UNCHANGED <<pending, emitting, batch, sawCancel, logErr>>
  BY <1>2, Zenon DEF Begin
<1>4. next' .. gen' - 1 = {}
  BY <1>1, <1>3
<1>5. \A w \in Workers : hold'[w] # Gone
  BY <1>3 DEF None, Gone
<1> QED
  BY <1>1, <1>3, <1>4, <1>5 DEF NothingInFlight, NothingDropped, StopInTurn

LEMMA UncancelledStep ==
    ASSUME PipelineInv, Uncancelled, [Next]_vars PROVE Uncancelled'
<1> SUFFICES ASSUME Streaming', ~cancelled' PROVE NothingDropped' /\ StopInTurn'
  BY DEF Uncancelled
<1>1. ASSUME UNCHANGED <<control, cancelled>> PROVE Flowing
  BY <1>1 DEF Flowing, Uncancelled, Streaming, control
<1>2. ASSUME UNCHANGED <<upstream, ordering, checking, logging>>,
             UNCHANGED cancelled, Streaming
      PROVE  NothingDropped' /\ StopInTurn'
  BY <1>2 DEF Uncancelled, NothingDropped, StopInTurn, OnItsWay, upstream, ordering,
              checking, logging
<1>3. CASE UNCHANGED vars
  BY <1>1, <1>2, <1>3 DEF vars, Flowing
<1>4. ASSUME NEW s, NEW fresh, Start(s, fresh) PROVE FALSE
  BY <1>4 DEF Start, Streaming
<1>5. CASE Generate
  BY <1>1, <1>5, FlowingGenerate DEF Generate, GenerateFails, GenerateSend,
     GenerateCancelled, GenerateDone
<1>6. ASSUME NEW w \in Workers, Derive(w) PROVE NothingDropped' /\ StopInTurn'
  BY <1>1, <1>6, FlowingDerive DEF Derive, DeriveRecv, DeriveClosed, DeriveSend,
     DeriveCancelled
<1>7. CASE Reorder
  BY <1>1, <1>7, FlowingReorder DEF Reorder, ReorderRecv, ReorderEmit,
     ReorderCancelled, ReorderClosed
<1>8. CASE Check
  BY <1>1, <1>8, FlowingCheck DEF Check, CheckRecv, CheckLookup, CheckSend, CheckClosed
<1>9. CASE Log
  BY <1>1, <1>9, FlowingLog DEF Log, LogRecv, LogClosed, LogCancel, DrainDone,
     LogReturn, FlushInsert, FlushCheckpoint, FlushError
<1>10. ASSUME NEW meta \in Metas, Begin(meta) PROVE NothingDropped' /\ StopInTurn'
  BY <1>10, FlowingBegin
<1>11. ~ClearPaused /\ ~LookupResume
  BY DEF ClearPaused, LookupResume, Streaming
<1>12. ~EndNow /\ ~StartupError
  BY SizeAssumption DEF EndNow, StartupError, Streaming, PipelineInv, SessionHeld
<1>13. CASE RunError \/ Finish \/ EndRun \/ EndRunError
  <2>1. Streaming
    BY <1>13 DEF RunError, LogReturned, Finish, EndRun, EndRunError, PipelineInv,
       SessionHeld, Streaming
  <2> QED
    BY <1>2, <1>13, <2>1 DEF RunError, Finish, EndRun, EndRunError
<1>14. ~Cancel /\ ~Exit /\ ~Crash
  BY DEF Cancel, Exit, Crash, BecomeQuiet, Streaming
<1> QED
  BY <1>3, <1>4, <1>5, <1>6, <1>7, <1>8, <1>9, <1>10, <1>11, <1>12, <1>13, <1>14
     DEF Next, Main, Rest

(* A step that does not touch what Concluded reads.                        *)
LEMMA ConcludedFrame ==
    ASSUME Concluded, UNCHANGED <<storage, control, genErr, log, logErr>>
    PROVE  Concluded'
BY DEF Concluded, RunFailed, Streaming, storage, control

LEMMA ConcludedStep ==
    ASSUME PipelineInv, Concluded, [Next]_vars PROVE Concluded'
<1>1. CASE UNCHANGED vars
  BY <1>1, ConcludedFrame DEF vars, upstream, logging
<1>2. ASSUME NEW s, NEW fresh, Start(s, fresh) PROVE Concluded'
  BY <1>2 DEF Start, Concluded
<1>3. CASE Generate
  <2>1. genErr = "running" /\ pc' = pc /\ outcome' = outcome
    BY <1>3 DEF Generate, GenerateFails, GenerateSend, GenerateCancelled,
       GenerateDone, control
  <2>2. Streaming
    BY <2>1 DEF PipelineInv, NothingInFlight
  <2>3. ~ (pc \in {"endnow", "end"} \/ (pc = "returned" /\ outcome # "error"))
    BY <2>1, <2>2 DEF Concluded
  <2> QED
    BY <2>1, <2>3 DEF Concluded
<1>4. ASSUME NEW w, Derive(w) PROVE Concluded'
  BY <1>4, ConcludedFrame DEF Derive, DeriveRecv, DeriveClosed, DeriveSend,
     DeriveCancelled, logging
<1>5. CASE Reorder
  BY <1>5, ConcludedFrame DEF Reorder, ReorderRecv, ReorderEmit, ReorderCancelled,
     ReorderClosed, upstream, logging
<1>6. CASE Check
  BY <1>6, ConcludedFrame DEF Check, CheckRecv, CheckLookup, CheckSend, CheckClosed,
     upstream, logging
<1>7. CASE Log
  <2>1. log # "done" /\ pc' = pc
    BY <1>7 DEF Log, LogRecv, LogClosed, LogCancel, DrainDone, LogReturn,
       FlushInsert, FlushCheckpoint, FlushError, control
  <2>2. pc = "run"
    BY <2>1, LogFacts
  <2> QED
    BY <2>1, <2>2 DEF Concluded
<1>8. CASE ClearPaused \/ LookupResume \/ StartupError \/ RunError \/ EndRunError
  BY <1>8 DEF ClearPaused, LookupResume, StartupError, RunError, EndRunError, Concluded
<1>9. ASSUME NEW meta \in Metas, Begin(meta) PROVE Concluded'
  <2>1. start \in 0 .. WordlistSize /\ start' = start
    BY <1>9 DEF PipelineInv, TypeOK, ControlOK, Begin
  <2>2. CASE start >= WordlistSize
    <3>1. sid' # 0 /\ sessions'[sid'].last = start - 1
      BY <1>9, BeginStore
    <3>2. pc' = "endnow"
      BY <1>9, <2>2, Zenon DEF Begin
    <3>3. ~Streaming'
      BY <3>2 DEF Streaming
    <3>4. start = WordlistSize
      BY <2>1, <2>2, SizeAssumption
    <3> QED
      BY <3>1, <3>3, <3>4 DEF Concluded
  <2>3. CASE ~ (start >= WordlistSize)
    <3>1. pc' = "run"
      BY <1>9, <2>3, Zenon DEF Begin
    <3> QED
      BY <3>1 DEF Concluded
  <2> QED
    BY <2>2, <2>3
<1>10. CASE EndNow
  <2>1. /\ pc = "endnow" /\ start = WordlistSize /\ sid' = sid /\ start' = start
        /\ sessions' = [sessions EXCEPT ![sid].status = "completed"]
        /\ UNCHANGED <<attempts, lastId>>
    BY <1>10 DEF EndNow, EndSession, PipelineInv, SessionHeld
  <2>2. sessions'[sid].last = sessions[sid].last
    BY <2>1, EndStore
  <2>3. ~Streaming /\ ~Streaming'
    BY <2>1, SizeAssumption DEF Streaming
  <2> QED
    BY <2>1, <2>2, <2>3 DEF Concluded
<1>11. CASE Finish \/ EndRun
  <2>1. /\ pc \in {"run", "end"} /\ pc' \in {"end", "returned"}
        /\ UNCHANGED <<sid, start, genErr, log, logErr>>
    BY <1>11 DEF Finish, LogReturned, EndRun, upstream, logging
  <2>2. Streaming /\ Streaming'
    BY <2>1 DEF PipelineInv, SessionHeld, Streaming
  <2>3. log = "done" /\ genErr # "running" /\ ~RunFailed
    BY <1>11, <2>2 DEF Finish, LogReturned, EndRun, Concluded
  <2> QED
    BY <2>1, <2>2, <2>3 DEF Concluded, RunFailed
<1>12. CASE Cancel
  BY <1>12, ConcludedFrame DEF Cancel, upstream, logging
<1>13. CASE Exit \/ Crash
  BY <1>13 DEF Exit, Crash, BecomeQuiet, Concluded
<1>14. CASE Rest
  BY <1>14, <1>1 DEF Rest
<1> QED
  BY <1>1, <1>2, <1>3, <1>4, <1>5, <1>6, <1>7, <1>8, <1>9, <1>10, <1>11, <1>12, <1>13,
     <1>14 DEF Next, Main

-----------------------------------------------------------------------------
(* Theorems.                                                               *)

(* What every step keeps: the invariant of the pipeline, whatever happens, *)
(* and while nobody cancels, that no index is dropped between the          *)
(* generator and reorder and that the stages stop one after the other.     *)
THEOREM SweepInductive == Spec => []IndInv
<1>1. Init => IndInv
  BY InitInv DEF IndInv, Uncancelled, Concluded, Streaming, Init, Quiet
<1>2. IndInv /\ [Next]_vars => IndInv'
  BY PipelineStep, UncancelledStep, ConcludedStep DEF IndInv
<1> QED
  BY <1>1, <1>2, PTL DEF Spec

(* Its part for the theorems that follow.                                  *)
LEMMA SweepKeepsPipeline == Spec => []PipelineInv
<1> IndInv => PipelineInv
  BY DEF IndInv
<1> QED
  BY SweepInductive, PTL

(* The variables keep their types, the channels and the batch their bounds.*)
THEOREM SweepTypeCorrect == Spec => []TypeOK
<1> PipelineInv => TypeOK
  BY DEF PipelineInv
<1> QED
  BY SweepKeepsPipeline, PTL

(* The checkpoint of a session never covers an index without a row, or     *)
(* with a row its lookup cannot have left.                                 *)
THEOREM SweepCheckpointCovered == Spec => []CheckpointCovered
<1> PipelineInv => CheckpointCovered
  BY DEF PipelineInv
<1> QED
  BY SweepKeepsPipeline, PTL

(* Never two resumable sessions of one signature.                          *)
THEOREM SweepUniqueResumable == Spec => []UniqueResumable
<1> PipelineInv => UniqueResumable
  BY DEF PipelineInv
<1> QED
  BY SweepKeepsPipeline, PTL

(* A run that ends completed without having been cancelled has committed   *)
(* the last index of the wordlist.                                         *)
THEOREM SweepUncancelledIsExhausted == Spec => []UncancelledIsExhausted
<1>1. IndInv => UncancelledIsExhausted
  <2> SUFFICES ASSUME IndInv, ~cancelled, pc = "returned", outcome = "completed"
               PROVE  sessions[sid].last = WordlistSize - 1
    BY DEF UncancelledIsExhausted, CompletedMeansExhausted
  <2> USE DEF IndInv
  <2>1. CASE ~Streaming
    BY <2>1 DEF Concluded
  <2>2. CASE Streaming
    <3>1. log = "done" /\ genErr \notin {"running", "template"} /\ ~logErr
      BY <2>2 DEF Concluded, RunFailed
    <3>2. NothingDropped /\ StopInTurn /\ InOrder /\ sessions[sid].last = Committed
      BY <2>2 DEF Uncancelled, PipelineInv, SessionHeld
    <3>3. genErr \in {"running", "nil", "canceled", "template"} /\ emitting \in {None, next}
          /\ next \in 0 .. WordlistSize
      BY <3>2 DEF PipelineInv, TypeOK, UpstreamOK, OrderingOK, InOrder
    <3>4. gen = WordlistSize /\ batch = <<>> /\ checked = <<>> /\ chkDone
      BY <3>1, <3>2, <3>3 DEF StopInTurn
    <3>5. /\ derived = <<>> /\ hand = <<>> /\ emitting = None /\ raw = <<>>
          /\ \A w \in Workers : hold[w] = Gone
      BY <3>2, <3>4 DEF StopInTurn
    <3>6. cand = <<>>
      BY <3>2, <3>5, WorkersAssumption DEF StopInTurn
    <3>7. ~ OnItsWay(next)
      BY <3>2, <3>3, <3>5, <3>6, SizeAssumption
         DEF NothingDropped, OnItsWay, Indices, None, Gone
    <3>8. next = WordlistSize
      BY <3>2, <3>3, <3>4, <3>7, SizeAssumption DEF NothingDropped
    <3>9. next = Committed + 1 /\ Committed \in Int
      <4>1. Len(batch) = 0 /\ Len(checked) = 0 /\ Len(hand) = 0 /\ Len(derived) = 0
        BY <3>4, <3>5
      <4>2. Committed \in Int
        BY DEF PipelineInv, TypeOK, ControlOK, LoggingOK, Committed, Idx, None
      <4> QED
        BY <3>2, <4>1, <4>2 DEF InOrder
    <3> QED
      BY <3>2, <3>8, <3>9
  <2> QED
    BY <2>1, <2>2
<1> QED
  BY <1>1, SweepInductive, PTL

-----------------------------------------------------------------------------
(* What a step does to the store.                                          *)

(* Only a flush adds rows.                                                 *)
LEMMA AttemptsStep ==
    ASSUME [Next]_vars PROVE attempts' = attempts \/ FlushInsert
<1> USE DEF storage
<1>1. CASE UNCHANGED vars
  BY <1>1 DEF vars
<1>2. ASSUME NEW s, NEW fresh, Start(s, fresh) PROVE attempts' = attempts
  BY <1>2 DEF Start
<1>3. CASE Main
  BY <1>3 DEF Main, ClearPaused, LookupResume, Begin, EndNow, StartupError, RunError,
       Finish, EndRun, EndRunError, MarkPausedAsCompleted, BeginSession,
       InsertSession, ReuseSession, EndSession
<1>4. CASE Generate
  BY <1>4 DEF Generate, GenerateFails, GenerateSend, GenerateCancelled, GenerateDone
<1>5. ASSUME NEW w, Derive(w) PROVE attempts' = attempts
  BY <1>5 DEF Derive, DeriveRecv, DeriveClosed, DeriveSend, DeriveCancelled
<1>6. CASE Reorder
  BY <1>6 DEF Reorder, ReorderRecv, ReorderEmit, ReorderCancelled, ReorderClosed
<1>7. CASE Check
  BY <1>7 DEF Check, CheckRecv, CheckLookup, CheckSend, CheckClosed
<1>8. CASE Log
  BY <1>8 DEF Log, LogRecv, LogClosed, LogCancel, DrainDone, LogReturn,
       FlushCheckpoint, FlushError, Checkpoint
<1>9. CASE Cancel \/ Exit \/ Crash \/ Rest
  BY <1>9 DEF Cancel, Exit, Crash, Rest, BecomeQuiet, vars
<1> QED
  BY <1>1, <1>2, <1>3, <1>4, <1>5, <1>6, <1>7, <1>8, <1>9 DEF Next

(* A flush adds the indices after the checkpoint to a running session.     *)
LEMMA FlushAdds ==
    ASSUME PipelineInv, FlushInsert, NEW k \in DOMAIN attempts' \ DOMAIN attempts
    PROVE  /\ attempts'[k].session = sid /\ sid \in DOMAIN sessions
           /\ sessions[sid].status = "running"
           /\ attempts'[k].candidate > sessions[sid].last
<1>1. attempts' = attempts \o Rows /\ log = "insert" /\ pc = "run"
  BY DEF FlushInsert, InsertAttempts, PipelineInv, FlushReady
<1>2. /\ Rows \in Seq(Attempt(Idx)) /\ Len(Rows) = Len(batch) /\ Len(batch) \in Nat
      /\ \A j \in 1 .. Len(batch) :
           /\ Rows[j].session = sid
           /\ Rows[j].candidate = sessions[sid].last + j
  BY <1>1, RowsFacts
<1>3. attempts \in Seq(Attempt(Idx)) /\ sid \in DOMAIN sessions
      /\ sessions[sid].status = "running" /\ sessions[sid].last \in Int
  BY <1>1 DEF PipelineInv, TypeOK, StorageOK, ControlOK, SessionHeld
<1>4. /\ attempts \o Rows \in Seq(Attempt(Idx))
      /\ Len(attempts \o Rows) = Len(attempts) + Len(Rows)
      /\ \A j \in 1 .. Len(attempts) + Len(Rows) : (attempts \o Rows)[j] =
           IF j <= Len(attempts) THEN attempts[j] ELSE Rows[j - Len(attempts)]
  BY <1>2, <1>3, ConcatProperties, Zenon
<1>5. /\ Len(attempts) \in Nat /\ DOMAIN attempts = 1 .. Len(attempts)
      /\ DOMAIN attempts' = 1 .. Len(attempts')
      /\ Len(attempts') = Len(attempts) + Len(batch)
  BY <1>1, <1>2, <1>3, <1>4
<1>6. PICK j \in 1 .. Len(batch) : k = Len(attempts) + j
  <2>1. k - Len(attempts) \in 1 .. Len(batch) /\ k = Len(attempts) + (k - Len(attempts))
    BY <1>2, <1>5
  <2> QED
    BY <2>1
<1>7. attempts'[k] = Rows[j]
  <2>1. k \in 1 .. Len(attempts) + Len(Rows) /\ ~ (k <= Len(attempts))
        /\ k - Len(attempts) = j
    BY <1>2, <1>5, <1>6
  <2> QED
    BY <1>1, <1>4, <2>1
<1>8. Rows[j].session = sid /\ Rows[j].candidate = sessions[sid].last + j
      /\ j > 0 /\ j \in Int
  BY <1>2, <1>6
<1> QED
  BY <1>3, <1>7, <1>8

(* A row is only ever added beyond the checkpoint of its session.          *)
THEOREM SweepNeverRedo == Spec => NeverRedo
<1> DEFINE A == \A k \in DOMAIN attempts' \ DOMAIN attempts :
                  attempts'[k].candidate > sessions[attempts'[k].session].last
<1>1. PipelineInv /\ [Next]_vars => A
  <2>1. ASSUME attempts' = attempts PROVE A
    BY <2>1
  <2>2. ASSUME PipelineInv, FlushInsert PROVE A
    BY <2>2, FlushAdds
  <2> QED
    BY <2>1, <2>2, AttemptsStep
<1>2. [][PipelineInv /\ [Next]_vars => A]_vars
  BY <1>1, PTL
<1> QED
  BY <1>1, SweepKeepsPipeline, PTL DEF Spec, NeverRedo

(* The statements on the sessions table.                                   *)
LEMMA SessionsStep ==
    ASSUME [Next]_vars
    PROVE  \/ sessions' = sessions
           \/ ClearPaused \/ (\E meta \in Metas : Begin(meta)) \/ EndNow \/ EndRun
           \/ FlushCheckpoint
<1> USE DEF storage
<1>1. CASE UNCHANGED vars
  BY <1>1 DEF vars
<1>2. ASSUME NEW s, NEW fresh, Start(s, fresh) PROVE sessions' = sessions
  BY <1>2 DEF Start
<1>3. CASE LookupResume \/ StartupError \/ RunError \/ Finish \/ EndRunError
  BY <1>3 DEF LookupResume, StartupError, RunError, Finish, EndRunError
<1>4. CASE Generate
  BY <1>4 DEF Generate, GenerateFails, GenerateSend, GenerateCancelled, GenerateDone
<1>5. ASSUME NEW w, Derive(w) PROVE sessions' = sessions
  BY <1>5 DEF Derive, DeriveRecv, DeriveClosed, DeriveSend, DeriveCancelled
<1>6. CASE Reorder
  BY <1>6 DEF Reorder, ReorderRecv, ReorderEmit, ReorderCancelled, ReorderClosed
<1>7. CASE Check
  BY <1>7 DEF Check, CheckRecv, CheckLookup, CheckSend, CheckClosed
<1>8. CASE Log
  BY <1>8 DEF Log, LogRecv, LogClosed, LogCancel, DrainDone, LogReturn,
       FlushInsert, FlushError, InsertAttempts
<1>9. CASE Cancel \/ Exit \/ Crash \/ Rest
  BY <1>9 DEF Cancel, Exit, Crash, Rest, BecomeQuiet, vars
<1> QED
  BY <1>1, <1>2, <1>3, <1>4, <1>5, <1>6, <1>7, <1>8, <1>9 DEF Next, Main

LEMMA CompletedStays ==
    ASSUME PipelineInv, [Next]_vars, NEW id \in DOMAIN sessions,
           sessions[id].status = "completed"
    PROVE  sessions'[id] = sessions[id]
<1>1. ~ Resumable(id)
  BY DEF Resumable
<1>2. CASE ClearPaused
  BY <1>1, <1>2 DEF ClearPaused, MarkPausedAsCompleted, ResumableIds
<1>3. ASSUME NEW meta \in Metas, Begin(meta) PROVE sessions'[id] = sessions[id]
  <2> DEFINE init == [sig |-> sig, meta |-> meta, mode |-> "sweep", cursor |-> NoCursor]
  <2>1. BeginSession(init, 0) /\ init.sig = sig
    BY <1>3 DEF Begin
  <2>2. CASE ResumableIds(sig) = {}
    BY <2>1, <2>2 DEF BeginSession, InsertSession, NewRow
  <2>3. CASE ResumableIds(sig) # {}
    <3>1. LatestId(ResumableIds(sig)) # id
      BY <1>1, <2>3, LatestIsResumable DEF PipelineInv, TypeOK, ResumableIds
    <3>2. ReuseSession(LatestId(ResumableIds(sig)), init)
      BY <2>1, <2>3 DEF BeginSession, BeginSessionId
    <3> QED
      BY <3>1, <3>2 DEF ReuseSession
  <2> QED
    BY <2>2, <2>3
<1>4. CASE EndNow \/ EndRun
  <2>1. sessions[sid].status = "running"
    BY <1>4 DEF EndNow, EndRun, PipelineInv, SessionHeld
  <2>2. sid # id
    BY <2>1
  <2> QED
    BY <1>4, <2>2 DEF EndNow, EndRun, EndSession
<1>5. CASE FlushCheckpoint
  <2>1. sessions[sid].status = "running"
    BY <1>5 DEF FlushCheckpoint, PipelineInv, SessionHeld, FlushReady
  <2>2. sid # id
    BY <2>1
  <2> QED
    BY <1>5, <2>2 DEF FlushCheckpoint, Checkpoint
<1> QED
  BY <1>2, <1>3, <1>4, <1>5, SessionsStep

(* What a completed session says, it says for good.                        *)
THEOREM SweepCompletedIsFinal == Spec => CompletedIsFinal
<1> DEFINE A == \A id \in DOMAIN sessions :
                  sessions[id].status = "completed" => sessions'[id] = sessions[id]
           B == \A k \in DOMAIN attempts' \ DOMAIN attempts :
                  sessions[attempts'[k].session].status = "running"
<1>1. PipelineInv /\ [Next]_vars => A
  BY CompletedStays
<1>2. PipelineInv /\ [Next]_vars => B
  <2>1. ASSUME attempts' = attempts PROVE B
    BY <2>1
  <2>2. ASSUME PipelineInv, FlushInsert PROVE B
    BY <2>2, FlushAdds
  <2> QED
    BY <2>1, <2>2, AttemptsStep
<1>3. PipelineInv /\ [Next]_vars => A /\ B
  BY <1>1, <1>2
<1> QED
  BY <1>3, SweepKeepsPipeline, PTL DEF Spec, CompletedIsFinal

-----------------------------------------------------------------------------
(* A sweep implements ResumableScan.                                       *)

(* A step that leaves the store alone stutters, or abandons the session.   *)
LEMMA ScanKeeps ==
    ASSUME UNCHANGED storage, OpenSession' \in {OpenSession, 0}
    PROVE  [Scan!Next]_(Scan!scan)
BY DEF Scan!Next, Scan!Abandon, Scan!scan, Scan!storage, storage

LEMMA ScanRecords ==
    ASSUME PipelineInv, FlushInsert PROVE Scan!Record
<1>1. /\ log = "insert" /\ attempts' = attempts \o Rows
      /\ UNCHANGED <<sessions, lastId, pc, sid>>
  BY DEF FlushInsert, InsertAttempts, control
<1>2. pc = "run" /\ sid # 0 /\ OpenSession = sid /\ OpenSession' = sid
  BY <1>1 DEF PipelineInv, FlushReady, SessionHeld, OpenSession
<1>3. /\ DOMAIN Rows = 1 .. Len(batch) /\ Len(batch) \in Nat \ {0}
      /\ \A k \in 1 .. Len(batch) :
           /\ Rows[k].candidate = sessions[sid].last + k
           /\ Rows[k].candidate \in Idx
           /\ Rows[k].res \in Outcomes[Rows[k].candidate] \cap Results
  BY <1>1, RowsFacts
<1>4. sessions[sid].last \in Int
  BY <1>2 DEF PipelineInv, TypeOK, StorageOK, ControlOK
<1> DEFINE n == Len(batch)
           res == [k \in 1 .. n |-> Rows[k].res]
<1>5. n \in 1 .. WordlistSize - 1 - sessions[sid].last
  <2>1. Rows[n].candidate \in Idx /\ Rows[n].candidate = sessions[sid].last + n
    BY <1>3
  <2> QED
    BY <1>3, <1>4, <2>1, SizeAssumption DEF Idx
<1>6. res \in [1 .. n -> Results] /\ \A k \in 1 .. n : res[k] = Rows[k].res
  BY <1>3
<1>7. \A k \in 1 .. n : res[k] \in Outcomes[sessions[sid].last + k]
  BY <1>3, <1>6
<1>8. Rows = [k \in 1 .. n |->
                [session |-> sid, candidate |-> sessions[sid].last + k,
                 res |-> res[k]]]
  <2>1. \A k \in 1 .. n : Rows[k] = [session |-> sid, candidate |-> batch[k].idx,
                                     res |-> batch[k].res]
    BY <1>3 DEF Rows
  <2> HIDE DEF n, res
  <2>2. ASSUME NEW k \in 1 .. n
        PROVE  batch[k].idx = Rows[k].candidate /\ batch[k].res = res[k]
    <3>1. Rows[k] = [session |-> sid, candidate |-> batch[k].idx, res |-> batch[k].res]
      BY <2>1
    <3>2. Rows[k].candidate = batch[k].idx /\ Rows[k].res = batch[k].res
      BY <3>1
    <3> QED
      BY <1>6, <3>2
  <2> QED
    BY <1>3, <2>1, <2>2 DEF Rows, n
<1> HIDE DEF n, res
<1>9. Scan!InsertAttempts([k \in 1 .. n |->
                [session |-> OpenSession, candidate |-> sessions[OpenSession].last + k,
                 res |-> res[k]]])
  BY <1>1, <1>2, <1>8 DEF Scan!InsertAttempts
<1> QED
  BY <1>2, <1>5, <1>6, <1>7, <1>9 DEF Scan!Record, Scan!Results, Results

LEMMA ScanAdvances ==
    ASSUME PipelineInv, FlushCheckpoint PROVE Scan!Advance
<1>1. log = "checkpoint" /\ Checkpoint(sid, TopIndex) /\ UNCHANGED <<pc, sid>>
  BY DEF FlushCheckpoint, control
<1>2. /\ pc = "run" /\ sid # 0 /\ OpenSession = sid /\ OpenSession' = sid
      /\ \A k \in DOMAIN batch : Recorded(sid, batch[k].idx)
  BY <1>1 DEF PipelineInv, FlushReady, SessionHeld, OpenSession
<1>3. /\ InOrder /\ sessions[sid].last = Committed
      /\ Committed \in -1 .. WordlistSize - 1
      /\ Len(batch) \in Nat /\ DOMAIN batch = 1 .. Len(batch)
      /\ \A k \in 1 .. Len(batch) : batch[k] \in Item
  BY <1>1, LogFacts
<1>4. Len(batch) > 0 /\ TopIndex = Committed + Len(batch)
      /\ TopIndex \in 0 .. WordlistSize - 1
  <2>1. Len(batch) > 0
    BY <1>1, <1>3 DEF PipelineInv, FlushReady, TypeOK, LoggingOK
  <2>2. batch[Len(batch)].idx = Committed + Len(batch)
    BY <1>3, <2>1 DEF InOrder
  <2> QED
    BY <1>3, <2>1, <2>2 DEF TopIndex, Item, Idx
<1>5. ASSUME NEW j \in sessions[sid].last + 1 .. TopIndex
      PROVE  Scan!Logged(sid, j)
  <2>1. j - Committed \in DOMAIN batch /\ j = Committed + (j - Committed)
    BY <1>3, <1>4
  <2>2. batch[j - Committed].idx = j
    BY <1>3, <2>1 DEF InOrder
  <2>3. Recorded(sid, j)
    BY <1>2, <2>1, <2>2
  <2> QED
    BY <2>3 DEF Recorded, Scan!Logged
<1> QED
  BY <1>1, <1>2, <1>4, <1>5
     DEF Scan!Advance, Scan!Checkpoint, Checkpoint

(* The steps of Run on the sessions table.                                 *)
LEMMA ScanMain ==
    ASSUME PipelineInv, NEW meta \in Metas,
           ClearPaused \/ Begin(meta) \/ EndNow \/ EndRun
    PROVE  Scan!Next
<1> USE DEF Resumable, ResumableIds, LatestId, BeginSessionId, Scan!Resumable,
            Scan!ResumableIds, Scan!LatestId, Scan!BeginSessionId
<1>1. sig \in Signatures
  BY DEF PipelineInv, TypeOK, ControlOK
<1>2. CASE ClearPaused
  <2>1. OpenSession = 0 /\ OpenSession' = OpenSession
    BY <1>2 DEF ClearPaused, OpenSession
  <2>2. Scan!Retire(sig)
    BY <1>2, <2>1 DEF ClearPaused, Scan!Retire, MarkPausedAsCompleted,
         Scan!MarkPausedAsCompleted
  <2> QED
    BY <1>1, <2>2 DEF Scan!Next
<1>3. CASE Begin(meta)
  <2>1. OpenSession = 0 /\ OpenSession' = sid' /\ sid' = BeginSessionId(sig)
    BY <1>3 DEF Begin, OpenSession
  <2>2. Scan!Open(sig, meta)
    BY <1>3, <2>1 DEF Begin, Scan!Open, BeginSession, Scan!BeginSession,
         InsertSession, Scan!InsertSession, NewRow, Scan!NewRow,
         ReuseSession, Scan!ReuseSession, NoCursor, Scan!NoCursor
  <2> QED
    BY <1>1, <2>2 DEF Scan!Next
<1>4. CASE EndNow \/ EndRun
  <2> DEFINE status == IF EndNow THEN "completed" ELSE outcome
  <2>1. /\ pc \in {"endnow", "end"} /\ sid # 0 /\ pc' = "returned"
        /\ EndSession(sid, status) /\ status \in {"paused", "completed"}
    BY <1>4 DEF EndNow, EndRun, PipelineInv, SessionHeld
  <2>2. Scan!Close(status)
    BY <2>1 DEF OpenSession, Scan!Close, EndSession, Scan!EndSession
  <2> QED
    BY <2>1, <2>2 DEF Scan!Next
<1> QED
  BY <1>2, <1>3, <1>4

LEMMA ScanStep ==
    ASSUME PipelineInv, [Next]_vars PROVE [Scan!Next]_(Scan!scan)
<1> USE DEF storage, control, OpenSession
<1>1. CASE UNCHANGED vars
  BY <1>1, ScanKeeps DEF vars
<1>2. ASSUME NEW s, NEW fresh, Start(s, fresh) PROVE [Scan!Next]_(Scan!scan)
  BY <1>2, ScanKeeps DEF Start
<1>3. CASE LookupResume \/ StartupError \/ RunError \/ Finish \/ EndRunError
  BY <1>3, ScanKeeps
     DEF LookupResume, StartupError, RunError, LogReturned, Finish, EndRunError
<1>4. ASSUME NEW meta \in Metas, ClearPaused \/ Begin(meta) \/ EndNow \/ EndRun
      PROVE  [Scan!Next]_(Scan!scan)
  BY <1>4, ScanMain
<1>5. CASE Generate
  BY <1>5, ScanKeeps DEF Generate, GenerateFails, GenerateSend, GenerateCancelled,
       GenerateDone
<1>6. ASSUME NEW w, Derive(w) PROVE [Scan!Next]_(Scan!scan)
  BY <1>6, ScanKeeps DEF Derive, DeriveRecv, DeriveClosed, DeriveSend,
       DeriveCancelled
<1>7. CASE Reorder
  BY <1>7, ScanKeeps DEF Reorder, ReorderRecv, ReorderEmit, ReorderCancelled,
       ReorderClosed
<1>8. CASE Check
  BY <1>8, ScanKeeps DEF Check, CheckRecv, CheckLookup, CheckSend, CheckClosed
<1>9. CASE Log
  <2>1. CASE FlushInsert
    BY <2>1, ScanRecords DEF Scan!Next
  <2>2. CASE FlushCheckpoint
    BY <2>2, ScanAdvances DEF Scan!Next
  <2> QED
    BY <1>9, <2>1, <2>2, ScanKeeps
       DEF Log, LogRecv, LogClosed, LogCancel, DrainDone, LogReturn, FlushError
<1>10. CASE Cancel
  BY <1>10, ScanKeeps DEF Cancel
<1>11. CASE Exit \/ Crash
  BY <1>11, ScanKeeps DEF Exit, Crash, BecomeQuiet
<1>12. CASE Rest
  BY <1>12, ScanKeeps DEF Rest, vars
<1> QED
  BY <1>1, <1>2, <1>3, <1>4, <1>5, <1>6, <1>7, <1>8, <1>9, <1>10, <1>11, <1>12,
     SweepRowAssumption DEF Next, Main

(* Every history of runs, as far as the database can tell, is a history    *)
(* of one sequential scanner.                                              *)
THEOREM SweepImplementsScan == Spec => ImplementsScan
<1>1. Init => Scan!Init
  BY DEF Init, Quiet, OpenSession, StorageInit, Scan!Init, Scan!StorageInit
<1>2. PipelineInv /\ [Next]_vars => [Scan!Next]_(Scan!scan)
  BY ScanStep
<1> QED
  BY <1>1, <1>2, SweepKeepsPipeline, PTL DEF Spec, ImplementsScan, Scan!Spec
-----------------------------------------------------------------------------
(* When no statement fails and no process dies: the rows of a session.     *)

(* A flush appends the indices after the checkpoint.                       *)
LEMMA FlushRows ==
    ASSUME PipelineInv, FlushInsert
    PROVE  /\ Len(attempts) \in Nat /\ DOMAIN attempts = 1 .. Len(attempts)
           /\ Len(batch) \in Nat \ {0} /\ DOMAIN batch = 1 .. Len(batch)
           /\ DOMAIN attempts' = 1 .. Len(attempts) + Len(batch)
           /\ \A k \in 1 .. Len(attempts) : attempts'[k] = attempts[k]
           /\ \A j \in 1 .. Len(batch) :
                /\ attempts'[Len(attempts) + j].session = sid
                /\ attempts'[Len(attempts) + j].candidate = sessions[sid].last + j
                /\ attempts'[Len(attempts) + j].res = batch[j].res
<1>1. attempts' = attempts \o Rows /\ log = "insert"
  BY DEF FlushInsert, InsertAttempts
<1>2. /\ Rows \in Seq(Attempt(Idx)) /\ Len(Rows) = Len(batch)
      /\ Len(batch) \in Nat \ {0} /\ DOMAIN Rows = 1 .. Len(batch)
      /\ \A j \in 1 .. Len(batch) :
           /\ Rows[j].session = sid /\ Rows[j].res = batch[j].res
           /\ Rows[j].candidate = sessions[sid].last + j
  BY <1>1, RowsFacts
<1>3. attempts \in Seq(Attempt(Idx)) /\ DOMAIN batch = 1 .. Len(batch)
  BY DEF PipelineInv, TypeOK, StorageOK, LoggingOK
<1>4. /\ attempts \o Rows \in Seq(Attempt(Idx))
      /\ Len(attempts \o Rows) = Len(attempts) + Len(Rows)
      /\ \A k \in 1 .. Len(attempts) + Len(Rows) : (attempts \o Rows)[k] =
           IF k <= Len(attempts) THEN attempts[k] ELSE Rows[k - Len(attempts)]
  BY <1>2, <1>3, ConcatProperties, Zenon
<1>5. /\ Len(attempts) \in Nat /\ DOMAIN attempts = 1 .. Len(attempts)
      /\ DOMAIN attempts' = 1 .. Len(attempts) + Len(batch)
  BY <1>1, <1>2, <1>3, <1>4
<1>6. \A k \in 1 .. Len(attempts) : attempts'[k] = attempts[k]
  BY <1>1, <1>2, <1>4, <1>5
<1>7. ASSUME NEW j \in 1 .. Len(batch) PROVE attempts'[Len(attempts) + j] = Rows[j]
  <2>1. /\ Len(attempts) + j \in 1 .. Len(attempts) + Len(Rows)
        /\ ~ (Len(attempts) + j <= Len(attempts))
        /\ (Len(attempts) + j) - Len(attempts) = j
    BY <1>2, <1>5
  <2> QED
    BY <1>1, <1>4, <2>1
<1> QED
  BY <1>2, <1>3, <1>5, <1>6, <1>7

(* The size of a set of numbers grows by what is put on top of it.         *)
LEMMA SizeOnTop ==
    ASSUME NEW n \in Nat, NEW m \in Nat, NEW S, S \subseteq 1 .. n
    PROVE  /\ IsFiniteSet(S) /\ Cardinality(S) \in Nat
           /\ Cardinality(S \cup (n + 1 .. n + m)) = Cardinality(S) + m
<1>1. IsFiniteSet(S) /\ Cardinality(S) \in Nat
  <2>1. 1 \in Int /\ n \in Int
    OBVIOUS
  <2>2. IsFiniteSet(1 .. n)
    BY <2>1, FS_Interval
  <2>3. IsFiniteSet(S)
    BY <2>2, FS_Subset
  <2> QED
    BY <2>3, FS_CardinalityType
<1>2. IsFiniteSet(n + 1 .. n + m) /\ Cardinality(n + 1 .. n + m) = m
  <2>1. n + 1 \in Int /\ n + m \in Int
    OBVIOUS
  <2>2. /\ IsFiniteSet(n + 1 .. n + m)
        /\ Cardinality(n + 1 .. n + m) =
             IF n + 1 > n + m THEN 0 ELSE (n + m) - (n + 1) + 1
    BY <2>1, FS_Interval
  <2> QED
    BY <2>2
<1>3. S \cap (n + 1 .. n + m) = {}
  OBVIOUS
<1>4. Cardinality(S \cap (n + 1 .. n + m)) = 0
  BY <1>3, FS_EmptySet
<1> DEFINE T == n + 1 .. n + m
<1>5. IsFiniteSet(T) /\ Cardinality(T) = m /\ Cardinality(S \cap T) = 0
  BY <1>2, <1>4
<1> HIDE DEF T
<1>6. Cardinality(S \cup T) = Cardinality(S) + Cardinality(T) - Cardinality(S \cap T)
  BY <1>1, <1>5, FS_Union
<1>7. Cardinality(S \cup T) = Cardinality(S) + m
  BY <1>1, <1>5, <1>6
<1> QED
  BY <1>1, <1>7 DEF T

LEMMA SizeOfPart ==
    ASSUME NEW n \in Nat, NEW S, S \subseteq 1 .. n, NEW k \in S
    PROVE  Cardinality({j \in S : j < k}) < Cardinality(S)
<1> DEFINE T == {j \in S : j < k}
<1>1. IsFiniteSet(S) /\ Cardinality(S) \in Nat
  BY SizeOnTop
<1>2. T \in SUBSET S /\ T # S
  OBVIOUS
<1>3. IsFiniteSet(T) /\ Cardinality(T) <= Cardinality(S) /\ Cardinality(T) # Cardinality(S)
  <2> HIDE DEF T
  <2> QED
    BY <1>1, <1>2, FS_Subset
<1>4. Cardinality(T) \in Nat
  BY <1>3, FS_CardinalityType
<1> QED
  BY <1>1, <1>3, <1>4

(* A step that adds no rows keeps the rows a prefix, if it lets the        *)
(* checkpoints be and begins new sessions at the head.                     *)
LEMMA PrefixFrame ==
    ASSUME LogIsPrefix, attempts' = attempts, DOMAIN sessions \subseteq DOMAIN sessions',
           \A id \in DOMAIN sessions :
             sessions'[id].last + 1 + Unmarked(id)' = sessions[id].last + 1 + Unmarked(id),
           \A id \in DOMAIN sessions' \ DOMAIN sessions :
             sessions'[id].last + 1 + Unmarked(id)' = 0
    PROVE  LogIsPrefix'
<1>1. \A id : RowsOf(id)' = RowsOf(id)
  BY DEF RowsOf
<1>2. ASSUME NEW k \in DOMAIN attempts'
      PROVE  /\ attempts'[k].session \in DOMAIN sessions'
             /\ attempts'[k].candidate = Cardinality(Before(k)')
  <2>1. Before(k)' = Before(k)
    BY <1>1 DEF Before
  <2> QED
    BY <2>1 DEF LogIsPrefix
<1>3. ASSUME NEW id \in DOMAIN sessions'
      PROVE  Cardinality(RowsOf(id)') = sessions'[id].last + 1 + Unmarked(id)'
  <2>1. CASE id \in DOMAIN sessions
    BY <1>1, <2>1 DEF LogIsPrefix
  <2>2. CASE id \notin DOMAIN sessions
    <3>1. RowsOf(id) = {}
      BY <2>2 DEF LogIsPrefix, RowsOf
    <3> QED
      BY <1>1, <2>2, <3>1, FS_EmptySet
  <2> QED
    BY <2>1, <2>2
<1> QED
  BY <1>2, <1>3 DEF LogIsPrefix

LEMMA PrefixInsert ==
    ASSUME PipelineInv, LogIsPrefix, FlushInsert PROVE LogIsPrefix'
<1>1. /\ log = "insert" /\ log' = "checkpoint"
      /\ UNCHANGED <<sessions, sid, batch>>
  BY DEF FlushInsert, InsertAttempts, control
<1>2. PICK n \in Nat : n = Len(attempts)
  BY FlushRows
<1>3. PICK m \in Nat \ {0} : m = Len(batch)
  BY FlushRows
<1>4. PICK last \in Int : last = sessions[sid].last
  BY <1>1, LogFacts DEF Row
<1>5. /\ DOMAIN attempts = 1 .. n /\ DOMAIN attempts' = 1 .. n + m
      /\ \A k \in 1 .. n : attempts'[k] = attempts[k]
      /\ \A j \in 1 .. m : attempts'[n + j].session = sid
                         /\ attempts'[n + j].candidate = last + j
  BY <1>2, <1>3, <1>4, FlushRows
<1>6. \A k \in n + 1 .. n + m : k - n \in 1 .. m /\ k = n + (k - n)
  OBVIOUS
<1>7. \A k \in n + 1 .. n + m :
        attempts'[k].session = sid /\ attempts'[k].candidate = last + (k - n)
  BY <1>5, <1>6
<1>8. sid \in DOMAIN sessions
  BY <1>1, LogFacts
<1>9. \A id : RowsOf(id) \subseteq 1 .. n
  BY <1>5 DEF RowsOf
<1>10. Cardinality(RowsOf(sid)) = last + 1
  BY <1>1, <1>4, <1>8 DEF LogIsPrefix, Unmarked
<1>11. \A id : id # sid => RowsOf(id)' = RowsOf(id)
  BY <1>5, <1>7 DEF RowsOf
<1>12. RowsOf(sid)' = RowsOf(sid) \cup (n + 1 .. n + m)
  BY <1>1, <1>5, <1>7 DEF RowsOf
<1>13. ASSUME NEW k \in DOMAIN attempts'
       PROVE  /\ attempts'[k].session \in DOMAIN sessions'
              /\ attempts'[k].candidate = Cardinality(Before(k)')
  <2>1. CASE k \in 1 .. n
    <3>1. PICK id : id = attempts[k].session
      OBVIOUS
    <3>2. attempts'[k] = attempts[k] /\ id \in DOMAIN sessions
          /\ attempts[k].candidate = Cardinality(Before(k))
      <4>1. k \in DOMAIN attempts /\ attempts'[k] = attempts[k]
        BY <1>5, <2>1
      <4> QED
        BY <3>1, <4>1 DEF LogIsPrefix
    <3>3. \A j \in n + 1 .. n + m : ~ (j < k)
      BY <2>1
    <3>4. {j \in RowsOf(id)' : j < k} = {j \in RowsOf(id) : j < k}
      <4>1. CASE id = sid
        BY <1>1, <1>12, <3>3, <4>1
      <4>2. CASE id # sid
        BY <1>11, <4>2
      <4> QED
        BY <4>1, <4>2
    <3>5. Before(k)' = Before(k)
      BY <3>1, <3>2, <3>4 DEF Before
    <3> QED
      BY <1>1, <3>1, <3>2, <3>5
  <2>2. CASE k \in n + 1 .. n + m
    <3>1. attempts'[k].session = sid /\ attempts'[k].candidate = last + (k - n)
      BY <1>7, <2>2
    <3>2. PICK i \in Nat : i = k - n - 1
      BY <2>2
    <3>3. {j \in RowsOf(sid)' : j < k} = RowsOf(sid) \cup (n + 1 .. n + i)
      <4>1. \A j \in 1 .. n : j < k
        BY <2>2
      <4>2. \A j \in n + 1 .. n + m : j < k <=> j \in n + 1 .. n + i
        BY <2>2, <3>2
      <4>3. n + 1 .. n + i \subseteq n + 1 .. n + m
        BY <2>2, <3>2
      <4> QED
        BY <1>9, <1>12, <4>1, <4>2, <4>3
    <3>4. Before(k)' = RowsOf(sid) \cup (n + 1 .. n + i)
      BY <1>1, <3>1, <3>3 DEF Before
    <3>5. Cardinality(Before(k)') = Cardinality(RowsOf(sid)) + i
      <4>1. RowsOf(sid) \subseteq 1 .. n
        BY <1>9
      <4>2. Cardinality(RowsOf(sid) \cup (n + 1 .. n + i)) = Cardinality(RowsOf(sid)) + i
        BY <4>1, SizeOnTop
      <4> QED
        BY <3>4, <4>2
    <3>6. last + (k - n) = (last + 1) + i
      BY <2>2, <3>2
    <3> QED
      BY <1>1, <1>8, <1>10, <3>1, <3>5, <3>6
  <2> QED
    BY <1>5, <2>1, <2>2
<1>14. ASSUME NEW id \in DOMAIN sessions'
       PROVE  Cardinality(RowsOf(id)') = sessions'[id].last + 1 + Unmarked(id)'
  <2>1. CASE id = sid
    <3>1. Unmarked(id)' = m
      BY <1>1, <1>3, <2>1 DEF Unmarked
    <3>2. Cardinality(RowsOf(sid)') = (last + 1) + m
      <4>1. RowsOf(sid) \subseteq 1 .. n
        BY <1>9
      <4>2. Cardinality(RowsOf(sid) \cup (n + 1 .. n + m)) = Cardinality(RowsOf(sid)) + m
        BY <4>1, SizeOnTop
      <4> QED
        BY <1>10, <1>12, <4>2
    <3> QED
      BY <1>1, <1>4, <2>1, <3>1, <3>2
  <2>2. CASE id # sid
    <3>1. Unmarked(id)' = 0 /\ Unmarked(id) = 0
      BY <1>1, <2>2 DEF Unmarked
    <3> QED
      BY <1>1, <1>11, <2>2, <3>1 DEF LogIsPrefix
  <2> QED
    BY <2>1, <2>2
<1> QED
  BY <1>13, <1>14 DEF LogIsPrefix
(* A step that changes neither table.                                      *)
LEMMA PrefixKeeps ==
    ASSUME LogIsPrefix, attempts' = attempts, sessions' = sessions,
           \/ UNCHANGED <<log, sid, batch>>
           \/ log # "checkpoint" /\ log' # "checkpoint"
    PROVE  LogIsPrefix'
<1>1. \A id : Unmarked(id)' = Unmarked(id)
  BY DEF Unmarked
<1> QED
  BY <1>1, PrefixFrame

LEMMA PrefixCheckpoint ==
    ASSUME PipelineInv, LogIsPrefix, FlushCheckpoint PROVE LogIsPrefix'
<1>1. /\ log = "checkpoint" /\ log' # "checkpoint" /\ sid' = sid /\ attempts' = attempts
  BY DEF FlushCheckpoint, Checkpoint, control, PipelineInv, TypeOK, LoggingOK
<1>2. /\ sid \in DOMAIN sessions /\ sessions[sid] \in Row
      /\ sessions[sid].last = Committed /\ Committed \in Int /\ InOrder
      /\ Len(batch) \in Nat /\ DOMAIN batch = 1 .. Len(batch)
  BY <1>1, LogFacts
<1>3. Len(batch) > 0
  BY <1>1, <1>2 DEF PipelineInv, FlushReady, TypeOK, LoggingOK
<1>4. TopIndex = Committed + Len(batch)
  <2>1. Len(batch) \in DOMAIN batch
    BY <1>2, <1>3
  <2> QED
    BY <1>2, <2>1 DEF TopIndex, InOrder
<1>5. sessions[sid].last < TopIndex
  BY <1>2, <1>3, <1>4
<1>6. /\ DOMAIN sessions' = DOMAIN sessions /\ sessions'[sid].last = TopIndex
      /\ \A id \in DOMAIN sessions : id # sid => sessions'[id] = sessions[id]
  <2>1. sessions' = [sessions EXCEPT ![sid].last =
                       IF sessions[sid].last < TopIndex THEN TopIndex
                       ELSE sessions[sid].last]
    BY DEF FlushCheckpoint, Checkpoint
  <2> QED
    BY <1>2, <1>5, <2>1 DEF Row
<1>7. /\ \A id : Unmarked(id)' = 0
      /\ \A id : id # sid => Unmarked(id) = 0
      /\ Unmarked(sid) = Len(batch)
  BY <1>1 DEF Unmarked
<1>8. ASSUME NEW id \in DOMAIN sessions
      PROVE  sessions'[id].last + 1 + Unmarked(id)' = sessions[id].last + 1 + Unmarked(id)
  <2>1. CASE id = sid
    <3>1. TopIndex + 1 + 0 = Committed + 1 + Len(batch)
      BY <1>2, <1>4
    <3> QED
      BY <1>2, <1>6, <1>7, <2>1, <3>1
  <2>2. CASE id # sid
    BY <1>6, <1>7, <2>2
  <2> QED
    BY <2>1, <2>2
<1> QED
  BY <1>1, <1>6, <1>8, PrefixFrame

LEMMA PrefixBegin ==
    ASSUME PipelineInv, LogIsPrefix, NEW meta \in Metas, Begin(meta)
    PROVE  LogIsPrefix'
<1> DEFINE init == [sig |-> sig, meta |-> meta, mode |-> "sweep", cursor |-> NoCursor]
<1>1. BeginSession(init, 0) /\ init.sig = sig
  BY DEF Begin
<1> HIDE DEF init
<1>2. log = "done" /\ log' # "checkpoint"
  <2>1. log = "done"
    BY DEF PipelineInv, FlushReady, Begin
  <2>2. log' \in {"select", "done"}
    BY <2>1, Zenon DEF Begin, logging
  <2> QED
    BY <2>1, <2>2
<1>3. \A id : Unmarked(id) = 0 /\ Unmarked(id)' = 0
  BY <1>2 DEF Unmarked
<1>4. \A id \in DOMAIN sessions : sessions[id] \in Row
  BY DEF PipelineInv, TypeOK, StorageOK
<1>5. CASE ResumableIds(sig) = {}
  <2>1. InsertSession(init, 0)
    BY <1>1, <1>5 DEF BeginSession
  <2>2. /\ attempts' = attempts
        /\ DOMAIN sessions' = DOMAIN sessions \cup {lastId + 1}
        /\ \A id \in DOMAIN sessions : sessions'[id] = sessions[id]
        /\ \A id \in DOMAIN sessions' \ DOMAIN sessions : sessions'[id].last = -1
    BY <2>1 DEF InsertSession, NewRow
  <2> QED
    BY <1>3, <2>2, PrefixFrame
<1>6. CASE ResumableIds(sig) # {}
  <2>1. PICK id0 : id0 = LatestId(ResumableIds(sig))
    OBVIOUS
  <2>2. id0 \in DOMAIN sessions /\ sessions[id0] \in Row
    BY <1>4, <1>6, <2>1, LatestIsResumable DEF ResumableIds, PipelineInv, TypeOK
  <2>3. ReuseSession(id0, init)
    BY <1>1, <1>6, <2>1 DEF BeginSession, BeginSessionId
  <2>4. /\ attempts' = attempts /\ DOMAIN sessions' = DOMAIN sessions
        /\ \A id \in DOMAIN sessions : sessions'[id].last = sessions[id].last
    <3>1. \A id \in DOMAIN sessions : id # id0 => sessions'[id] = sessions[id]
      BY <2>2, <2>3 DEF ReuseSession
    <3>2. sessions'[id0].last = sessions[id0].last
      BY <2>2, <2>3 DEF ReuseSession, Row
    <3> QED
      BY <2>3, <3>1, <3>2 DEF ReuseSession
  <2> QED
    BY <1>3, <2>4, PrefixFrame
<1> QED
  BY <1>5, <1>6

LEMMA PrefixStep ==
    ASSUME Graceful, PipelineInv, LogIsPrefix, [Next]_vars PROVE LogIsPrefix'
<1> USE DEF storage
<1>1. CASE UNCHANGED vars
  BY <1>1, PrefixKeeps DEF vars, control, logging
<1>2. ASSUME NEW s, NEW fresh, Start(s, fresh) PROVE LogIsPrefix'
  BY <1>2, PrefixKeeps DEF Start, logging
<1>3. CASE LookupResume \/ StartupError \/ RunError \/ Finish \/ EndRunError
  BY <1>3, PrefixKeeps DEF LookupResume, StartupError, RunError, Finish, EndRunError,
     logging
<1>4. CASE ClearPaused
  <2>1. /\ attempts' = attempts /\ DOMAIN sessions' = DOMAIN sessions
        /\ UNCHANGED <<log, sid, batch>>
        /\ \A id \in DOMAIN sessions :
             \/ sessions'[id] = sessions[id]
             \/ sessions'[id] = [sessions[id] EXCEPT !.status = "completed"]
    BY <1>4 DEF ClearPaused, MarkPausedAsCompleted, logging
  <2>2. \A id \in DOMAIN sessions : sessions'[id].last = sessions[id].last
    BY <2>1 DEF PipelineInv, TypeOK, StorageOK, Row
  <2>3. \A id : Unmarked(id)' = Unmarked(id)
    BY <2>1 DEF Unmarked
  <2> QED
    BY <2>1, <2>2, <2>3, PrefixFrame
<1>5. ASSUME NEW meta \in Metas, Begin(meta) PROVE LogIsPrefix'
  BY <1>5, PrefixBegin
<1>6. CASE EndNow \/ EndRun
  <2>1. PICK status : sessions' = [sessions EXCEPT ![sid].status = status]
    BY <1>6 DEF EndNow, EndRun, EndSession
  <2>2. attempts' = attempts /\ UNCHANGED <<log, sid, batch>>
    BY <1>6 DEF EndNow, EndRun, EndSession, logging
  <2>3. DOMAIN sessions' = DOMAIN sessions
        /\ \A id \in DOMAIN sessions : sessions'[id].last = sessions[id].last
    BY <2>1 DEF PipelineInv, TypeOK, StorageOK, Row
  <2>4. \A id : Unmarked(id)' = Unmarked(id)
    BY <2>2 DEF Unmarked
  <2> QED
    BY <2>2, <2>3, <2>4, PrefixFrame
<1>7. CASE Generate
  BY <1>7, PrefixKeeps DEF Generate, GenerateFails, GenerateSend, GenerateCancelled,
     GenerateDone, control, logging
<1>8. ASSUME NEW w, Derive(w) PROVE LogIsPrefix'
  BY <1>8, PrefixKeeps DEF Derive, DeriveRecv, DeriveClosed, DeriveSend,
     DeriveCancelled, control, logging
<1>9. CASE Reorder
  BY <1>9, PrefixKeeps DEF Reorder, ReorderRecv, ReorderEmit, ReorderCancelled,
     ReorderClosed, control, logging
<1>10. CASE Check
  BY <1>10, PrefixKeeps DEF Check, CheckRecv, CheckLookup, CheckSend, CheckClosed,
     control, logging
<1>11. CASE Log
  <2>1. CASE FlushInsert
    BY <2>1, PrefixInsert
  <2>2. CASE FlushCheckpoint
    BY <2>2, PrefixCheckpoint
  <2>3. CASE LogRecv("select") \/ LogRecv("drain") \/ LogClosed \/ LogCancel \/ DrainDone
    <3>1. log # "checkpoint" /\ log' # "checkpoint"
          /\ attempts' = attempts /\ sessions' = sessions
      BY <2>3 DEF LogRecv, LogClosed, LogCancel, DrainDone, LogReturn, LastFlush
    <3> QED
      BY <3>1, PrefixKeeps
  <2>4. ~FlushError
    BY DEF Graceful, FlushError
  <2> QED
    BY <1>11, <2>1, <2>2, <2>3, <2>4 DEF Log
<1>12. CASE Cancel
  BY <1>12, PrefixKeeps DEF Cancel, control, logging
<1>13. CASE Exit
  <2>1. log = "done" /\ log' = "done" /\ sessions' = sessions /\ attempts' = attempts
    BY <1>13 DEF Exit, BecomeQuiet, PipelineInv, FlushReady
  <2> QED
    BY <2>1, PrefixKeeps
<1>14. ~Crash
  BY DEF Graceful, Crash
<1>15. CASE Rest
  BY <1>15, <1>1 DEF Rest
<1> QED
  BY <1>1, <1>2, <1>3, <1>4, <1>5, <1>6, <1>7, <1>8, <1>9, <1>10, <1>11, <1>12, <1>13,
     <1>14, <1>15 DEF Next, Main

(* With a database that works and processes that live to their end, the    *)
(* rows of a session are 0, 1, 2, ... over all its runs.                   *)
THEOREM SweepLogIsPrefix ==
    ASSUME Graceful PROVE Spec => []LogIsPrefix
<1>1. Init => LogIsPrefix
  BY DEF Init, StorageInit, LogIsPrefix
<1>2. PipelineInv /\ LogIsPrefix /\ [Next]_vars => LogIsPrefix'
  BY PrefixStep
<1> QED
  BY <1>1, <1>2, SweepKeepsPipeline, PTL DEF Spec
-----------------------------------------------------------------------------
(* When no statement fails and no process dies: the counters.              *)

(* What the rows of the run and the logger's batch hold of these results.  *)
Told(results) ==
    Cardinality({k \in Mine : attempts[k].res \in results}) + InBatch(results)

StatsTold ==
    /\ stats = [processed |-> Told(Results), valid |-> Told(Results \ {"skipped"}),
                hits |-> Told({"funded"}), errors |-> Told({"error"})]
    /\ log = "done" => batch = <<>>

LEMMA ToldIsStats == StatsMatchRows <=> (Streaming => StatsTold)
BY DEF StatsMatchRows, StatsTold, StatsOf, Told

LEMMA ToldFrame ==
    ASSUME Streaming => StatsTold, Streaming' => Streaming, stats' = stats,
           \A results : Told(results)' = Told(results),
           log' = "done" => batch' = <<>>
    PROVE  Streaming' => StatsTold'
BY DEF StatsTold

LEMMA ToldKeeps ==
    ASSUME UNCHANGED <<attempts, sid, start, batch>>,
           log' = log \/ (log # "checkpoint" /\ log' # "checkpoint")
    PROVE  \A results : Told(results)' = Told(results)
BY DEF Told, Mine, RowsOf, InBatch

(* V has S up to n, and a copy of T above.                                 *)
Stacked(V, S, n, T) ==
    /\ n \in Nat /\ S \subseteq 1 .. n
    /\ IsFiniteSet(T) /\ T \subseteq Nat \ {0}
    /\ V = S \cup {n + j : j \in T}

LEMMA SizeShifted ==
    ASSUME NEW V, NEW S, NEW n, NEW T, Stacked(V, S, n, T)
    PROVE  Cardinality(V) = Cardinality(S) + Cardinality(T)
<1> USE DEF Stacked
<1> DEFINE U == {n + j : j \in T}
           f == [j \in T |-> n + j]
<1>1. IsFiniteSet(S) /\ Cardinality(S) \in Nat /\ IsFiniteSet(T) /\ Cardinality(T) \in Nat
  <2>1. IsFiniteSet(S) /\ Cardinality(S) \in Nat
    BY SizeOnTop
  <2> QED
    BY <2>1, FS_CardinalityType
<1>2. f \in Bijection(T, U)
  <2>1. \A j \in T : j \in Nat
    OBVIOUS
  <2>2. f \in [T -> U] /\ \A u \in U : \E j \in T : f[j] = u
    OBVIOUS
  <2>3. \A i, j \in T : f[i] = f[j] => i = j
    BY <2>1
  <2> HIDE DEF f
  <2>4. f \in Injection(T, U)
    BY <2>2, <2>3, Zenon DEF Injection, IsInjective
  <2>5. f \in Surjection(T, U)
    BY <2>2, Zenon DEF Surjection
  <2> QED
    BY <2>4, <2>5 DEF Bijection
<1>3. ExistsBijection(T, U)
  BY <1>2 DEF ExistsBijection
<1>4. S \cap U = {}
  OBVIOUS
<1>5. V = S \cup U
  OBVIOUS
<1> HIDE DEF f, U, Stacked
<1>6. IsFiniteSet(U) /\ Cardinality(U) = Cardinality(T)
  BY <1>1, <1>3, FS_Bijection
<1>7. Cardinality(S \cap U) = 0
  BY <1>4, FS_EmptySet
<1>8. Cardinality(S \cup U) = Cardinality(S) + Cardinality(U) - Cardinality(S \cap U)
  BY <1>1, <1>6, FS_Union
<1> QED
  BY <1>1, <1>5, <1>6, <1>7, <1>8

(* The rows of a flush are counted where the batch was.                    *)
LEMMA ToldInsert ==
    ASSUME PipelineInv, FlushInsert, NEW results PROVE Told(results)' = Told(results)
<1>1. /\ log = "insert" /\ log' = "checkpoint" /\ UNCHANGED <<sid, batch, start>>
  BY DEF FlushInsert, control
<1>2. PICK n \in Nat : n = Len(attempts)
  BY FlushRows
<1>3. PICK m \in Nat \ {0} : m = Len(batch)
  BY FlushRows
<1>4. PICK last \in Int : last = sessions[sid].last /\ last >= start - 1
  <2>1. Streaming /\ sessions[sid].last \in Int
    BY <1>1, LogFacts DEF Row
  <2> QED
    BY <2>1 DEF PipelineInv, SessionHeld
<1>5. /\ DOMAIN attempts = 1 .. n /\ DOMAIN attempts' = 1 .. n + m /\ DOMAIN batch = 1 .. m
      /\ \A k \in 1 .. n : attempts'[k] = attempts[k]
      /\ \A j \in 1 .. m : /\ attempts'[n + j].session = sid
                           /\ attempts'[n + j].candidate = last + j
                           /\ attempts'[n + j].res = batch[j].res
  BY <1>2, <1>3, <1>4, FlushRows
<1> DEFINE S == {k \in Mine : attempts[k].res \in results}
           T == {k \in DOMAIN batch : batch[k].res \in results}
<1>6. S \subseteq 1 .. n /\ T \subseteq 1 .. m
  BY <1>5 DEF Mine, RowsOf
<1>7. {k \in Mine : attempts[k].res \in results}' = S \cup {n + j : j \in T}
  <2> DEFINE P(k) == /\ attempts'[k].session = sid /\ attempts'[k].candidate >= start
                     /\ attempts'[k].res \in results
  <2>1. {k \in Mine : attempts[k].res \in results}' = {k \in 1 .. n + m : P(k)}
    BY <1>1, <1>5 DEF Mine, RowsOf
  <2>2. S = {k \in 1 .. n : P(k)}
    BY <1>5 DEF Mine, RowsOf
  <2>3. ASSUME NEW j \in 1 .. m PROVE P(n + j) <=> j \in T
    <3>1. start \in Int /\ last + j >= start
      BY <1>4 DEF PipelineInv, TypeOK, ControlOK
    <3> QED
      BY <1>5, <3>1
  <2>4. \A k \in n + 1 .. n + m : k - n \in 1 .. m /\ n + (k - n) = k
    OBVIOUS
  <2>5. ASSUME NEW k \in n + 1 .. n + m PROVE P(k) <=> \E j \in T : k = n + j
    <3>1. P(k) <=> k - n \in T
      <4>1. P(n + (k - n)) <=> k - n \in T
        <5> HIDE DEF P, T
        <5> QED
          BY <2>3, <2>4
      <4> HIDE DEF P, T
      <4> QED
        BY <2>4, <4>1
    <3>2. \A j \in T : j \in 1 .. m
      BY <1>6
    <3> HIDE DEF P, T
    <3> QED
      BY <2>4, <3>1, <3>2
  <2>6. \A j \in T : n + j \in n + 1 .. n + m
    <3>1. \A j \in 1 .. m : n + j \in n + 1 .. n + m
      OBVIOUS
    <3> QED
      BY <1>6, <3>1
  <2> HIDE DEF P, T, S
  <2>7. {k \in 1 .. n + m : P(k)} = {k \in 1 .. n : P(k)} \cup {n + j : j \in T}
    <3>1. \A k : k \in 1 .. n + m <=> k \in 1 .. n \/ k \in n + 1 .. n + m
      OBVIOUS
    <3> QED
      BY <2>5, <2>6, <3>1
  <2> QED
    BY <2>1, <2>2, <2>7
<1>8. Cardinality(S \cup {n + j : j \in T}) = Cardinality(S) + Cardinality(T)
  <2> HIDE DEF S, T
  <2>1. m \in Nat /\ T \subseteq Nat \ {0}
    BY <1>3, <1>6
  <2>2. IsFiniteSet(T)
    BY <1>6, <2>1, SizeOnTop
  <2> DEFINE V == S \cup {n + j : j \in T}
  <2>3. Stacked(V, S, n, T)
    BY <1>2, <1>6, <2>1, <2>2 DEF Stacked
  <2> HIDE DEF V
  <2>4. Cardinality(V) = Cardinality(S) + Cardinality(T)
    BY <2>3, SizeShifted
  <2> QED
    BY <2>4 DEF V
<1>9. Cardinality(S) \in Nat /\ Cardinality(T) \in Nat
  <2> HIDE DEF S, T
  <2> QED
    BY <1>6, SizeOnTop
<1>10. InBatch(results) = Cardinality(T) /\ InBatch(results)' = 0
  BY <1>1 DEF InBatch
<1>11. Told(results) = Cardinality(S) + InBatch(results)
  BY DEF Told
<1>12. Told(results)' = Cardinality(S \cup {n + j : j \in T}) + InBatch(results)'
  BY <1>7 DEF Told
<1> QED
  BY <1>8, <1>9, <1>10, <1>11, <1>12

(* An item the logger takes is counted in its batch.                       *)
LEMMA ToldReceives ==
    ASSUME PipelineInv, NEW loop \in {"select", "drain"}, LogRecv(loop), NEW results
    PROVE  /\ Told(results) \in Nat
           /\ Told(results)' =
                IF Head(checked).res \in results THEN Told(results) + 1 ELSE Told(results)
<1>1. /\ log # "checkpoint" /\ log' # "checkpoint"
      /\ batch' = Append(batch, Head(checked)) /\ UNCHANGED <<attempts, sid, start>>
  <2>1. log \in {"select", "drain"} /\ log' \in {"insert", "select", "drain"}
    BY DEF LogRecv
  <2> QED
    BY <2>1 DEF LogRecv, control, storage
<1> DEFINE S == {k \in Mine : attempts[k].res \in results}
           T == {k \in DOMAIN batch : batch[k].res \in results}
           U == {k \in DOMAIN batch' : batch'[k].res \in results}
<1>2. attempts \in Seq(Attempt(Idx)) /\ batch \in Seq(Item)
  BY DEF PipelineInv, TypeOK, StorageOK, LoggingOK
<1>3. PICK n \in Nat : n = Len(attempts) /\ DOMAIN attempts = 1 .. n
  BY <1>2
<1>4. PICK m \in Nat : m = Len(batch) /\ DOMAIN batch = 1 .. m
  BY <1>2
<1>5. /\ DOMAIN batch' = 1 .. m + 1 /\ batch'[m + 1] = Head(checked)
      /\ \A k \in 1 .. m : batch'[k] = batch[k]
  BY <1>1, <1>2, <1>4
<1>6. S \subseteq 1 .. n /\ T \subseteq 1 .. m
  BY <1>3, <1>4 DEF Mine, RowsOf
<1>7. /\ IsFiniteSet(S) /\ Cardinality(S) \in Nat
      /\ IsFiniteSet(T) /\ Cardinality(T) \in Nat /\ m + 1 \notin T
  <2>1. m + 1 \notin 1 .. m
    OBVIOUS
  <2> HIDE DEF S, T
  <2> QED
    BY <1>6, <2>1, SizeOnTop
<1>8. U = IF Head(checked).res \in results THEN T \cup {m + 1} ELSE T
  <2>1. \A k : k \in 1 .. m + 1 <=> k \in 1 .. m \/ k = m + 1
    OBVIOUS
  <2>2. CASE Head(checked).res \in results
    BY <1>4, <1>5, <2>1, <2>2
  <2>3. CASE Head(checked).res \notin results
    BY <1>4, <1>5, <2>1, <2>3
  <2> QED
    BY <2>2, <2>3
<1>9. Told(results) = Cardinality(S) + Cardinality(T)
  BY <1>1 DEF Told, InBatch
<1>10. Told(results)' = Cardinality(S) + Cardinality(U)
  BY <1>1 DEF Told, InBatch, Mine, RowsOf
<1> HIDE DEF S, T, U
<1>11. Cardinality(T \cup {m + 1}) = Cardinality(T) + 1
  BY <1>7, FS_AddElement
<1>12. CASE Head(checked).res \in results
  BY <1>7, <1>8, <1>9, <1>10, <1>11, <1>12
<1>13. CASE Head(checked).res \notin results
  BY <1>7, <1>8, <1>9, <1>10, <1>13
<1> QED
  BY <1>12, <1>13
LEMMA StatsReceive ==
    ASSUME PipelineInv, Streaming => StatsTold, NEW loop \in {"select", "drain"},
           LogRecv(loop)
    PROVE  StatsTold'
<1>1. PICK res : res = Head(checked).res
  OBVIOUS
<1>2. /\ log # "done" /\ log' # "done" /\ checked # <<>> /\ stats' = Counted(res)
  <2>1. log \in {"select", "drain"} /\ log' \in {"insert", "select", "drain"}
    BY DEF LogRecv
  <2> QED
    BY <1>1, <2>1 DEF LogRecv
<1>3. StatsTold
  BY <1>2, LogFacts
<1>4. res \in Results
  <2>1. checked \in Seq(Item) /\ 1 \in DOMAIN checked /\ Head(checked) = checked[1]
    BY <1>2 DEF PipelineInv, TypeOK, CheckingOK
  <2>2. checked[1] \in Item /\ res \in Outcomes[checked[1].idx]
    BY <1>1, <2>1 DEF PipelineInv, ResultsSound
  <2> QED
    BY <2>2 DEF Outcomes, Answer, Item, Results
<1>5. \A results : /\ Told(results) \in Nat
                   /\ Told(results)' = IF res \in results THEN Told(results) + 1
                                       ELSE Told(results)
  BY <1>1, ToldReceives
<1> DEFINE valid == Results \ {"skipped"}
<1>6. /\ stats.processed = Told(Results) /\ stats.valid = Told(valid)
      /\ stats.hits = Told({"funded"}) /\ stats.errors = Told({"error"})
  BY <1>3 DEF StatsTold
<1>7. /\ Told(Results)' = stats.processed + 1
      /\ Told(valid)' = stats.valid + One(res # "skipped")
      /\ Told({"funded"})' = stats.hits + One(res = "funded")
      /\ Told({"error"})' = stats.errors + One(res = "error")
  <2>1. Told(Results)' = stats.processed + 1
    BY <1>4, <1>5, <1>6
  <2>2. Told(valid)' = stats.valid + One(res # "skipped")
    <3>1. res \in valid <=> res # "skipped"
      BY <1>4
    <3> HIDE DEF valid
    <3>2. Told(valid) \in Nat /\ Told(valid)' = IF res # "skipped" THEN Told(valid) + 1
                                                ELSE Told(valid)
      BY <1>5, <3>1
    <3> QED
      BY <1>6, <3>2 DEF One
  <2>3. Told({"funded"})' = stats.hits + One(res = "funded")
    <3>1. Told({"funded"}) \in Nat
          /\ Told({"funded"})' = IF res = "funded" THEN Told({"funded"}) + 1
                                 ELSE Told({"funded"})
      BY <1>5
    <3> QED
      BY <1>6, <3>1 DEF One
  <2>4. Told({"error"})' = stats.errors + One(res = "error")
    <3>1. Told({"error"}) \in Nat
          /\ Told({"error"})' = IF res = "error" THEN Told({"error"}) + 1
                                ELSE Told({"error"})
      BY <1>5
    <3> QED
      BY <1>6, <3>1 DEF One
  <2> QED
    BY <2>1, <2>2, <2>3, <2>4
<1> QED
  BY <1>2, <1>7 DEF StatsTold, Counted

(* A run begins with counters at zero, and has no rows: those of its       *)
(* session lie before its first index.                                     *)
LEMMA StatsBegin ==
    ASSUME PipelineInv, LogIsPrefix, NEW meta \in Metas, Begin(meta), Streaming'
    PROVE  StatsTold'
<1>1. /\ pc = "begin" /\ ~Streaming /\ NothingInFlight /\ start' = start
      /\ start \in 0 .. WordlistSize
  BY DEF Begin, Streaming, PipelineInv, TypeOK, ControlOK
<1>2. ~ (start >= WordlistSize)
  BY <1>1, SizeAssumption DEF Streaming, Begin
<1>3. log' = "select" /\ batch' = <<>> /\ stats' = NoStats
  <2>1. log' = "select" /\ UNCHANGED <<batch, stats>>
    BY <1>2, Zenon DEF Begin
  <2> QED
    BY <1>1, <2>1 DEF NothingInFlight
<1>4. LogIsPrefix' /\ sid' \in DOMAIN sessions' /\ sessions'[sid'].last = start - 1
  BY PrefixBegin, BeginStore
<1>5. PICK n \in Nat : DOMAIN attempts' = 1 .. n
  <2>1. attempts' \in Seq(Attempt(Idx))
    BY BeginStore DEF StorageOK
  <2> QED
    BY <2>1
<1>6. Cardinality(RowsOf(sid)') = start
  <2>1. Unmarked(sid)' = 0
    BY <1>3 DEF Unmarked
  <2>2. Cardinality(RowsOf(sid)') = sessions'[sid'].last + 1 + Unmarked(sid)'
    BY <1>4 DEF LogIsPrefix
  <2> QED
    BY <1>1, <1>4, <2>1, <2>2
<1>7. ASSUME NEW k \in RowsOf(sid)' PROVE ~ (attempts'[k].candidate >= start)
  <2>1. RowsOf(sid)' \subseteq 1 .. n
    BY <1>5 DEF RowsOf
  <2>2. Cardinality({j \in RowsOf(sid)' : j < k}) < Cardinality(RowsOf(sid)')
    BY <2>1, SizeOfPart
  <2>3. Before(k)' = {j \in RowsOf(sid)' : j < k}
    BY DEF Before, RowsOf
  <2>4. attempts'[k].candidate = Cardinality(Before(k)')
    BY <1>4 DEF LogIsPrefix, RowsOf
  <2>5. attempts'[k].candidate < start
    BY <1>6, <2>2, <2>3, <2>4
  <2>6. attempts'[k].candidate \in Nat
    <3>1. attempts' \in Seq(Attempt(Idx))
      BY BeginStore DEF StorageOK
    <3>2. k \in DOMAIN attempts'
      BY DEF RowsOf
    <3>3. attempts'[k] \in Attempt(Idx)
      BY <3>1, <3>2
    <3> QED
      BY <3>3, SizeAssumption DEF Attempt, Idx
  <2> QED
    BY <1>1, <2>5, <2>6
<1>8. Mine' = {}
  BY <1>1, <1>7 DEF Mine
<1>9. ASSUME NEW results PROVE Told(results)' = 0
  <2>1. {k \in Mine : attempts[k].res \in results}' = {}
    BY <1>8
  <2>2. {k \in DOMAIN batch : batch[k].res \in results}' = {}
    BY <1>3
  <2>3. InBatch(results)' = 0
    BY <1>3, <2>2, FS_EmptySet DEF InBatch
  <2>4. Cardinality({k \in Mine : attempts[k].res \in results}') = 0
    BY <2>1, FS_EmptySet
  <2>5. Told(results)' =
          Cardinality({k \in Mine : attempts[k].res \in results}') + InBatch(results)'
    BY Zenon DEF Told
  <2> QED
    BY <2>3, <2>4, <2>5
<1> QED
  BY <1>3, <1>9 DEF StatsTold, NoStats
(* Steps of the others, and the logger's.                                  *)
LEMMA StatsSame ==
    ASSUME Streaming => StatsTold, Streaming' => Streaming,
           UNCHANGED <<attempts, sid, start, batch, log, stats>>
    PROVE  Streaming' => StatsTold'
<1>1. Streaming' => StatsTold
  OBVIOUS
<1>2. \A results : Told(results)' = Told(results)
  BY ToldKeeps
<1> QED
  BY <1>1, <1>2, ToldFrame DEF StatsTold

LEMMA StatsLog ==
    ASSUME Graceful, PipelineInv, Streaming => StatsTold, Log
    PROVE  Streaming' => StatsTold'
<1> USE DEF storage
<1>1. ASSUME NEW loop \in {"select", "drain"}, LogRecv(loop)
      PROVE  StatsTold'
  BY <1>1, StatsReceive
<1>2. CASE FlushInsert
  <2>1. \A results : Told(results)' = Told(results)
    BY <1>2, ToldInsert
  <2>2. (Streaming' => Streaming) /\ stats' = stats /\ log' # "done"
    BY <1>2 DEF FlushInsert, control, Streaming
  <2> QED
    BY <2>1, <2>2, ToldFrame
<1>3. CASE FlushCheckpoint
  <2>1. /\ log = "checkpoint" /\ log' # "checkpoint" /\ batch' = <<>>
        /\ UNCHANGED <<sid, start, stats, attempts>>
        /\ Streaming' => Streaming
    <3>1. after \in {"select", "drain", "return"}
      BY DEF PipelineInv, TypeOK, LoggingOK
    <3> QED
      BY <1>3, <3>1 DEF FlushCheckpoint, Checkpoint, control, Streaming
  <2>2. ASSUME NEW results PROVE Told(results)' = Told(results)
    <3>1. InBatch(results) = 0
      BY <2>1 DEF InBatch
    <3>2. {k \in DOMAIN batch : batch[k].res \in results}' = {}
      BY <2>1
    <3>3. InBatch(results)' = 0
      BY <2>1, <3>2, FS_EmptySet DEF InBatch
    <3>4. {k \in Mine : attempts[k].res \in results}'
            = {k \in Mine : attempts[k].res \in results}
      BY <2>1 DEF Mine, RowsOf
    <3> QED
      BY <3>1, <3>3, <3>4 DEF Told
  <2> QED
    BY <2>1, <2>2, ToldFrame
<1>4. CASE LogClosed \/ LogCancel \/ DrainDone
  <2>1. /\ log # "checkpoint" /\ log' # "checkpoint"
        /\ log' = "done" => batch' = <<>>
        /\ UNCHANGED <<attempts, sid, start, batch, stats>>
        /\ Streaming' => Streaming
    BY <1>4 DEF LogClosed, LogCancel, DrainDone, LogReturn, LastFlush, control, Streaming
  <2>2. \A results : Told(results)' = Told(results)
    BY <2>1, ToldKeeps
  <2> QED
    BY <2>1, <2>2, ToldFrame
<1>5. ~FlushError
  BY DEF Graceful, FlushError
<1> QED
  BY <1>1, <1>2, <1>3, <1>4, <1>5 DEF Log

LEMMA StatsStep ==
    ASSUME Graceful, PipelineInv, LogIsPrefix, Streaming => StatsTold, [Next]_vars
    PROVE  Streaming' => StatsTold'
<1> USE DEF storage
<1>1. CASE UNCHANGED vars
  <2>1. /\ UNCHANGED <<attempts, sid, start, batch, log, stats>>
        /\ Streaming' => Streaming
    BY <1>1 DEF vars, control, logging, Streaming
  <2> QED
    BY <2>1, StatsSame
<1>2. ASSUME NEW s, NEW fresh, Start(s, fresh) PROVE ~Streaming'
  BY <1>2 DEF Start, Streaming
<1>3. CASE LookupResume \/ ClearPaused \/ StartupError
  <2>1. pc \in {"fresh", "resume", "begin", "endnow"}
    BY <1>3 DEF LookupResume, ClearPaused, StartupError
  <2>2. sid = 0 \/ start = WordlistSize
    BY <2>1 DEF PipelineInv, SessionHeld
  <2>3. CASE LookupResume \/ ClearPaused
    BY <2>3 DEF LookupResume, ClearPaused, Streaming
  <2>4. CASE StartupError
    BY <2>2, <2>4, SizeAssumption DEF StartupError, Streaming
  <2> QED
    BY <1>3, <2>3, <2>4
<1>4. CASE RunError \/ Finish \/ EndRunError
  BY <1>4, StatsSame DEF RunError, Finish, EndRunError, LogReturned, logging, Streaming
<1>5. ASSUME NEW meta \in Metas, Begin(meta) PROVE Streaming' => StatsTold'
  BY <1>5, StatsBegin
<1>6. CASE EndNow
  <2>1. start = WordlistSize /\ start' = start
    BY <1>6 DEF EndNow, PipelineInv, SessionHeld
  <2> QED
    BY <2>1, SizeAssumption DEF Streaming
<1>7. CASE EndRun
  BY <1>7, StatsSame DEF EndRun, EndSession, logging, Streaming
<1>8. CASE Generate
  BY <1>8, StatsSame DEF Generate, GenerateFails, GenerateSend, GenerateCancelled,
     GenerateDone, control, logging, Streaming
<1>9. ASSUME NEW w, Derive(w) PROVE Streaming' => StatsTold'
  BY <1>9, StatsSame DEF Derive, DeriveRecv, DeriveClosed, DeriveSend,
     DeriveCancelled, control, logging, Streaming
<1>10. CASE Reorder
  BY <1>10, StatsSame DEF Reorder, ReorderRecv, ReorderEmit, ReorderCancelled,
     ReorderClosed, control, logging, Streaming
<1>11. CASE Check
  BY <1>11, StatsSame DEF Check, CheckRecv, CheckLookup, CheckSend, CheckClosed,
     control, logging, Streaming
<1>12. CASE Log
  BY <1>12, StatsLog
<1>13. CASE Cancel
  BY <1>13, StatsSame DEF Cancel, control, logging, Streaming
<1>14. CASE Exit
  BY <1>14 DEF Exit, BecomeQuiet, Streaming
<1>15. ~Crash
  BY DEF Graceful, Crash
<1>16. CASE Rest
  BY <1>16, <1>1 DEF Rest
<1> QED
  BY <1>1, <1>2, <1>3, <1>4, <1>5, <1>6, <1>7, <1>8, <1>9, <1>10, <1>11, <1>12, <1>13,
     <1>14, <1>15, <1>16 DEF Next, Main

(* In a history without failures of the database and without crashes the   *)
(* counters a run shows are at every moment those of its rows and of the   *)
(* logger's batch, and the two agree when the logger is done.              *)
THEOREM SweepStatsMatchRows ==
    ASSUME Graceful PROVE Spec => []StatsMatchRows
<1>1. Init => (Streaming => StatsTold)
  BY DEF Init, Quiet, Streaming
<1>2. PipelineInv /\ LogIsPrefix /\ (Streaming => StatsTold) /\ [Next]_vars
        => (Streaming => StatsTold)'
  BY StatsStep
<1>3. StatsMatchRows <=> (Streaming => StatsTold)
  BY ToldIsStats
<1> QED
  BY <1>1, <1>2, <1>3, SweepKeepsPipeline, SweepLogIsPrefix, PTL DEF Spec
=============================================================================
