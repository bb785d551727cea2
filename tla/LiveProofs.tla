----------------------------- MODULE LiveProofs -----------------------------
(***************************************************************************)
(* Proofs about LiveRun, for any number of addresses, any interval of the  *)
(* limiter, any wordlist, batch size and runs to look at.                  *)
(***************************************************************************)
EXTENDS LiveProperties, FiniteSetTheorems, SequenceTheorems, TLAPS

-----------------------------------------------------------------------------
(* Arithmetic of the limiter: one interval more is one token more, and     *)
(* more time never makes fewer of them.                                    *)

LEMMA DivStep ==
    ASSUME NEW n \in Nat \ {0}, NEW t \in Int
    PROVE  (n + t) \div n = 1 + (t \div n)
OBVIOUS

LEMMA DivMonotone ==
    ASSUME NEW n \in Nat \ {0}, NEW t \in Int, NEW u \in Int, t <= u
    PROVE  t \div n \in Int /\ u \div n \in Int /\ (t \div n) <= (u \div n)
OBVIOUS

LEMMA TimesMonotone ==
    ASSUME NEW n \in Nat, NEW t \in Int, NEW u \in Int, t <= u
    PROVE  n * t \in Int /\ n * u \in Int /\ n * t <= n * u
OBVIOUS

(* Counting the funded addresses one by one.                               *)
LEMMA CountOne ==
    ASSUME NEW c \in Candidates, NEW k \in Nat
    PROVE  /\ Cardinality(Holding[c] \cap 1 .. k) \in Nat
           /\ Cardinality(Holding[c] \cap 1 .. k + 1) =
                Cardinality(Holding[c] \cap 1 .. k) + Balance(c, k + 1)
<1> DEFINE S == Holding[c] \cap 1 .. k
<1>0. IsFiniteSet(1 .. k) /\ S \in SUBSET (1 .. k)
  BY FS_Interval
<1>1. IsFiniteSet(S)
  BY <1>0, FS_Subset
<1>2. Cardinality(S) \in Nat
  BY <1>1, FS_CardinalityType
<1>3. CASE k + 1 \in Holding[c]
  <2>1. Holding[c] \cap 1 .. k + 1 = S \cup {k + 1} /\ k + 1 \notin S
    BY <1>3
  <2> QED
    BY <1>1, <1>2, <1>3, <2>1, FS_AddElement DEF Balance
<1>4. CASE k + 1 \notin Holding[c]
  <2>1. Holding[c] \cap 1 .. k + 1 = S
    BY <1>4
  <2> QED
    BY <1>2, <1>4, <2>1 DEF Balance
<1> QED
  BY <1>2, <1>3, <1>4

LEMMA CountNone ==
    ASSUME NEW c \in Candidates
    PROVE  Cardinality(Holding[c] \cap 1 .. 0) = 0
<1>1. Holding[c] \cap 1 .. 0 = {}
  OBVIOUS
<1> QED
  BY <1>1, FS_EmptySet

LEMMA CountAll ==
    ASSUME NEW c \in Candidates
    PROVE  /\ Cardinality(Holding[c] \cap 1 .. NAddresses) = Cardinality(Holding[c])
           /\ Cardinality(Holding[c]) = 0 <=> Holding[c] = {}
<1>1. Holding[c] \subseteq 1 .. NAddresses /\ NAddresses \in Int
  BY CheckerAssumption
<1>2. Holding[c] \cap 1 .. NAddresses = Holding[c]
  BY <1>1
<1>3. IsFiniteSet(1 .. NAddresses) /\ Holding[c] \in SUBSET (1 .. NAddresses)
  BY <1>1, FS_Interval
<1>4. IsFiniteSet(Holding[c])
  BY <1>3, FS_Subset
<1> QED
  BY <1>2, <1>4, FS_EmptySet

LEMMA NoCallFacts ==
    /\ NoCall \in Call /\ NoCall.pc = "none" /\ NoCall.fetched = 0
    /\ NoCall.total = 0 /\ ~NoCall.failed /\ NoCall.of \in Candidates
<1>1. 0 \in Candidates
  BY LiveAssumption
<1>2. (CHOOSE c \in Candidates : TRUE) \in Candidates
  BY <1>1
<1>3. 0 \in 0 .. NAddresses
  BY CheckerAssumption
<1> QED
  BY <1>2, <1>3 DEF NoCall, Call, CallPcs

-----------------------------------------------------------------------------
(* The invariant, split by the variables it is about: the checker, the     *)
(* candidates on their way to the counters, and the screen.                *)

CheckerOK ==
    /\ credit \in 0 .. Interval /\ cancelled \in BOOLEAN
    /\ call.total <= call.fetched
    /\ Pace /\ Fetching

CountersOK ==
    /\ mode \in {"sweep", "walk"} /\ start \in Candidates
    /\ pc \in Pcs /\ next \in start .. Total
    /\ Len(checked) <= BatchSize /\ batch \in 0 .. BatchSize
    /\ OneByOne /\ Counted

Places ==
    /\ Between("resumedAt", 1) /\ Between("cursor", 2) /\ Between("session", 3)
    /\ Between("processed", 4) /\ Between("valid", 5) /\ Between("hits", 6)
    /\ Between("errors", 7)

FrameOK ==
    /\ dash.loads > 0 => dash.pc = "paint" /\ dash.since <= LoadedProcessed
    /\ shown.resumedAt \in {-1, start - 1} /\ frame.resumedAt \in {-1, start - 1}
    /\ frame.resumedAt >= 0 => stats.session = 1
    /\ dash.loads >= 3 /\ frame.resumedAt >= 0 => frame.session = 1
    /\ frame.cursor <= start \/ frame.cursor < start + LoadedProcessed

ScreenOK ==
    /\ stats \in Numbers /\ frame \in Numbers /\ shown \in Numbers
    /\ IsStats(stats) /\ IsStats(frame) /\ IsStats(shown)
    /\ dash \in [pc: DashPcs, loads: Nat, since: Nat] /\ dash.loads <= 7
    /\ Places /\ FrameOK /\ FrameFits

Parts == CheckerOK /\ CountersOK /\ Stored /\ ScreenOK

LEMMA Split == IndInv <=> Parts
<1>1. Len(Loads) = 7 /\ DOMAIN Loads = 1 .. 7
  BY DEF Loads
<1>2. /\ Loads[1] = "resumedAt" /\ Loads[2] = "cursor" /\ Loads[3] = "session"
      /\ Loads[4] = "processed" /\ Loads[5] = "valid" /\ Loads[6] = "hits"
      /\ Loads[7] = "errors"
  BY DEF Loads
<1> HIDE DEF Loads
<1>3. (\A place \in DOMAIN Loads : Between(Loads[place], place)) <=> Places
  <2>1. DOMAIN Loads = {1, 2, 3, 4, 5, 6, 7}
    BY <1>1
  <2>2. (\A place \in DOMAIN Loads : Between(Loads[place], place)) <=>
          /\ Between(Loads[1], 1) /\ Between(Loads[2], 2) /\ Between(Loads[3], 3)
          /\ Between(Loads[4], 4) /\ Between(Loads[5], 5) /\ Between(Loads[6], 6)
          /\ Between(Loads[7], 7)
    BY <2>1, Zenon
  <2> QED
    BY <1>2, <2>2, Zenon DEF Places
<1>4. Painted <=>
        /\ stats \in Numbers /\ frame \in Numbers /\ shown \in Numbers
        /\ Places /\ FrameOK
  BY <1>3, Zenon DEF Painted, FrameOK
<1>5. IndInv => Parts
  BY <1>1, <1>4 DEF IndInv, TypeOK, Parts, CheckerOK, CountersOK, ScreenOK
<1>6. ASSUME Parts PROVE TypeOK
  <2>1. /\ call.pc \in CallPcs /\ call.of \in Candidates /\ call.failed \in BOOLEAN
        /\ call.total \in 0 .. call.fetched /\ call.fetched \in 0 .. NAddresses
    BY <1>6 DEF Parts, CheckerOK, Fetching, Call
  <2>2. dash.pc \in DashPcs /\ dash.loads \in 0 .. Len(Loads)
    BY <1>1, <1>6 DEF Parts, ScreenOK
  <2> QED
    BY <1>6, <2>1, <2>2 DEF Parts, CheckerOK, CountersOK, ScreenOK, TypeOK
<1>7. Parts => IndInv
  BY <1>4, <1>6 DEF IndInv, Parts, CheckerOK, CountersOK, ScreenOK
<1> QED
  BY <1>5, <1>7

-----------------------------------------------------------------------------
(* The checker: one lemma for each way the call goes on.                   *)

(* A step that leaves the bucket and what upstream saw alone keeps the     *)
(* budget as long as it asks for no more.                                  *)
LEMMA SamePace ==
    ASSUME CheckerOK, UNCHANGED <<credit, watch>>, Remaining' <= Remaining,
           Remaining \in Int, Remaining' \in Int
    PROVE  Pace'
<1>1. Budget' = Budget
  BY DEF Budget
<1>2. Budget \in Int
  <2>1. (Interval + watch.time - credit) \div Interval \in Int
    BY CheckerAssumption, DivMonotone DEF CheckerOK, Pace
  <2> QED
    BY <2>1, CheckerAssumption DEF Budget
<1> QED
  BY <1>1, <1>2 DEF CheckerOK, Pace

LEMMA RemainingFacts ==
    ASSUME CheckerOK PROVE Remaining \in 0 .. NAddresses
BY CheckerAssumption DEF CheckerOK, Fetching, Call, CallPcs, Remaining

LEMMA CallUnchanged ==
    ASSUME CheckerOK, UNCHANGED <<credit, call, watch>>, cancelled' \in BOOLEAN
    PROVE  CheckerOK'
BY DEF CheckerOK, Pace, Fetching, Remaining, Budget, Call

LEMMA CallBegins ==
    ASSUME CheckerOK, NEW c \in Candidates, CheckAddresses(c)
    PROVE  CheckerOK' /\ call'.pc # "none" /\ call.pc = "none"
<1>1. /\ call' = [NoCall EXCEPT !.of = c, !.failed = cancelled,
                                 !.pc = IF cancelled THEN "returned" ELSE "wait"]
      /\ UNCHANGED <<credit, cancelled, watch>> /\ call.pc = "none"
  BY DEF CheckAddresses
<1>2. /\ call' \in Call /\ call'.pc = (IF cancelled THEN "returned" ELSE "wait")
      /\ call'.failed = cancelled /\ call'.of = c
      /\ call'.fetched = 0 /\ call'.total = 0
  BY <1>1, NoCallFacts DEF Call, CallPcs, CheckerOK
<1>3. Remaining = 0 /\ Remaining' = 0
  BY <1>1, <1>2 DEF Remaining
<1>4. Pace'
  BY <1>1, <1>3, SamePace
<1>5. Fetching'
  BY <1>2, CountNone DEF Fetching
<1> QED
  BY <1>1, <1>2, <1>4, <1>5 DEF CheckerOK

LEMMA CallTaken ==
    ASSUME CheckerOK, call.pc = "returned", call' = NoCall,
           UNCHANGED <<credit, cancelled, watch>>
    PROVE  CheckerOK'
<1>1. Remaining = 0 /\ Remaining' = 0
  BY NoCallFacts DEF Remaining
<1>2. Pace'
  BY <1>1, SamePace
<1>3. Fetching'
  BY NoCallFacts, CountNone DEF Fetching
<1> QED
  BY <1>2, <1>3, NoCallFacts DEF CheckerOK

LEMMA TokenTaken ==
    ASSUME CheckerOK, TakeToken
    PROVE  CheckerOK' /\ call'.pc # "none"
<1>1. /\ call.pc = "wait" /\ credit = Interval /\ credit' = 0
      /\ call' = [call EXCEPT !.pc = "fetch"] /\ UNCHANGED <<cancelled, watch>>
  BY DEF TakeToken, AfterToken
<1>2. call \in Call /\ call.fetched = 0 /\ ~call.failed
  BY <1>1 DEF CheckerOK, Fetching
<1>3. /\ call' \in Call /\ call'.pc = "fetch" /\ call'.fetched = 0
      /\ call'.total = call.total /\ call'.of = call.of /\ ~call'.failed
  BY <1>1, <1>2 DEF Call, CallPcs
<1>4. Remaining = 0 /\ Remaining' = NAddresses
  BY <1>1, <1>3, CheckerAssumption DEF Remaining
<1>5. PICK t \in Nat, r \in Nat : t = watch.time /\ r = watch.requests
  BY DEF CheckerOK, Pace
<1>6. Budget = NAddresses * (1 + (t \div Interval))
  <2>1. Interval + t - Interval = t
    BY CheckerAssumption
  <2> QED
    BY <1>1, <1>5, <2>1 DEF Budget
<1>7. Budget' = NAddresses * (1 + (1 + (t \div Interval)))
  <2>0. Interval \in Nat \ {0} /\ t \in Int
    BY CheckerAssumption
  <2>1. (Interval + t) \div Interval = 1 + (t \div Interval)
    BY <2>0, DivStep
  <2>2. Interval + t - 0 = Interval + t
    BY CheckerAssumption
  <2> QED
    BY <1>1, <1>5, <2>1, <2>2 DEF Budget
<1>8. Budget \in Int /\ Budget' = Budget + NAddresses
  <2>1. PICK q \in Int : q = t \div Interval
    BY CheckerAssumption, DivMonotone
  <2> QED
    BY <1>6, <1>7, <2>1, CheckerAssumption
<1>9. Pace'
  <2>1. r + 0 <= Budget
    BY <1>4, <1>5 DEF CheckerOK, Pace
  <2>2. r + NAddresses <= Budget'
    BY <1>8, <2>1, CheckerAssumption
  <2>3. watch'.requests + Remaining' <= Budget'
    BY <1>1, <1>4, <1>5, <2>2
  <2>4. /\ watch \in [on: BOOLEAN, time: Nat, requests: Nat]
        /\ ~watch.on => watch.time = 0 /\ watch.requests = 0
    BY DEF CheckerOK, Pace
  <2>5. /\ watch' \in [on: BOOLEAN, time: Nat, requests: Nat]
        /\ ~watch'.on => watch'.time = 0 /\ watch'.requests = 0
    BY <1>1, <2>4
  <2> QED
    BY <2>3, <2>5 DEF Pace
<1>10. Fetching'
  <2>1. call.total = Cardinality(Holding[call.of] \cap 1 .. 0)
    BY <1>2 DEF CheckerOK, Fetching
  <2>2. call'.total = Cardinality(Holding[call'.of] \cap 1 .. call'.fetched)
    BY <1>3, <2>1
  <2> QED
    BY <1>3, <2>2, CheckerAssumption DEF Fetching
<1> QED
  BY <1>1, <1>3, <1>9, <1>10, CheckerAssumption DEF CheckerOK

(* The next address, whatever this one brought.                            *)
LEMMA AddressDone ==
    ASSUME CheckerOK, call.pc \in {"fetch", "reply"},
           NEW balance \in {0, 1}, NEW failed \in BOOLEAN,
           failed \/ balance = Balance(call.of, call.fetched + 1),
           Fetched(balance, failed), UNCHANGED <<credit, cancelled, watch>>
    PROVE  CheckerOK' /\ call'.pc # "none"
<1>1. call \in Call /\ call.fetched < NAddresses /\ call.total <= call.fetched
  BY DEF CheckerOK, Fetching
<1>2. PICK k \in 0 .. NAddresses, n \in Nat, c \in Candidates :
        k = call.fetched /\ n = call.total /\ c = call.of
  BY <1>1 DEF Call
<1>3. PICK where \in {"returned", "fetch"} :
        /\ where = IF k + 1 = NAddresses THEN "returned" ELSE "fetch"
        /\ call' = [call EXCEPT !.fetched = k + 1, !.total = n + balance,
                                !.failed = call.failed \/ failed, !.pc = where]
  BY <1>2 DEF Fetched, NextAddress
<1>4. k + 1 \in 0 .. NAddresses /\ n + balance \in Nat /\ n + balance <= k + 1
  BY <1>1, <1>2, CheckerAssumption
<1>5. /\ call' \in Call /\ call'.pc = where /\ call'.fetched = k + 1
      /\ call'.total = n + balance /\ call'.of = c
      /\ call'.failed = (call.failed \/ failed)
  BY <1>1, <1>2, <1>3, <1>4 DEF Call, CallPcs
<1>6. Remaining \in Int /\ Remaining' \in Int /\ Remaining' <= Remaining
  BY <1>1, <1>2, <1>3, <1>5, CheckerAssumption DEF Remaining
<1>7. Pace'
  BY <1>6, SamePace
<1>8. ASSUME ~call'.failed
      PROVE  call'.total = Cardinality(Holding[call'.of] \cap 1 .. call'.fetched)
  <2>1. ~call.failed /\ balance = Balance(c, k + 1)
    BY <1>2, <1>5, <1>8
  <2>2. n = Cardinality(Holding[c] \cap 1 .. k)
    BY <1>2, <2>1 DEF CheckerOK, Fetching
  <2>3. Cardinality(Holding[c] \cap 1 .. k + 1) = n + balance
    BY <2>1, <2>2, CountOne
  <2> QED
    BY <1>5, <2>3
<1>9. Fetching'
  <2>1. /\ call'.pc \in {"returned", "fetch"}
        /\ call'.pc = "fetch" => call'.fetched < NAddresses
        /\ call'.pc = "returned" => call'.fetched = NAddresses
    BY <1>1, <1>2, <1>3, <1>5, CheckerAssumption
  <2> QED
    BY <1>5, <1>8, <2>1 DEF Fetching
<1> QED
  BY <1>3, <1>4, <1>5, <1>7, <1>9 DEF CheckerOK

LEMMA RequestSent ==
    ASSUME CheckerOK, SendRequest
    PROVE  CheckerOK' /\ call'.pc # "none"
<1>1. /\ call.pc = "fetch" /\ call' = [call EXCEPT !.pc = "reply"]
      /\ watch' = [watch EXCEPT !.requests = IF watch.on THEN @ + 1 ELSE 0]
      /\ UNCHANGED <<credit, cancelled>>
  BY DEF SendRequest
<1>2. call \in Call /\ call.fetched < NAddresses
  BY <1>1 DEF CheckerOK, Fetching
<1>3. /\ call' \in Call /\ call'.pc = "reply" /\ call'.fetched = call.fetched
      /\ call'.total = call.total /\ call'.of = call.of /\ call'.failed = call.failed
  BY <1>1, <1>2 DEF Call, CallPcs
<1>4. PICK k \in Nat, t \in Nat, r \in Nat, on \in BOOLEAN :
        k = call.fetched /\ t = watch.time /\ r = watch.requests /\ on = watch.on
  BY <1>2 DEF CheckerOK, Pace, Call
<1>5. /\ watch' \in [on: BOOLEAN, time: Nat, requests: Nat]
      /\ watch'.time = t /\ watch'.on = on
      /\ watch'.requests = IF on THEN r + 1 ELSE 0
  BY <1>1, <1>4 DEF CheckerOK, Pace
<1>6. Remaining = NAddresses - k /\ Remaining' = NAddresses - k - 1
  BY <1>1, <1>3, <1>4 DEF Remaining
<1>7. Budget' = Budget /\ Budget \in Int
  <2>1. (Interval + t - credit) \div Interval \in Int
    BY CheckerAssumption, DivMonotone DEF CheckerOK
  <2> QED
    BY <1>1, <1>4, <1>5, <2>1, CheckerAssumption DEF Budget
<1>8. r + (NAddresses - k) <= Budget
  BY <1>4, <1>6 DEF CheckerOK, Pace
<1>9. watch'.requests + Remaining' <= Budget'
  BY <1>4, <1>5, <1>6, <1>7, <1>8, CheckerAssumption
<1>10. Pace'
  <2>1. ~on => t = 0
    BY <1>4 DEF CheckerOK, Pace
  <2> QED
    BY <1>5, <1>9, <2>1 DEF Pace
<1>11. Fetching'
  BY <1>2, <1>3 DEF CheckerOK, Fetching
<1> QED
  BY <1>1, <1>3, <1>10, <1>11 DEF CheckerOK

LEMMA WaitGivenUp ==
    ASSUME CheckerOK, WaitCancelled
    PROVE  CheckerOK' /\ call'.pc # "none"
<1>1. /\ call.pc = "wait" /\ UNCHANGED <<credit, cancelled, watch>>
      /\ call' = [call EXCEPT !.pc = "returned", !.failed = TRUE]
  BY DEF WaitCancelled
<1>2. call \in Call
  BY DEF CheckerOK, Fetching
<1>3. /\ call' \in Call /\ call'.pc = "returned" /\ call'.fetched = call.fetched
      /\ call'.total = call.total /\ call'.failed
  BY <1>1, <1>2 DEF Call, CallPcs
<1>4. Remaining = 0 /\ Remaining' = 0
  BY <1>1, <1>3 DEF Remaining
<1>5. Pace'
  BY <1>1, <1>4, SamePace
<1>6. Fetching'
  BY <1>3 DEF Fetching
<1> QED
  BY <1>1, <1>3, <1>5, <1>6 DEF CheckerOK

LEMMA ClockTicks ==
    ASSUME CheckerOK, Tick
    PROVE  CheckerOK'
<1>1. /\ credit < Interval /\ credit' = credit + 1 /\ UNCHANGED <<call, cancelled>>
      /\ watch' = [watch EXCEPT !.time = IF watch.on THEN @ + 1 ELSE 0]
  BY DEF Tick
<1>2. PICK t \in Nat, r \in Nat, on \in BOOLEAN, i \in Nat :
        /\ t = watch.time /\ r = watch.requests /\ on = watch.on
        /\ i = credit /\ i < Interval
  BY <1>1, CheckerAssumption DEF CheckerOK, Pace
<1>3. /\ watch' \in [on: BOOLEAN, time: Nat, requests: Nat]
      /\ watch'.requests = r /\ watch'.on = on
      /\ watch'.time = IF on THEN t + 1 ELSE 0
  BY <1>1, <1>2 DEF CheckerOK, Pace
<1>4. Remaining' = Remaining /\ Remaining \in 0 .. NAddresses
  BY <1>1, RemainingFacts DEF Remaining
<1>5. r + Remaining' <= Budget'
  <2>1. CASE on
    <3>1. Interval + (t + 1) - (i + 1) = Interval + t - i
      BY <1>2, CheckerAssumption
    <3>2. Budget' = Budget
      BY <1>1, <1>2, <1>3, <2>1, <3>1 DEF Budget
    <3> QED
      BY <1>2, <1>4, <3>2 DEF CheckerOK, Pace
  <2>2. CASE ~on
    <3>1. PICK q \in Int : q = (Interval + 0 - (i + 1)) \div Interval /\ 0 <= q
      <4>1. 0 \div Interval = 0 /\ Interval \in Nat \ {0}
        BY CheckerAssumption
      <4>2. Interval + 0 - (i + 1) \in Int /\ 0 <= Interval + 0 - (i + 1)
        BY <1>2, CheckerAssumption
      <4> QED
        BY <4>1, <4>2, DivMonotone
    <3>2. Budget' = NAddresses * (1 + q)
      BY <1>1, <1>2, <1>3, <2>2, <3>1 DEF Budget
    <3>3. NAddresses <= NAddresses * (1 + q)
      BY <3>1, CheckerAssumption, TimesMonotone
    <3>4. r = 0
      BY <1>2, <2>2 DEF CheckerOK, Pace
    <3> QED
      BY <1>4, <3>2, <3>3, <3>4, CheckerAssumption
  <2> QED
    BY <1>2, <2>1, <2>2
<1>6. Pace'
  <2>1. watch'.requests + Remaining' <= Budget'
    BY <1>3, <1>5
  <2>2. ~on => r = 0
    BY <1>2 DEF CheckerOK, Pace
  <2> QED
    BY <1>3, <2>1, <2>2 DEF Pace
<1>7. Fetching'
  BY <1>1 DEF CheckerOK, Fetching
<1> QED
  BY <1>1, <1>6, <1>7, CheckerAssumption DEF CheckerOK

LEMMA WatchBegins ==
    ASSUME CheckerOK, StartWatching
    PROVE  CheckerOK'
<1>1. /\ ~watch.on /\ watch' = [watch EXCEPT !.on = TRUE]
      /\ UNCHANGED <<credit, call, cancelled>>
  BY DEF StartWatching
<1>2. PICK t \in Nat, r \in Nat : t = watch.time /\ r = watch.requests
  BY DEF CheckerOK, Pace
<1>3. /\ watch' \in [on: BOOLEAN, time: Nat, requests: Nat]
      /\ watch'.on /\ watch'.time = t /\ watch'.requests = r
  BY <1>1, <1>2 DEF CheckerOK, Pace
<1>4. Remaining' = Remaining /\ Budget' = Budget
  BY <1>1, <1>2, <1>3 DEF Remaining, Budget
<1>5. Pace'
  <2>1. r + Remaining <= Budget
    BY <1>2 DEF CheckerOK, Pace
  <2> QED
    BY <1>3, <1>4, <2>1 DEF Pace
<1>6. Fetching'
  BY <1>1 DEF CheckerOK, Fetching
<1> QED
  BY <1>1, <1>5, <1>6 DEF CheckerOK

LEMMA LookupKeeps ==
    ASSUME CheckerOK, Lookup
    PROVE  CheckerOK' /\ call.pc # "none" /\ call'.pc # "none" /\ cancelled' = cancelled
<1>1. CASE TakeToken
  BY <1>1, TokenTaken DEF TakeToken
<1>2. CASE WaitCancelled
  BY <1>2, WaitGivenUp DEF WaitCancelled
<1>3. CASE SendRequest
  BY <1>3, RequestSent DEF SendRequest
<1>4. CASE RequestRefused
  BY <1>4, AddressDone DEF RequestRefused
<1>5. CASE Answered
  <2>1. Balance(call.of, call.fetched + 1) \in {0, 1}
    BY DEF Balance
  <2> QED
    BY <1>5, <2>1, AddressDone DEF Answered
<1>6. CASE RequestFails
  BY <1>6, AddressDone DEF RequestFails
<1> QED
  BY <1>1, <1>2, <1>3, <1>4, <1>5, <1>6 DEF Lookup

-----------------------------------------------------------------------------
(* The counters.                                                           *)

LEMMA BumpsFacts ==
    ASSUME NEW res \in ResultKinds
    PROVE  /\ Bumps(res) \in Pending /\ Bumps(res) # <<>>
           /\ OwedBy(Bumps(res), "processed") = 1
           /\ OwedBy(Bumps(res), "valid") \in {0, 1}
           /\ OwedBy(Bumps(res), "hits") \in {0, 1}
           /\ OwedBy(Bumps(res), "errors") \in {0, 1}
           /\ OwedBy(Bumps(res), "hits") <= OwedBy(Bumps(res), "valid")
           /\ OwedBy(Bumps(res), "errors") <= OwedBy(Bumps(res), "valid")
<1>1. CASE res = "skipped"
  BY <1>1 DEF Bumps, Pending, OwedBy
<1>2. CASE res = "empty"
  BY <1>2 DEF Bumps, Pending, OwedBy
<1>3. CASE res = "funded"
  BY <1>3 DEF Bumps, Pending, OwedBy
<1>4. CASE res = "error"
  BY <1>4 DEF Bumps, Pending, OwedBy
<1> QED
  BY <1>1, <1>2, <1>3, <1>4 DEF ResultKinds

LEMMA NothingOwed == \A counter \in Counters : OwedBy(<<>>, counter) = 0
BY DEF OwedBy

LEMMA OneBump ==
    ASSUME NEW a
    PROVE  /\ Head(<<a>>) = a /\ Tail(<<a>>) = <<>>
           /\ \A x : OwedBy(<<a>>, x) = IF x = a THEN 1 ELSE 0
BY DEF OwedBy

LEMMA TwoBumps ==
    ASSUME NEW a, NEW b
    PROVE  /\ Head(<<a, b>>) = a /\ Tail(<<a, b>>) = <<b>>
           /\ \A x : OwedBy(<<a, b>>, x) = IF x \in {a, b} THEN 1 ELSE 0
BY DEF OwedBy

LEMMA ThreeBumps ==
    ASSUME NEW a, NEW b, NEW c
    PROVE  /\ Head(<<a, b, c>>) = a /\ Tail(<<a, b, c>>) = <<b, c>>
           /\ \A x : OwedBy(<<a, b, c>>, x) = IF x \in {a, b, c} THEN 1 ELSE 0
BY DEF OwedBy

LEMMA TailFacts ==
    ASSUME NEW b \in Pending, b # <<>>
    PROVE  /\ Head(b) \in Counters /\ Tail(b) \in Pending
           /\ \A counter \in Counters :
                /\ OwedBy(b, counter) \in {0, 1} /\ OwedBy(Tail(b), counter) \in {0, 1}
                /\ OwedBy(b, counter) =
                     OwedBy(Tail(b), counter) + IF counter = Head(b) THEN 1 ELSE 0
<1>1. CASE b \in {<<"processed">>, <<"valid">>, <<"hits">>, <<"errors">>}
  <2>1. PICK x \in Counters : b = <<x>>
    BY <1>1 DEF Counters
  <2>2. Head(b) = x /\ Tail(b) = <<>>
    BY <2>1, OneBump
  <2>3. \A y : OwedBy(b, y) = IF y = x THEN 1 ELSE 0
    BY <2>1, OneBump
  <2>4. \A y : OwedBy(Tail(b), y) = 0
    BY <2>2 DEF OwedBy
  <2>5. Tail(b) \in Pending
    BY <2>2 DEF Pending
  <2> QED
    BY <2>2, <2>3, <2>4, <2>5
<1>2. CASE b \in {<<"processed", "valid">>, <<"valid", "hits">>, <<"valid", "errors">>}
  <2>1. PICK x \in Counters, y \in Counters : b = <<x, y>> /\ x # y /\ <<y>> \in Pending
    BY <1>2 DEF Counters, Pending
  <2>2. Head(b) = x /\ Tail(b) = <<y>>
    BY <2>1, TwoBumps
  <2>3. \A z : OwedBy(b, z) = IF z \in {x, y} THEN 1 ELSE 0
    BY <2>1, TwoBumps
  <2>4. \A z : OwedBy(<<y>>, z) = IF z = y THEN 1 ELSE 0
    BY OneBump
  <2> QED
    BY <2>1, <2>2, <2>3, <2>4
<1>3. CASE b \in {<<"processed", "valid", "hits">>, <<"processed", "valid", "errors">>}
  <2>1. PICK x \in Counters, y \in Counters, z \in Counters :
          b = <<x, y, z>> /\ x \notin {y, z} /\ <<y, z>> \in Pending
    BY <1>3 DEF Counters, Pending
  <2>2. Head(b) = x /\ Tail(b) = <<y, z>>
    BY <2>1, ThreeBumps
  <2>3. \A w : OwedBy(b, w) = IF w \in {x, y, z} THEN 1 ELSE 0
    BY <2>1, ThreeBumps
  <2>4. \A w : OwedBy(<<y, z>>, w) = IF w \in {y, z} THEN 1 ELSE 0
    BY TwoBumps
  <2> QED
    BY <2>1, <2>2, <2>3, <2>4
<1> QED
  BY <1>1, <1>2, <1>3 DEF Pending

LEMMA OwedFacts ==
    ASSUME NEW b \in Pending
    PROVE  \A counter \in Counters : OwedBy(b, counter) \in {0, 1}
BY DEF OwedBy

(* What the counters have to do with the rest of the run.                  *)
LEMMA CountersSame ==
    ASSUME CountersOK, UNCHANGED running, UNCHANGED stats,
           call'.pc = "none" <=> call.pc = "none"
    PROVE  CountersOK'
BY DEF CountersOK, OneByOne, Counted, Owed, running

LEMMA Delivered ==
    ASSUME CountersOK, stats \in Numbers, NEW res \in ResultKinds, Deliver(res),
           call'.pc = "none", next < Total, pc \notin Stores,
           mode = "walk" => pc = "run" /\ bumps = <<>> /\ checked = <<>> /\ batch < BatchSize
    PROVE  CountersOK'
<1>1. /\ Len(checked) < BatchSize /\ checked' = Append(checked, res) /\ next' = next + 1
      /\ UNCHANGED <<stats, mode, start, pc, bumps, batch>>
  BY DEF Deliver, Room
<1>2. checked \in Seq(ResultKinds) /\ start \in Int /\ next \in start .. Total /\ Total \in Int
  BY LiveAssumption DEF CountersOK, Counted
<1>3. PICK k \in Nat : k = Len(checked)
  BY <1>2
<1>4. checked' \in Seq(ResultKinds) /\ Len(checked') = k + 1 /\ checked' # <<>>
  BY <1>1, <1>2, <1>3
<1>5. next' \in start .. Total /\ Len(checked') <= BatchSize
  BY <1>1, <1>2, <1>3, <1>4, LiveAssumption
<1>6. OneByOne'
  <2>1. mode = "walk" => k = 0
    BY <1>3
  <2> QED
    BY <1>1, <1>4, <2>1 DEF OneByOne
<1>7. stats'.processed + Owed("processed")' + Len(checked') = next' - start
  <2>1. Owed("processed")' = Owed("processed") /\ Owed("processed") \in {0, 1}
    BY <1>1 DEF Owed, OwedBy
  <2>2. stats.processed \in Int /\ stats.processed + Owed("processed") + k = next - start
    BY <1>3 DEF CountersOK, Counted, Numbers
  <2> QED
    BY <1>1, <1>2, <1>4, <2>1, <2>2
<1>8. /\ bumps' \in Pending
      /\ bumps' # <<>> => pc' = "run"
      /\ pc' \notin Stores /\ call'.pc = "none"
      /\ batch' > 0 => next' > start
      /\ stats'.valid + Owed("valid")' <= stats'.processed + Owed("processed")'
      /\ stats'.hits + Owed("hits")' <= stats'.valid + Owed("valid")'
      /\ stats'.errors + Owed("errors")' <= stats'.valid + Owed("valid")'
  <2>1. /\ Owed("processed")' = Owed("processed") /\ Owed("valid")' = Owed("valid")
        /\ Owed("hits")' = Owed("hits") /\ Owed("errors")' = Owed("errors")
    BY <1>1 DEF Owed
  <2>2. next' > start
    BY <1>1, <1>2
  <2> QED
    BY <1>1, <2>1, <2>2 DEF CountersOK, Counted
<1>9. Counted'
  BY <1>1, <1>4, <1>7, <1>8 DEF Counted
<1> QED
  BY <1>1, <1>5, <1>6, <1>9 DEF CountersOK

LEMMA CountersType ==
    ASSUME CountersOK, stats \in Numbers
    PROVE  /\ start \in Nat /\ next \in Nat /\ start <= next /\ next <= Total /\ batch \in Nat
           /\ Total \in Nat /\ BatchSize \in Nat \ {0} /\ Len(checked) \in Nat
           /\ checked \in Seq(ResultKinds)
           /\ \A counter \in Counters :
                stats[counter] \in Int /\ Owed(counter) \in {0, 1}
<1>1. start \in Nat /\ next \in start .. Total /\ Total \in Nat /\ batch \in 0 .. BatchSize
  BY LiveAssumption DEF CountersOK
<1>2. checked \in Seq(ResultKinds) /\ bumps \in Pending
  BY DEF CountersOK, Counted
<1>3. \A counter \in Counters : Owed(counter) \in {0, 1}
  BY <1>2, OwedFacts DEF Owed
<1>4. \A counter \in Counters : stats[counter] \in Int
  BY DEF Numbers, Counters
<1>5. next \in Nat /\ start <= next /\ next <= Total /\ batch \in Nat
  BY <1>1, LiveAssumption
<1> QED
  BY <1>1, <1>2, <1>3, <1>4, <1>5, LiveAssumption

LEMMA TryKeeps ==
    ASSUME CheckerOK, CountersOK, stats \in Numbers, Try
    PROVE  /\ CheckerOK' /\ CountersOK'
           /\ UNCHANGED <<stats, screen, mode, start, pc>>
<1>1. CASE TryInvalid
  <2>1. /\ CanTry /\ Deliver("skipped") /\ UNCHANGED <<credit, call, watch, cancelled>>
        /\ "skipped" \in ResultKinds
    BY <1>1 DEF TryInvalid, ResultKinds, checking
  <2>2. CountersOK'
    BY <2>1, Delivered DEF CanTry, Stores
  <2> QED
    BY <2>1, <2>2, CallUnchanged DEF Deliver, CheckerOK
<1>2. CASE TryValid
  <2>1. /\ CanTry /\ CheckAddresses(next) /\ UNCHANGED <<stats, screen, running>>
    BY <1>2 DEF TryValid
  <2>2. next \in Candidates
    <3>1. next \in Nat /\ next < Total /\ Total \in Nat
      BY <2>1, CountersType DEF CanTry
    <3> QED
      BY <3>1, LiveAssumption
  <2>3. CheckerOK' /\ call'.pc # "none"
    BY <2>1, <2>2, CallBegins
  <2>4. CountersOK'
    <3>1. OneByOne'
      BY <2>1, <2>3 DEF CanTry, OneByOne, running
    <3>2. Counted'
      BY <2>1, <2>3 DEF CanTry, CountersOK, Counted, Owed, running, Stores
    <3> QED
      BY <2>1, <3>1, <3>2 DEF CountersOK, running
  <2> QED
    BY <2>1, <2>3, <2>4 DEF running
<1>3. CASE LookupDone
  <2>1. /\ call.pc = "returned" /\ Deliver(Result) /\ call' = NoCall
        /\ UNCHANGED <<credit, cancelled, watch>>
    BY <1>3 DEF LookupDone
  <2>2. Result \in ResultKinds
    BY DEF Result, ResultKinds
  <2>3. CheckerOK'
    BY <2>1, CallTaken
  <2>4. /\ next < Total /\ pc \notin Stores
        /\ mode = "walk" =>
             pc = "run" /\ bumps = <<>> /\ checked = <<>> /\ batch < BatchSize
    BY <2>1 DEF CountersOK, Counted, OneByOne
  <2>5. CountersOK'
    BY <2>1, <2>2, <2>4, NoCallFacts, Delivered
  <2> QED
    BY <2>1, <2>3, <2>5 DEF Deliver
<1>4. CASE LookupOn
  BY <1>4, LookupKeeps, CountersSame DEF LookupOn, running
<1> QED
  BY <1>1, <1>2, <1>3, <1>4 DEF Try

LEMMA PrepareKeeps ==
    ASSUME CheckerOK, CountersOK, stats \in Numbers, Prepare
    PROVE  CheckerOK' /\ CountersOK'
<1>1. /\ pc \in Stores /\ pc' \in {"store resumed", "store cursor", "run"}
      /\ UNCHANGED <<credit, call, watch, cancelled, mode, start, next, checked, bumps, batch>>
  BY DEF Prepare, StoreSession, StoreResumedAt, StoreCursor, Stores, checking
<1>2. \A counter \in Counters : stats'[counter] = stats[counter]
  BY DEF Prepare, StoreSession, StoreResumedAt, StoreCursor, Counters, Numbers
<1>3. CheckerOK'
  BY <1>1, CallUnchanged DEF CheckerOK
<1>4. OneByOne'
  BY <1>1 DEF CountersOK, OneByOne, Counted, Stores
<1>5. Counted'
  BY <1>1, <1>2 DEF CountersOK, Counted, Owed, Counters, Stores
<1> QED
  BY <1>1, <1>3, <1>4, <1>5 DEF CountersOK, Pcs, Stores

LEMMA TakeKeeps ==
    ASSUME CheckerOK, CountersOK, stats \in Numbers, stats.processed >= 0, Take
    PROVE  CheckerOK' /\ CountersOK'
<1>1. /\ pc = "run" /\ bumps = <<>> /\ checked # <<>> /\ batch < BatchSize
      /\ bumps' = Bumps(Head(checked)) /\ checked' = Tail(checked) /\ batch' = batch + 1
      /\ UNCHANGED <<credit, call, watch, cancelled, stats, mode, start, pc, next>>
  BY DEF Take, checking
<1>2. Head(checked) \in ResultKinds /\ Tail(checked) \in Seq(ResultKinds)
  BY <1>1, CountersType
<1>3. PICK k \in Nat :
        /\ k = Len(checked) /\ k > 0 /\ Len(checked') = k - 1
        /\ checked' # <<>> => k > 1
  BY <1>1, CountersType
<1>4. PICK p \in Int, v \in Int, h \in Int, e \in Int :
        p = stats.processed /\ v = stats.valid /\ h = stats.hits /\ e = stats.errors
  BY DEF Numbers
<1>12. PICK s \in Nat, n \in Nat : s = start /\ n = next /\ s <= n
  BY CountersType
<1>5. /\ Owed("processed") = 0 /\ Owed("valid") = 0
      /\ Owed("hits") = 0 /\ Owed("errors") = 0
  BY <1>1, NothingOwed DEF Owed, Counters
<1>6. p + k = n - s /\ v <= p /\ h <= v /\ e <= v
  <2>1. /\ stats.processed + Owed("processed") + Len(checked) = next - start
        /\ stats.valid + Owed("valid") <= stats.processed + Owed("processed")
        /\ stats.hits + Owed("hits") <= stats.valid + Owed("valid")
        /\ stats.errors + Owed("errors") <= stats.valid + Owed("valid")
    BY DEF CountersOK, Counted
  <2>2. p + 0 + k = n - s /\ v + 0 <= p + 0 /\ h + 0 <= v + 0 /\ e + 0 <= v + 0
    BY <1>3, <1>4, <1>5, <1>12, <2>1
  <2> QED
    BY <2>2
<1>7. next > start
  <2>1. p >= 0 /\ p \in Int /\ s \in Int /\ n \in Int
    BY <1>4
  <2> QED
    BY <1>3, <1>6, <1>12, <2>1
<1>8. CheckerOK'
  BY <1>1, CallUnchanged DEF CheckerOK
<1>9. OneByOne'
  <2>1. mode = "walk" => call.pc = "none" /\ k = 1
    BY <1>1, <1>3 DEF CountersOK, OneByOne
  <2>2. ASSUME mode = "walk" PROVE call'.pc = "none" /\ checked' = <<>>
    <3>1. call.pc = "none" /\ ~ (k > 1)
      BY <2>1, <2>2
    <3> QED
      BY <1>1, <1>3, <3>1
  <2> QED
    BY <1>1, <2>2 DEF OneByOne
<1>10. Counted'
  <2>1. /\ bumps' \in Pending
        /\ pc' = "run" /\ pc' \notin Stores
        /\ call'.pc # "none" => next' < Total
        /\ checked' \in Seq(ResultKinds)
    BY <1>1, <1>2, BumpsFacts DEF CountersOK, Counted, Stores
  <2>2. /\ Owed("processed")' = 1
        /\ Owed("valid")' \in {0, 1} /\ Owed("hits")' \in {0, 1} /\ Owed("errors")' \in {0, 1}
        /\ Owed("hits")' <= Owed("valid")' /\ Owed("errors")' <= Owed("valid")'
    BY <1>1, <1>2, BumpsFacts DEF Owed
  <2>3. /\ stats'.processed + Owed("processed")' + Len(checked') = next' - start'
        /\ stats'.valid + Owed("valid")' <= stats'.processed + Owed("processed")'
        /\ stats'.hits + Owed("hits")' <= stats'.valid + Owed("valid")'
        /\ stats'.errors + Owed("errors")' <= stats'.valid + Owed("valid")'
    <3>1. PICK v1 \in Int, h1 \in Int, e1 \in Int :
            /\ v1 = Owed("valid")' /\ h1 = Owed("hits")' /\ e1 = Owed("errors")'
            /\ v1 <= 1 /\ h1 <= v1 /\ e1 <= v1
      BY <2>2
    <3>2. /\ stats'.processed = p /\ stats'.valid = v /\ stats'.hits = h
          /\ stats'.errors = e /\ next' = n /\ start' = s
      BY <1>1, <1>4, <1>12
    <3>3. p + 1 + (k - 1) = n - s /\ v + v1 <= p + 1 /\ h + h1 <= v + v1 /\ e + e1 <= v + v1
      BY <1>6, <3>1
    <3> QED
      BY <1>3, <2>2, <3>1, <3>2, <3>3
  <2> QED
    BY <1>1, <1>7, <2>1, <2>3 DEF Counted
<1>11. Len(checked') <= BatchSize /\ batch' \in 0 .. BatchSize
  BY <1>1, <1>3, CountersType DEF CountersOK
<1> QED
  BY <1>1, <1>8, <1>9, <1>10, <1>11 DEF CountersOK

LEMMA BumpKeeps ==
    ASSUME CheckerOK, CountersOK, stats \in Numbers, Bump
    PROVE  /\ CheckerOK' /\ CountersOK' /\ stats' \in Numbers /\ bumps # <<>>
           /\ \E h \in Counters : stats' = [stats EXCEPT ![h] = stats[h] + 1]
<1>1. /\ bumps # <<>> /\ bumps' = Tail(bumps)
      /\ stats' = [stats EXCEPT ![Head(bumps)] = @ + 1]
      /\ UNCHANGED <<credit, call, watch, cancelled, mode, start, pc, next, checked, batch>>
  BY DEF Bump, checking
<1>2. bumps \in Pending
  BY DEF CountersOK, Counted
<1>3. PICK h \in Counters : h = Head(bumps)
  BY <1>1, <1>2, TailFacts
<1>4. stats' = [stats EXCEPT ![h] = stats[h] + 1]
  BY <1>1, <1>3
<1>5. stats' \in Numbers
  BY <1>4 DEF Counters, Numbers
<1>6. \A c \in Counters : stats'[c] = stats[c] + IF c = h THEN 1 ELSE 0
  BY <1>4 DEF Counters, Numbers
<1>7. \A c \in Counters : Owed(c) = Owed(c)' + IF c = h THEN 1 ELSE 0
  BY <1>1, <1>2, <1>3, TailFacts DEF Owed
<1>8. \A c \in Counters : Owed(c)' \in Int /\ stats[c] \in Int
  BY <1>1, <1>2, TailFacts DEF Owed, Counters, Numbers
<1>9. \A c \in Counters : stats'[c] + Owed(c)' = stats[c] + Owed(c)
  BY <1>6, <1>7, <1>8
<1>10. bumps' \in Pending /\ pc = "run"
  BY <1>1, <1>2, TailFacts DEF CountersOK, Counted
<1>11. /\ stats'.processed + Owed("processed")' = stats.processed + Owed("processed")
       /\ stats'.valid + Owed("valid")' = stats.valid + Owed("valid")
       /\ stats'.hits + Owed("hits")' = stats.hits + Owed("hits")
       /\ stats'.errors + Owed("errors")' = stats.errors + Owed("errors")
  BY <1>9 DEF Counters
<1>12. Counted'
  BY <1>1, <1>10, <1>11 DEF CountersOK, Counted, Stores
<1>13. OneByOne'
  BY <1>1 DEF CountersOK, OneByOne
<1>14. CheckerOK'
  BY <1>1, CallUnchanged DEF CheckerOK
<1> QED
  BY <1>1, <1>4, <1>5, <1>12, <1>13, <1>14 DEF CountersOK

LEMMA FlushKeeps ==
    ASSUME CheckerOK, CountersOK, stats \in Numbers, Flush \/ Leave \/ FinalFlush
    PROVE  CheckerOK' /\ CountersOK'
<1>1. /\ pc \in {"run", "final flush"} /\ pc' \in {"run", "final flush", "returned"}
      /\ pc' # "run" => bumps = <<>>
      /\ batch' \in {0, batch}
      /\ UNCHANGED <<credit, call, watch, cancelled, mode, start, next, checked, bumps>>
  BY DEF Flush, Flushed, Leave, FinalFlush, checking, CountersOK, Counted
<1>2. \A counter \in Counters : stats'[counter] = stats[counter]
  BY DEF Flush, Flushed, Leave, FinalFlush, Counters, Numbers
<1>3. CheckerOK'
  BY <1>1, CallUnchanged DEF CheckerOK
<1>4. OneByOne'
  <2>1. CASE Flush
    BY <1>1, <2>1, CountersType DEF Flush, Flushed, CountersOK, OneByOne
  <2>2. CASE Leave
    BY <1>1, <2>2 DEF Leave, OneByOne
  <2>3. CASE FinalFlush
    BY <1>1, <2>3 DEF FinalFlush, CountersOK, OneByOne
  <2> QED
    BY <2>1, <2>2, <2>3
<1>5. batch' \in 0 .. BatchSize /\ (batch' > 0 => next > start)
  <2>1. batch \in 0 .. BatchSize /\ (batch > 0 => next > start)
    BY DEF CountersOK, Counted
  <2>2. 0 \in 0 .. BatchSize /\ ~ (0 > 0)
    BY LiveAssumption
  <2> QED
    BY <1>1, <2>1, <2>2
<1>6. Counted'
  <2>1. /\ stats'.processed = stats.processed /\ stats'.valid = stats.valid
        /\ stats'.hits = stats.hits /\ stats'.errors = stats.errors
    BY <1>2 DEF Counters
  <2>2. pc' \notin Stores
    BY <1>1 DEF Stores
  <2> QED
    BY <1>1, <1>5, <2>1, <2>2 DEF CountersOK, Counted, Owed
<1> QED
  BY <1>1, <1>3, <1>4, <1>5, <1>6 DEF CountersOK, Pcs

-----------------------------------------------------------------------------
(* The screen.                                                             *)

StatsTyped == stats \in Numbers
Bounded ==
    /\ stats.processed <= Total /\ stats.valid <= Total
    /\ stats.hits <= Total /\ stats.errors <= Total
    /\ start + stats.processed <= next

LEMMA CountsBounded == CountersOK /\ StatsTyped => Bounded
<1> SUFFICES ASSUME CountersOK, stats \in Numbers PROVE Bounded
  BY DEF StatsTyped
<1>1. PICK p \in Int, v \in Int, h \in Int, e \in Int :
        p = stats.processed /\ v = stats.valid /\ h = stats.hits /\ e = stats.errors
  BY DEF Numbers
<1>2. PICK op \in {0, 1}, ov \in {0, 1}, oh \in {0, 1}, oe \in {0, 1} :
        /\ op = Owed("processed") /\ ov = Owed("valid")
        /\ oh = Owed("hits") /\ oe = Owed("errors")
  BY CountersType DEF Counters
<1>3. PICK s \in Nat, n \in Nat, k \in Nat :
        s = start /\ n = next /\ k = Len(checked) /\ n <= Total /\ Total \in Nat
  BY CountersType
<1>4. p + op + k = n - s /\ v + ov <= p + op /\ h + oh <= v + ov /\ e + oe <= v + ov
  <2>1. /\ stats.processed + Owed("processed") + Len(checked) = next - start
        /\ stats.valid + Owed("valid") <= stats.processed + Owed("processed")
        /\ stats.hits + Owed("hits") <= stats.valid + Owed("valid")
        /\ stats.errors + Owed("errors") <= stats.valid + Owed("valid")
    BY DEF CountersOK, Counted
  <2> QED
    BY <1>1, <1>2, <1>3, <2>1
<1>5. p <= Total /\ v <= Total /\ h <= Total /\ e <= Total /\ s + p <= n
  BY <1>3, <1>4
<1> QED
  BY <1>1, <1>3, <1>5 DEF Bounded

Grown ==
    /\ stats.session <= stats'.session /\ stats.resumedAt <= stats'.resumedAt
    /\ stats.cursor <= stats'.cursor /\ stats.processed <= stats'.processed
    /\ stats.valid <= stats'.valid /\ stats.hits <= stats'.hits
    /\ stats.errors <= stats'.errors

(* The run may move its counters on while a frame is being read.           *)
LEMMA StatsGrow ==
    ASSUME ScreenOK, start \in Nat, stats' \in Numbers, IsStats(stats)', Grown,
           UNCHANGED <<frame, shown, dash, mode, start>>
    PROVE  ScreenOK'
<1>1. /\ stats \in Numbers /\ frame \in Numbers /\ shown \in Numbers
      /\ dash.loads \in Nat /\ dash.since \in Nat
  BY DEF ScreenOK
<1>2. ASSUME NEW c \in DOMAIN NewStats, NEW k \in 1 .. 7, Between(c, k),
             stats[c] <= stats'[c]
      PROVE  Between(c, k)'
  <2>1. /\ stats[c] \in Int /\ frame[c] \in Int /\ shown[c] \in Int /\ stats'[c] \in Int
        /\ shown'[c] = shown[c] /\ frame'[c] = frame[c] /\ dash'.loads = dash.loads
    BY <1>1 DEF Numbers, NewStats
  <2> QED
    BY <1>2, <2>1 DEF Between
<1>3. Places'
  BY <1>2 DEF ScreenOK, Places, Grown, NewStats
<1>4. stats.processed \in Int /\ stats'.processed \in Int /\ frame.processed \in Int
  BY <1>1 DEF Numbers
<1>5. LoadedProcessed \in Int /\ LoadedProcessed' \in Int /\ LoadedProcessed <= LoadedProcessed'
  BY <1>1, <1>4 DEF LoadedProcessed, Grown
<1>6. stats'.session = 1 \/ stats.session # 1
  BY <1>1 DEF ScreenOK, IsStats, Grown, Numbers
<1>7. FrameOK'
  <2>1. frame.cursor \in Int
    BY <1>1 DEF Numbers
  <2>2. frame.cursor <= start \/ frame.cursor < start + LoadedProcessed'
    BY <1>5, <2>1 DEF ScreenOK, FrameOK
  <2>3. dash.loads > 0 => dash.pc = "paint" /\ dash.since <= LoadedProcessed'
    BY <1>1, <1>5 DEF ScreenOK, FrameOK
  <2> QED
    BY <1>6, <2>2, <2>3 DEF ScreenOK, FrameOK
<1>8. FrameFits' /\ IsStats(frame)' /\ IsStats(shown)'
  BY DEF ScreenOK, FrameFits, IsStats
<1> QED
  BY <1>3, <1>7, <1>8 DEF ScreenOK

LEMMA FieldsTyped ==
    ASSUME stats \in Numbers
    PROVE  /\ stats.session \in Int /\ stats.resumedAt \in Int /\ stats.cursor \in Int
           /\ stats.processed \in Int /\ stats.valid \in Int
           /\ stats.hits \in Int /\ stats.errors \in Int
BY DEF Numbers

(* A store of one of the numbers that are not counted.                     *)
StoreOf(se, ra, cu) ==
    /\ stats' \in Numbers
    /\ stats'.session = se /\ stats'.resumedAt = ra /\ stats'.cursor = cu
    /\ stats'.processed = stats.processed /\ stats'.valid = stats.valid
    /\ stats'.hits = stats.hits /\ stats'.errors = stats.errors

LEMMA StoredOne ==
    ASSUME stats \in Numbers, IsStats(stats),
           NEW se \in Int, NEW ra \in Int, NEW cu \in Int, StoreOf(se, ra, cu),
           se \in {0, 1}, ra \in -1 .. Total - 1, cu \in {NilCursor} \cup Candidates,
           stats.session <= se, stats.resumedAt <= ra, stats.cursor <= cu
    PROVE  IsStats(stats)' /\ Grown
<1>1. IsStats(stats)'
  BY DEF IsStats, StoreOf
<1>2. Grown
  BY FieldsTyped DEF Grown, StoreOf
<1> QED
  BY <1>1, <1>2

LEMMA PrepareStores ==
    ASSUME CountersOK, Stored, ScreenOK, Prepare
    PROVE  stats' \in Numbers /\ IsStats(stats)' /\ Grown /\ Stored'
<1>0. PICK one \in Int, none \in Int : one = 1 /\ none = -1 /\ NilCursor = none
  BY DEF NilCursor
<1>1. PICK s \in Int : none <= s /\ s = start /\ s \in 0 .. Total - 1
  BY <1>0, LiveAssumption DEF CountersOK
<1>2. /\ stats \in Numbers /\ IsStats(stats) /\ mode \in {"sweep", "walk"}
      /\ Total \in Nat /\ start' = s /\ mode' = mode
  BY <1>1, LiveAssumption DEF ScreenOK, CountersOK,
                   Prepare, StoreSession, StoreResumedAt, StoreCursor
<1>3. PICK se \in Int, ra \in Int : se = stats.session /\ ra = stats.resumedAt
  BY <1>2, FieldsTyped
<1>4. stats.cursor = none /\ se \in {0, one} /\ ra \in {none, s - 1} /\ ra \in -1 .. Total - 1
  BY <1>0, <1>1, <1>2, <1>3 DEF IsStats, Stored, Stores, NilCursor,
                   Prepare, StoreSession, StoreResumedAt, StoreCursor
<1>5. CASE StoreSession
  <2>1. /\ pc = "store session" /\ pc' = "store resumed"
        /\ stats' = [stats EXCEPT !.session = one]
    BY <1>0, <1>5 DEF StoreSession
  <2>2. ra = none
    BY <1>0, <1>3, <2>1 DEF Stored
  <2>3. StoreOf(one, ra, none)
    <3>1. /\ stats' \in Numbers /\ stats'.session = one
          /\ stats'.resumedAt = stats.resumedAt /\ stats'.cursor = stats.cursor
          /\ stats'.processed = stats.processed /\ stats'.valid = stats.valid
          /\ stats'.hits = stats.hits /\ stats'.errors = stats.errors
      BY <1>2, <2>1 DEF Numbers
    <3> QED
      BY <1>3, <1>4, <3>1 DEF StoreOf
  <2>4. IsStats(stats)' /\ Grown
    BY <1>2, <1>3, <1>4, <2>3, StoredOne, <1>0
  <2>5. Stored'
    <3>1. /\ stats'.session = one /\ stats'.resumedAt = none /\ stats'.cursor = none
          /\ start' = s /\ none <= s /\ pc' = "store resumed"
      BY <1>1, <1>2, <2>1, <2>2, <2>3 DEF StoreOf
    <3> QED
      BY <1>0, <3>1 DEF Stored
  <2> QED
    BY <2>3, <2>4, <2>5 DEF StoreOf
<1>6. CASE StoreResumedAt
  <2>1. PICK r \in Int : r = IF mode = "sweep" THEN s - 1 ELSE none
    BY <1>1
  <2>2. /\ pc = "store resumed" /\ pc' = IF mode = "sweep" THEN "run" ELSE "store cursor"
        /\ stats' = [stats EXCEPT !.resumedAt = r]
    BY <1>0, <1>1, <1>6, <2>1 DEF StoreResumedAt
  <2>3. ra = none /\ se = one
    BY <1>0, <1>3, <2>2 DEF Stored
  <2>4. r \in {none, s - 1} /\ r \in -1 .. Total - 1
    BY <1>0, <1>1, <1>2, <2>1
  <2>5. StoreOf(one, r, none)
    <3>1. /\ stats' \in Numbers /\ stats'.session = stats.session
          /\ stats'.resumedAt = r /\ stats'.cursor = stats.cursor
          /\ stats'.processed = stats.processed /\ stats'.valid = stats.valid
          /\ stats'.hits = stats.hits /\ stats'.errors = stats.errors
      BY <1>2, <2>2 DEF Numbers
    <3> QED
      BY <1>3, <1>4, <2>3, <3>1 DEF StoreOf
  <2>6. IsStats(stats)' /\ Grown
    BY <1>2, <1>3, <1>4, <2>3, <2>4, <2>5, StoredOne, <1>0
  <2>7. Stored'
    <3>1. /\ stats'.session = one /\ stats'.resumedAt = r /\ stats'.cursor = none
          /\ start' = s /\ none <= s
          /\ pc' = "run" \/ (pc' = "store cursor" /\ mode' = "walk")
      BY <1>1, <1>2, <2>2, <2>5 DEF StoreOf
    <3> QED
      BY <1>0, <2>4, <3>1 DEF Stored, Stores
  <2> QED
    BY <2>5, <2>6, <2>7 DEF StoreOf
<1>7. CASE StoreCursor
  <2>1. /\ pc = "store cursor" /\ pc' = "run" /\ stats' = [stats EXCEPT !.cursor = s]
    BY <1>1, <1>7 DEF StoreCursor
  <2>2. s \in Candidates /\ se = one
    BY <1>0, <1>1, <1>3, <2>1, LiveAssumption DEF Stored
  <2>3. StoreOf(one, ra, s)
    <3>1. /\ stats' \in Numbers /\ stats'.session = stats.session
          /\ stats'.resumedAt = stats.resumedAt /\ stats'.cursor = s
          /\ stats'.processed = stats.processed /\ stats'.valid = stats.valid
          /\ stats'.hits = stats.hits /\ stats'.errors = stats.errors
      BY <1>2, <2>1 DEF Numbers
    <3> QED
      BY <1>3, <2>2, <3>1 DEF StoreOf
  <2>4. IsStats(stats)' /\ Grown
    BY <1>1, <1>2, <1>3, <1>4, <2>2, <2>3, StoredOne, <1>0
  <2>5. Stored'
    <3>1. /\ stats'.session = one /\ stats'.resumedAt = ra /\ stats'.cursor = s
      BY <2>3 DEF StoreOf
    <3>2. start' = s /\ pc' = "run"
      BY <1>2, <2>1, Zenon
    <3>3. s <= s
      OBVIOUS
    <3> QED
      BY <1>0, <1>4, <3>1, <3>2, <3>3 DEF Stored, Stores
  <2> QED
    BY <2>3, <2>4, <2>5 DEF StoreOf
<1> QED
  BY <1>5, <1>6, <1>7 DEF Prepare

LEMMA BumpStores ==
    ASSUME CheckerOK, CountersOK, Stored, ScreenOK, Bump
    PROVE  stats' \in Numbers /\ IsStats(stats)' /\ Grown /\ Stored'
<1>1. stats \in Numbers /\ IsStats(stats)
  BY DEF ScreenOK
<1>2. PICK h \in Counters : stats' = [stats EXCEPT ![h] = stats[h] + 1]
  BY <1>1, BumpKeeps
<1>3. CountersOK' /\ stats' \in Numbers
  BY <1>1, BumpKeeps
<1>4. /\ stats'.processed <= Total /\ stats'.valid <= Total
      /\ stats'.hits <= Total /\ stats'.errors <= Total
  <2>1. CountersOK' /\ StatsTyped'
    BY <1>3 DEF StatsTyped
  <2>2. Bounded'
    BY <2>1, CountsBounded, PTL
  <2> QED
    BY <2>2 DEF Bounded
<1>5. /\ stats'.session = stats.session /\ stats'.resumedAt = stats.resumedAt
      /\ stats'.cursor = stats.cursor
  BY <1>1, <1>2 DEF Counters, Numbers
<1>6. \A c \in Counters : stats'[c] \in Int /\ stats[c] \in Int /\ stats[c] <= stats'[c]
  BY <1>1, <1>2 DEF Counters, Numbers
<1>7. /\ stats.processed <= stats'.processed /\ stats.valid <= stats'.valid
      /\ stats.hits <= stats'.hits /\ stats.errors <= stats'.errors
  BY <1>6 DEF Counters
<1>8. Grown
  BY <1>1, <1>5, <1>7, FieldsTyped DEF Grown
<1>9. IsStats(stats)'
  BY <1>1, <1>3, <1>4, <1>5, <1>7, LiveAssumption DEF IsStats, Numbers
<1>10. pc' = pc /\ start' = start /\ mode' = mode /\ start \in Int
  BY LiveAssumption DEF Bump, CountersOK
<1>11. Stored'
  <2>1. PICK c \in Int, p \in Int, q \in Int, s \in Int :
          /\ c = stats.cursor /\ p = stats.processed /\ q = stats'.processed /\ s = start
    BY <1>1, <1>6, <1>10, FieldsTyped DEF Counters
  <2>2. c <= s \/ c < s + q
    <3>1. c <= s \/ c < s + p
      BY <2>1 DEF Stored
    <3>2. p <= q
      BY <1>7, <2>1
    <3> QED
      BY <3>1, <3>2
  <2>3. stats'.cursor <= start' \/ stats'.cursor < start' + stats'.processed
    BY <1>5, <1>10, <2>1, <2>2
  <2> QED
    BY <1>5, <1>10, <2>3 DEF Stored
<1> QED
  BY <1>3, <1>8, <1>9, <1>11

LEMMA FlushStores ==
    ASSUME CountersOK, Stored, ScreenOK, Flush \/ Leave \/ FinalFlush
    PROVE  stats' \in Numbers /\ IsStats(stats)' /\ Grown /\ Stored'
<1>1. stats \in Numbers /\ IsStats(stats)
  BY DEF ScreenOK
<1>2. /\ pc \notin Stores /\ pc' \notin Stores
      /\ mode' = mode /\ start' = start /\ next' = next
  BY DEF Flush, Leave, FinalFlush, Stores
<1>3. stats.session = 1
  BY <1>2 DEF Stored, Stores
<1>4. CASE stats' = stats
  <2>1. Grown
    BY <1>1, <1>4, FieldsTyped DEF Grown
  <2>2. Stored'
    BY <1>2, <1>3, <1>4 DEF Stored, Stores
  <2> QED
    BY <1>1, <1>4, <2>1, <2>2 DEF IsStats
<1>5. CASE stats' # stats
  <2>1. /\ stats' = [stats EXCEPT !.cursor = next - 1] /\ mode = "walk"
        /\ bumps = <<>> /\ checked = <<>> /\ batch > 0
    <3>1. CASE Flush
      BY <1>5, <3>1, LiveAssumption
         DEF Flush, Flushed, LastTried, CountersOK, OneByOne
    <3>2. CASE FinalFlush
      BY <1>5, <3>2 DEF FinalFlush, Flushed, LastTried, CountersOK, OneByOne, Counted
    <3> QED
      BY <1>5, <3>1, <3>2 DEF Leave
  <2>2. PICK s \in Nat, n \in Nat, p \in Int, c \in Int :
          /\ s = start /\ n = next /\ p = stats.processed /\ c = stats.cursor
          /\ n <= Total /\ Total \in Nat
    BY <1>1, CountersType DEF Numbers
  <2>3. s < n
    BY <2>1, <2>2 DEF CountersOK, Counted
  <2>4. p = n - s
    <3>1. stats.processed + Owed("processed") + Len(checked) = next - start
      BY DEF CountersOK, Counted
    <3>2. Owed("processed") = 0 /\ Len(checked) = 0
      BY <2>1, NothingOwed DEF Owed, Counters
    <3> QED
      BY <2>2, <3>1, <3>2
  <2>5. c <= n - 1
    <3>1. c <= s \/ c < s + p
      BY <2>2 DEF Stored
    <3> QED
      BY <2>3, <2>4, <3>1
  <2>6. PICK se \in Int, ra \in Int : se = stats.session /\ ra = stats.resumedAt
    BY <1>1, FieldsTyped
  <2>7. n - 1 \in Candidates /\ se \in {0, 1} /\ ra \in -1 .. Total - 1
    BY <1>1, <2>2, <2>3, <2>6, LiveAssumption DEF IsStats
  <2>8. StoreOf(se, ra, n - 1)
    BY <1>1, <2>1, <2>2, <2>6 DEF Numbers, StoreOf
  <2>9. IsStats(stats)' /\ Grown
    BY <1>1, <2>2, <2>5, <2>6, <2>7, <2>8, StoredOne
  <2>10. n - 1 < s + p
    BY <2>3, <2>4
  <2>11. Stored'
    BY <1>2, <1>3, <2>2, <2>6, <2>8, <2>10 DEF Stored, Stores, StoreOf
  <2> QED
    BY <2>8, <2>9, <2>11 DEF StoreOf
<1> QED
  BY <1>4, <1>5

LEMMA LoadsDistinct ==
    /\ \A k \in 1 .. 7 : Loads[k] \in DOMAIN NewStats
    /\ \A k, j \in 1 .. 7 : k # j => Loads[k] # Loads[j]
    /\ Len(Loads) = 7
<1>1. \A k \in 1 .. 7 : k \in {1, 2, 3, 4, 5, 6, 7}
  OBVIOUS
<1> QED
  BY <1>1 DEF Loads, NewStats

EachPlace == \A p \in 1 .. 7 : Between(Loads[p], p)

LEMMA PlacesEach == Places <=> EachPlace
<1>1. /\ Loads[1] = "resumedAt" /\ Loads[2] = "cursor" /\ Loads[3] = "session"
      /\ Loads[4] = "processed" /\ Loads[5] = "valid" /\ Loads[6] = "hits"
      /\ Loads[7] = "errors"
  BY DEF Loads
<1> HIDE DEF Loads
<1>2. 1 .. 7 = {1, 2, 3, 4, 5, 6, 7}
  OBVIOUS
<1>3. EachPlace <=>
        /\ Between(Loads[1], 1) /\ Between(Loads[2], 2) /\ Between(Loads[3], 3)
        /\ Between(Loads[4], 4) /\ Between(Loads[5], 5) /\ Between(Loads[6], 6)
        /\ Between(Loads[7], 7)
  BY <1>2, Zenon DEF EachPlace
<1> QED
  BY <1>1, <1>3, Zenon DEF Places

(* A number is loaded: it is not smaller than the one on the screen, and   *)
(* the run has it.                                                         *)
LEMMA LoadKeeps ==
    ASSUME Stored, ScreenOK, Load, start \in Int, start' = start, mode' = mode
    PROVE  ScreenOK'
<1>0. PICK k \in 0 .. 6, c \in DOMAIN NewStats : k = dash.loads /\ c = Loads[k + 1]
  <2>1. dash.loads \in 0 .. 6
    BY LoadsDistinct DEF Load, ScreenOK
  <2> QED
    BY <2>1, LoadsDistinct
<1>1. /\ k = dash.loads /\ c = Loads[k + 1] /\ dash.pc = "paint"
      /\ frame' = [frame EXCEPT ![c] = stats[c]]
      /\ dash' = [dash EXCEPT !.loads = k + 1,
                              !.since = IF k = 0 THEN stats.processed ELSE dash.since]
      /\ stats' = stats /\ shown' = shown
  BY <1>0 DEF Load
<1>2. /\ stats \in Numbers /\ frame \in Numbers /\ shown \in Numbers
      /\ IsStats(stats) /\ IsStats(frame) /\ IsStats(shown)
  BY DEF ScreenOK
<1>3. frame' \in Numbers /\ IsStats(frame)'
  BY <1>1, <1>2 DEF Numbers, NewStats, IsStats
<1>4. \A d \in DOMAIN NewStats : frame'[d] = IF d = c THEN stats[d] ELSE frame[d]
  BY <1>1, <1>2 DEF Numbers, NewStats
<1>5. /\ dash' \in [pc: DashPcs, loads: Nat, since: Nat] /\ dash'.loads = k + 1
      /\ dash'.since = (IF k = 0 THEN stats.processed ELSE dash.since)
      /\ dash'.pc = "paint"
  <2>1. dash.since \in Nat /\ dash \in [pc: DashPcs, loads: Nat, since: Nat]
    BY DEF ScreenOK
  <2>2. stats.processed \in Nat
    BY <1>2 DEF IsStats
  <2>3. PICK t \in Nat : t = IF k = 0 THEN stats.processed ELSE dash.since
    BY <2>1, <2>2
  <2>4. dash' = [pc |-> dash.pc, loads |-> k + 1, since |-> t]
    BY <1>1, <2>1, <2>3
  <2>5. dash.pc \in DashPcs /\ k + 1 \in Nat
    BY <2>1
  <2> QED
    BY <1>1, <2>3, <2>4, <2>5
<1>6. ASSUME NEW p \in 1 .. 7 PROVE Between(Loads[p], p)'
  <2>1. Between(Loads[p], p)
    BY PlacesEach DEF ScreenOK, EachPlace
  <2>2. PICK d \in DOMAIN NewStats : d = Loads[p] /\ (d = c <=> p = k + 1)
    BY <1>1, <1>6, LoadsDistinct
  <2>3. /\ stats[d] \in Int /\ frame[d] \in Int /\ shown[d] \in Int
        /\ stats'[d] = stats[d] /\ shown'[d] = shown[d]
    BY <1>1, <1>2 DEF Numbers, NewStats
  <2>4. PICK a \in Int, b \in Int, e \in Int, e1 \in Int :
          /\ a = shown[d] /\ b = stats[d] /\ e = frame[d] /\ e1 = frame'[d]
          /\ e1 = IF p = k + 1 THEN b ELSE e
    BY <1>4, <2>2, <2>3
  <2>5. a <= b /\ (k >= p => a <= e /\ e <= b)
    BY <1>1, <2>1, <2>2, <2>4 DEF Between
  <2>6. a <= b /\ (k + 1 >= p => a <= e1 /\ e1 <= b)
    BY <2>4, <2>5
  <2>7. Between(d, p)'
    BY <1>5, <2>3, <2>4, <2>6 DEF Between
  <2> QED
    BY <2>2, <2>7 DEF Loads
<1>7. Places'
  <2>1. EachPlace'
    BY <1>6 DEF EachPlace
  <2> QED
    BY <2>1, PlacesEach, PTL
<1>8. /\ frame'.resumedAt = IF k = 0 THEN stats.resumedAt ELSE frame.resumedAt
      /\ frame'.cursor = IF k = 1 THEN stats.cursor ELSE frame.cursor
      /\ frame'.session = IF k = 2 THEN stats.session ELSE frame.session
      /\ frame'.processed = IF k = 3 THEN stats.processed ELSE frame.processed
  <2>1. /\ c = "resumedAt" <=> k = 0
        /\ c = "cursor" <=> k = 1
        /\ c = "session" <=> k = 2
        /\ c = "processed" <=> k = 3
    <3>1. /\ Loads[1] = "resumedAt" /\ Loads[2] = "cursor"
          /\ Loads[3] = "session" /\ Loads[4] = "processed"
      BY DEF Loads
    <3>2. \A j \in {1, 2, 3, 4} : c = Loads[j] <=> k = j - 1
      BY <1>1, LoadsDistinct
    <3> QED
      BY <3>1, <3>2
  <2> QED
    BY <1>4, <2>1 DEF NewStats
<1>9. LoadedProcessed' = IF k = 0 THEN stats.processed ELSE LoadedProcessed
  BY <1>1, <1>5, <1>8 DEF LoadedProcessed
<1>10. FrameOK'
  <2>1. dash'.pc = "paint" /\ dash'.since <= LoadedProcessed'
    <3>1. stats.processed \in Int /\ stats.processed <= stats.processed
      BY <1>2, FieldsTyped
    <3> QED
      BY <1>1, <1>5, <1>9, <3>1 DEF ScreenOK, FrameOK
  <2>2. shown'.resumedAt \in {-1, start' - 1} /\ frame'.resumedAt \in {-1, start' - 1}
    <3>1. /\ shown.resumedAt \in {-1, start - 1} /\ frame.resumedAt \in {-1, start - 1}
          /\ stats.resumedAt \in {-1, start - 1}
      BY DEF ScreenOK, FrameOK, Stored
    <3>2. frame'.resumedAt \in {stats.resumedAt, frame.resumedAt}
      BY <1>8
    <3>3. shown' = shown /\ start' = start
      BY <1>1
    <3> QED
      BY <3>1, <3>2, <3>3, Zenon
  <2>3. frame'.resumedAt >= 0 => stats'.session = 1
    <3>1. stats.resumedAt >= 0 => stats.session = 1
      <4>1. PICK none \in Int : none = -1 /\ ~(none >= 0)
        OBVIOUS
      <4>2. /\ pc = "store session" \/ stats.session = 1
            /\ pc = "store session" => stats.resumedAt = none
        BY <4>1, Zenon DEF Stored
      <4> QED
        BY <4>1, <4>2, Zenon
    <3> QED
      BY <1>1, <1>8, <3>1 DEF ScreenOK, FrameOK
  <2>4. dash'.loads >= 3 /\ frame'.resumedAt >= 0 => frame'.session = 1
    BY <1>1, <1>5, <1>8, <2>3 DEF ScreenOK, FrameOK
  <2>5. frame'.cursor <= start' \/ frame'.cursor < start' + LoadedProcessed'
    <3>1. stats.cursor <= start \/ stats.cursor < start + stats.processed
      BY DEF Stored
    <3>2. k <= 3 => LoadedProcessed = stats.processed
      BY <1>1 DEF LoadedProcessed
    <3> QED
      BY <1>1, <1>8, <1>9, <3>1, <3>2 DEF ScreenOK, FrameOK
  <2> QED
    BY <2>1, <2>2, <2>3, <2>4, <2>5 DEF FrameOK
<1>11. FrameFits' /\ IsStats(stats)' /\ IsStats(shown)'
  BY <1>1, <1>2 DEF ScreenOK, FrameFits, IsStats
<1> QED
  BY <1>1, <1>2, <1>3, <1>5, <1>7, <1>10, <1>11 DEF ScreenOK

LEMMA NewStatsFacts ==
    ASSUME CountersOK
    PROVE  /\ NewStats \in Numbers /\ IsStats(NewStats)
           /\ ~(NewStats.resumedAt >= 0) /\ NewStats.resumedAt \in {-1, start - 1}
           /\ NewStats.cursor <= start
<1>1. start \in Nat /\ Total \in Nat /\ start < Total
  BY LiveAssumption DEF CountersOK
<1>2. NewStats \in Numbers
  BY DEF NewStats, NilCursor, Numbers
<1>3. /\ NewStats.session = 0 /\ NewStats.resumedAt = -1 /\ NewStats.cursor = NilCursor
      /\ NewStats.processed = 0 /\ NewStats.valid = 0 /\ NewStats.hits = 0
      /\ NewStats.errors = 0
  BY DEF NewStats
<1>4. -1 \in -1 .. Total - 1 /\ 0 \in 0 .. Total /\ NilCursor <= start /\ ~(-1 >= 0)
  BY <1>1 DEF NilCursor
<1> QED
  BY <1>2, <1>3, <1>4, Zenon DEF IsStats

(* The frame that has been read goes onto the screen.                      *)
LEMMA ShowKeeps ==
    ASSUME CountersOK, ScreenOK, Show, UNCHANGED <<mode, start>>
    PROVE  ScreenOK' /\ \A c \in DOMAIN NewStats : shown[c] <= shown'[c]
<1>1. /\ dash.pc = "paint" /\ dash.loads = 7
      /\ shown' = frame /\ frame' = NewStats /\ stats' = stats
      /\ dash' = [pc |-> "select", loads |-> 0, since |-> 0]
  BY LoadsDistinct DEF Show
<1>2. /\ stats \in Numbers /\ frame \in Numbers /\ shown \in Numbers
      /\ IsStats(stats) /\ IsStats(frame)
  BY DEF ScreenOK
<1>3. dash' \in [pc: DashPcs, loads: Nat, since: Nat] /\ dash'.loads = 0
  BY <1>1 DEF DashPcs
<1>4. ASSUME NEW p \in 1 .. 7, NEW c \in DOMAIN NewStats, c = Loads[p]
      PROVE  shown[c] <= frame[c] /\ frame[c] <= stats[c]
  <2>1. Between(c, p)
    BY <1>4, PlacesEach DEF ScreenOK, EachPlace
  <2> QED
    BY <1>1, <2>1 DEF Between
<1>5. ASSUME NEW p \in 1 .. 7 PROVE Between(Loads[p], p)'
  <2>1. PICK c \in DOMAIN NewStats : c = Loads[p]
    BY <1>5, LoadsDistinct
  <2>2. frame[c] <= stats[c]
    BY <1>4, <1>5, <2>1
  <2>3. shown'[c] <= stats'[c] /\ ~(dash'.loads >= p)
    BY <1>1, <1>3, <1>5, <2>2
  <2>4. Between(c, p)'
    BY <2>3 DEF Between
  <2> QED
    BY <2>1, <2>4 DEF Loads
<1>6. Places'
  <2>1. EachPlace'
    BY <1>5 DEF EachPlace
  <2> QED
    BY <2>1, PlacesEach, PTL
<1>7. FrameOK'
  <2>1. ~(dash'.loads > 0) /\ ~(dash'.loads >= 3)
    BY <1>3
  <2>2. /\ frame'.resumedAt \in {-1, start' - 1} /\ ~(frame'.resumedAt >= 0)
        /\ frame'.cursor <= start'
    BY <1>1, NewStatsFacts, Zenon
  <2>3. shown'.resumedAt \in {-1, start' - 1}
    BY <1>1, Zenon DEF ScreenOK, FrameOK
  <2> QED
    BY <2>1, <2>2, <2>3, Zenon DEF FrameOK
<1>8. FrameFits'
  <2>1. frame.resumedAt >= 0 => frame.session = 1
    BY <1>1 DEF ScreenOK, FrameOK
  <2>2. frame.cursor <= start \/ frame.cursor < start + frame.processed
    BY <1>1 DEF ScreenOK, FrameOK, LoadedProcessed
  <2>3. frame.cursor \in Int /\ start \in Int
    BY <1>2, LiveAssumption DEF Numbers, CountersOK
  <2> QED
    BY <1>1, <2>1, <2>2, <2>3 DEF FrameFits
<1>9. IsStats(stats)' /\ IsStats(frame)' /\ IsStats(shown)' /\ frame' \in Numbers
  BY <1>1, <1>2, NewStatsFacts, Zenon DEF IsStats
<1>10. ScreenOK'
  BY <1>1, <1>2, <1>3, <1>6, <1>7, <1>8, <1>9 DEF ScreenOK
<1>11. ASSUME NEW c \in DOMAIN NewStats PROVE shown[c] <= shown'[c]
  <2>1. PICK p \in 1 .. 7 : c = Loads[p]
    <3>1. /\ Loads[1] = "resumedAt" /\ Loads[2] = "cursor" /\ Loads[3] = "session"
          /\ Loads[4] = "processed" /\ Loads[5] = "valid" /\ Loads[6] = "hits"
          /\ Loads[7] = "errors"
      BY DEF Loads
    <3>2. c \in {"session", "resumedAt", "cursor", "processed", "valid", "hits", "errors"}
      BY <1>11 DEF NewStats
    <3> QED
      BY <3>1, <3>2
  <2> QED
    BY <1>1, <1>4, <2>1
<1> QED
  BY <1>10, <1>11

(* Between two frames nothing has been loaded.                             *)
LEMMA SelectKeeps ==
    ASSUME ScreenOK, UNCHANGED <<stats, frame, shown, mode, start>>, dash.pc = "select",
           NEW where \in DashPcs, dash' = [dash EXCEPT !.pc = where]
    PROVE  ScreenOK'
<1>1. dash \in [pc: DashPcs, loads: Nat, since: Nat] /\ dash.loads = 0
  BY DEF ScreenOK, FrameOK
<1>2. /\ dash' \in [pc: DashPcs, loads: Nat, since: Nat] /\ dash'.loads = 0
      /\ dash'.since = dash.since
  BY <1>1
<1>3. Places'
  BY <1>1, <1>2 DEF ScreenOK, Places, Between
<1>4. LoadedProcessed' = LoadedProcessed
  BY <1>1, <1>2 DEF LoadedProcessed
<1>5. FrameOK'
  BY <1>1, <1>2, <1>4 DEF ScreenOK, FrameOK
<1>6. FrameFits' /\ IsStats(stats)' /\ IsStats(frame)' /\ IsStats(shown)'
  BY DEF ScreenOK, FrameFits, IsStats
<1> QED
  BY <1>1, <1>2, <1>3, <1>5, <1>6 DEF ScreenOK

LEMMA ScreenSame ==
    ASSUME ScreenOK, UNCHANGED <<stats, screen, mode, start>>
    PROVE  ScreenOK'
<1>1. UNCHANGED <<stats, frame, shown, dash, mode, start>>
  BY DEF screen
<1>2. LoadedProcessed' = LoadedProcessed /\ Places'
  BY <1>1 DEF ScreenOK, LoadedProcessed, Places, Between
<1>3. FrameOK' /\ FrameFits' /\ IsStats(stats)' /\ IsStats(frame)' /\ IsStats(shown)'
  BY <1>1, <1>2, Zenon DEF ScreenOK, FrameOK, FrameFits, IsStats
<1> QED
  BY <1>1, <1>2, <1>3, Zenon DEF ScreenOK

LEMMA StoredSame ==
    ASSUME Stored, UNCHANGED <<stats, mode, start, pc>>
    PROVE  Stored'
BY Zenon DEF Stored

-----------------------------------------------------------------------------
(* Every step keeps the invariant.                                         *)

(* Load, Show and Repaint change the screen alone; only Show changes what  *)
(* is shown, and no number on the screen goes back.                        *)
LEMMA PaintKeeps ==
    ASSUME CountersOK, Stored, ScreenOK, Paint, UNCHANGED <<mode, start>>
    PROVE  /\ ScreenOK' /\ stats' = stats
           /\ shown' = shown \/ \A c \in DOMAIN NewStats : shown[c] <= shown'[c]
<1>1. CASE Load
  <2>1. start \in Int
    BY LiveAssumption DEF CountersOK
  <2> QED
    BY <1>1, <2>1, LoadKeeps DEF Load
<1>2. CASE Show
  BY <1>2, ShowKeeps DEF Show
<1>3. CASE Repaint
  <2>1. /\ UNCHANGED <<stats, frame, shown>> /\ dash.pc = "select"
        /\ dash' = [dash EXCEPT !.pc = "paint"] /\ "paint" \in DashPcs
    BY <1>3 DEF Repaint, DashPcs
  <2> QED
    BY <2>1, SelectKeeps
<1> QED
  BY <1>1, <1>2, <1>3 DEF Paint

LEMMA StepKeeps ==
    ASSUME Parts, [Next]_vars
    PROVE  /\ Parts'
           /\ shown' = shown \/ \A c \in DOMAIN NewStats : shown[c] <= shown'[c]
<1> USE DEF Parts
<1>1. CheckerOK /\ CountersOK /\ Stored /\ ScreenOK /\ stats \in Numbers
  BY DEF ScreenOK
<1>2. start \in Nat /\ stats.processed >= 0
  <2>1. stats.processed \in 0 .. Total
    BY <1>1, Zenon DEF ScreenOK, IsStats
  <2>2. start \in Candidates
    BY <1>1 DEF CountersOK
  <2> QED
    BY <2>1, <2>2, LiveAssumption
<1>3. CASE Prepare
  <2>1. UNCHANGED <<frame, shown, dash, mode, start>>
    BY <1>3 DEF Prepare, StoreSession, StoreResumedAt, StoreCursor, screen
  <2> QED
    BY <1>1, <1>2, <1>3, <2>1, PrepareKeeps, PrepareStores, StatsGrow
<1>4. CASE Try
  BY <1>1, <1>4, TryKeeps, StoredSame, ScreenSame DEF screen
<1>5. CASE Take
  <2>1. UNCHANGED <<stats, screen, mode, start, pc>>
    BY <1>5 DEF Take
  <2> QED
    BY <1>1, <1>2, <1>5, <2>1, TakeKeeps, StoredSame, ScreenSame DEF screen
<1>6. CASE Bump
  <2>1. UNCHANGED <<frame, shown, dash, mode, start>>
    BY <1>6 DEF Bump, screen
  <2> QED
    BY <1>1, <1>2, <1>6, <2>1, BumpKeeps, BumpStores, StatsGrow
<1>7. CASE Flush \/ Leave \/ FinalFlush
  <2>1. UNCHANGED <<frame, shown, dash, mode, start>>
    BY <1>7 DEF Flush, Leave, FinalFlush, screen
  <2> QED
    BY <1>1, <1>2, <1>7, <2>1, FlushKeeps, FlushStores, StatsGrow
<1>8. CASE PaintOn
  <2>1. Paint /\ UNCHANGED <<checking, cancelled, running>>
    BY <1>8 DEF PaintOn
  <2>2. UNCHANGED <<credit, call, watch, cancelled, mode, start, pc>>
    BY <2>1 DEF checking, running
  <2>3. /\ ScreenOK' /\ stats' = stats
        /\ shown' = shown \/ \A c \in DOMAIN NewStats : shown[c] <= shown'[c]
    BY <1>1, <2>1, <2>2, PaintKeeps
  <2>4. CheckerOK' /\ CountersOK' /\ Stored'
    BY <1>1, <2>1, <2>2, <2>3, CallUnchanged, CountersSame, StoredSame DEF CheckerOK
  <2> QED
    BY <2>3, <2>4
<1>9. CASE StopDashboard
  <2>1. /\ UNCHANGED <<credit, call, watch, cancelled, mode, start, pc, stats, frame, shown>>
        /\ UNCHANGED running /\ dash.pc = "select"
        /\ dash' = [dash EXCEPT !.pc = "done"] /\ "done" \in DashPcs
    BY <1>9 DEF StopDashboard, StopPainting, checking, running, DashPcs
  <2>2. CheckerOK' /\ CountersOK' /\ Stored'
    BY <1>1, <2>1, CallUnchanged, CountersSame, StoredSame DEF CheckerOK
  <2>3. ScreenOK'
    BY <1>1, <2>1, SelectKeeps
  <2> QED
    BY <2>1, <2>2, <2>3
<1>10. CASE TimePasses \/ StartWatching
  <2>1. UNCHANGED <<stats, screen, running, call>>
    BY <1>10 DEF TimePasses, Tick, StartWatching
  <2>2. UNCHANGED <<mode, start, pc, shown>>
    BY <2>1 DEF running, screen
  <2>3. CheckerOK'
    BY <1>1, <1>10, ClockTicks, WatchBegins DEF TimePasses
  <2>4. CountersOK' /\ Stored' /\ ScreenOK'
    BY <1>1, <2>1, <2>2, CountersSame, StoredSame, ScreenSame
  <2> QED
    BY <2>2, <2>3, <2>4
<1>11. CASE Cancel \/ Rest \/ UNCHANGED vars
  <2>1. UNCHANGED <<checking, stats, screen, running>> /\ cancelled' \in {cancelled, TRUE}
    BY <1>11 DEF Cancel, Rest, vars
  <2>2. UNCHANGED <<credit, call, watch, mode, start, pc, shown>>
    BY <2>1 DEF checking, running, screen
  <2>3. cancelled' \in BOOLEAN
    BY <1>1, <2>1 DEF CheckerOK
  <2>4. CheckerOK' /\ CountersOK' /\ Stored' /\ ScreenOK'
    BY <1>1, <2>1, <2>2, <2>3, CallUnchanged, CountersSame, StoredSame, ScreenSame
  <2> QED
    BY <2>2, <2>4
<1> QED
  BY <1>3, <1>4, <1>5, <1>6, <1>7, <1>8, <1>9, <1>10, <1>11 DEF Next, Count

LEMMA InitHolds == Init => Parts
<1> SUFFICES ASSUME Init PROVE Parts
  OBVIOUS
<1>1. /\ mode \in {"sweep", "walk"} /\ start \in Candidates
      /\ pc = "store session" /\ next = start
      /\ checked = <<>> /\ bumps = <<>> /\ batch = 0
      /\ stats = NewStats /\ frame = NewStats /\ shown = NewStats
  BY LiveAssumption DEF Init, DashboardInit
<1>9. batch = 0 /\ next = start
  BY <1>1
<1>2. /\ credit = Interval /\ call = NoCall /\ cancelled = FALSE
      /\ watch = [on |-> FALSE, time |-> 0, requests |-> 0]
  BY DEF Init, CheckerInit, NotWatching
<1>3. PICK where \in DashPcs : dash = [pc |-> where, loads |-> 0, since |-> 0]
  BY DEF Init, DashboardInit, DashPcs
<1>4. CheckerOK
  <2>1. Remaining = 0
    BY <1>2, NoCallFacts DEF Remaining
  <2>2. Pace
    <3>1. Budget = NAddresses * (1 + (0 \div Interval)) /\ 0 \div Interval = 0
      <4>1. Interval + 0 - Interval = 0
        BY CheckerAssumption
      <4> QED
        BY <1>2, <4>1, CheckerAssumption DEF Budget
    <3>2. 0 <= Budget
      BY <3>1, CheckerAssumption
    <3> QED
      BY <1>2, <2>1, <3>2 DEF Pace
  <2>3. Fetching
    BY <1>2, NoCallFacts, CountNone DEF Fetching
  <2>4. credit \in 0 .. Interval
    BY <1>2, CheckerAssumption
  <2>5. call.total <= call.fetched
    BY <1>2, NoCallFacts
  <2> QED
    BY <1>2, <2>2, <2>3, <2>4, <2>5 DEF CheckerOK
<1>5. CountersOK
  <2>1. start \in start .. Total /\ Total \in Nat /\ start \in Nat
    <3>1. start \in 0 .. Total - 1 /\ Total \in Nat
      BY <1>1, LiveAssumption
    <3> QED
      BY <3>1
  <2>2. checked \in Seq(ResultKinds) /\ Len(checked) = 0 /\ bumps \in Pending
    <3>1. <<>> \in Seq(ResultKinds) /\ Len(<<>>) = 0
      OBVIOUS
    <3>2. <<>> \in Pending
      BY DEF Pending
    <3> QED
      BY <1>1, <3>1, <3>2
  <2>3. /\ Owed("processed") = 0 /\ Owed("valid") = 0
        /\ Owed("hits") = 0 /\ Owed("errors") = 0
    BY <1>1, NothingOwed DEF Owed, Counters
  <2>4. /\ stats.processed = 0 /\ stats.valid = 0 /\ stats.hits = 0 /\ stats.errors = 0
    BY <1>1 DEF NewStats
  <2>5. call.pc = "none"
    BY <1>2, NoCallFacts
  <2>6. Counted
    <3>1. /\ stats.processed + Owed("processed") + Len(checked) = next - start
          /\ stats.valid + Owed("valid") <= stats.processed + Owed("processed")
          /\ stats.hits + Owed("hits") <= stats.valid + Owed("valid")
          /\ stats.errors + Owed("errors") <= stats.valid + Owed("valid")
      BY <1>9, <2>1, <2>2, <2>3, <2>4
    <3>2. ~(batch > 0)
      BY <1>9
    <3> QED
      BY <1>1, <2>2, <2>5, <3>1, <3>2, Zenon DEF Counted
  <2>7. OneByOne
    BY <1>1, <2>5 DEF OneByOne
  <2>8. Len(checked) <= BatchSize /\ batch \in 0 .. BatchSize
    <3>1. Len(checked) = 0
      BY <2>2
    <3> QED
      BY <1>9, <3>1, LiveAssumption
  <2> QED
    BY <1>1, <2>1, <2>6, <2>7, <2>8 DEF CountersOK, Pcs
<1>6. /\ NewStats \in Numbers /\ IsStats(NewStats) /\ NewStats.resumedAt = -1
      /\ NewStats.cursor = NilCursor /\ NewStats.cursor <= start
      /\ ~(NewStats.resumedAt >= 0) /\ -1 \in {-1, start - 1}
  BY <1>5, NewStatsFacts DEF NewStats
<1>7. Stored
  BY <1>1, <1>6, Zenon DEF Stored, Stores
<1>8. ScreenOK
  <2>1. dash \in [pc: DashPcs, loads: Nat, since: Nat] /\ dash.loads = 0
    BY <1>3
  <2>2. Places
    <3>1. \A c \in DOMAIN NewStats : NewStats[c] <= NewStats[c]
      BY <1>6 DEF Numbers, NewStats
    <3> QED
      BY <1>1, <2>1, <3>1 DEF Places, Between, NewStats
  <2>3. FrameOK
    <3>1. ~(dash.loads > 0) /\ ~(dash.loads >= 3)
      BY <2>1
    <3> QED
      BY <1>1, <1>6, <3>1, Zenon DEF FrameOK
  <2>4. FrameFits
    <3>1. ~(NewStats.cursor > start)
      <4>1. NewStats.cursor \in Int /\ start \in Int
        <5>1. stats \in Numbers
          BY <1>1, <1>6, Zenon
        <5>2. start \in Int
          BY <1>5, <5>1, CountersType
        <5>3. NilCursor \in Int
          BY DEF NilCursor
        <5> QED
          BY <1>6, <5>2, <5>3, Zenon
      <4> QED
        BY <1>6, <4>1
    <3> QED
      BY <1>1, <1>6, <3>1 DEF FrameFits
  <2> QED
    <3>1. dash.loads <= 7
      BY <2>1
    <3> QED
      BY <1>1, <1>6, <2>1, <2>2, <2>3, <2>4, <3>1, Zenon DEF ScreenOK
<1> QED
  BY <1>4, <1>5, <1>7, <1>8 DEF Parts

-----------------------------------------------------------------------------
(* The theorems.                                                           *)

(* What every step keeps: the variables have their types; the balances,    *)
(* the tokens of the limiter and the candidates on their way to the        *)
(* counters add up; and a frame is read in an order in which each number   *)
(* it shows is covered by one that is read later (CheckAddresses, check,   *)
(* logResults, Walk and snapshot, in any interleaving).                    *)
THEOREM LiveInductive == Spec => []IndInv
<1>1. Init => IndInv
  BY InitHolds, Split
<1>2. IndInv /\ [Next]_vars => IndInv'
  <2>1. ASSUME Parts, [Next]_vars PROVE Parts'
    BY <2>1, StepKeeps
  <2>2. Parts' => IndInv'
    BY Split, PTL
  <2> QED
    BY <2>1, <2>2, Split
<1> QED
  BY <1>1, <1>2, PTL DEF Spec

(* The types, the batch and the channel between check and logResults.      *)
THEOREM LiveTypeCorrect == Spec => []TypeOK
<1>1. IndInv => TypeOK
  BY Zenon DEF IndInv
<1> QED
  BY <1>1, LiveInductive, PTL

(* CheckAddresses returns the balance of all addresses or an error: a      *)
(* candidate whose lookup failed half-way is never logged as empty.        *)
THEOREM LiveAnswerComplete == Spec => []AnswerComplete
<1>1. Parts => AnswerComplete
  <2> SUFFICES ASSUME Parts, call.pc = "returned", Result # "error"
               PROVE  /\ call.total = Cardinality(Holding[call.of])
                      /\ Result = "funded" <=> Holding[call.of] # {}
    BY DEF AnswerComplete
  <2>1. ~call.failed
    BY DEF Result
  <2>2. call.of \in Candidates /\ call.fetched = NAddresses /\ call.total \in Nat
    BY <2>1 DEF Parts, CheckerOK, Fetching, Call
  <2>3. call.total = Cardinality(Holding[call.of] \cap 1 .. NAddresses)
    BY <2>1, <2>2 DEF Parts, CheckerOK, Fetching
  <2>4. call.total = Cardinality(Holding[call.of])
    BY <2>2, <2>3, CountAll
  <2>5. call.total = 0 <=> Holding[call.of] = {}
    BY <2>2, <2>4, CountAll
  <2>6. Result = "funded" <=> call.total > 0
    BY <2>1 DEF Result
  <2> QED
    BY <2>2, <2>4, <2>5, <2>6
<1> QED
  BY <1>1, Split, LiveInductive, PTL

(* The token bucket of the checker: whatever happens in between, upstream  *)
(* sees no more requests in a stretch of time than its tokens pay for.     *)
THEOREM LiveRequestsPaced == Spec => []RequestsPaced
<1>1. Parts => RequestsPaced
  <2> SUFFICES ASSUME Parts PROVE RequestsPaced
    OBVIOUS
  <2>1. PICK t \in Nat, r \in Nat, i \in Nat :
          /\ t = watch.time /\ r = watch.requests
          /\ i = credit
    BY CheckerAssumption DEF Parts, CheckerOK, Pace
  <2>2. PICK q \in Int : q = t \div Interval /\ Interval \in Nat \ {0}
    BY CheckerAssumption, DivMonotone
  <2>3. PICK p \in Int : p = (Interval + t - i) \div Interval /\ p <= 1 + q
    <3>1. Interval + t - i \in Int /\ Interval + t \in Int /\ Interval + t - i <= Interval + t
      BY <2>1, <2>2
    <3>2. (Interval + t) \div Interval = 1 + q
      <4>1. t \in Int
        OBVIOUS
      <4> QED
        BY <2>2, <4>1, DivStep
    <3> QED
      BY <2>2, <3>1, <3>2, DivMonotone
  <2>4. PICK b \in Int : b = NAddresses * (1 + p) /\ Budget = b
    BY <2>1, <2>3, CheckerAssumption DEF Budget
  <2>5. b <= NAddresses * (2 + q) /\ NAddresses * (2 + q) \in Int
    BY <2>2, <2>3, <2>4, CheckerAssumption, TimesMonotone
  <2>6. r <= b
    <3>1. CheckerOK
      BY DEF Parts
    <3>2. Remaining \in 0 .. NAddresses
      BY <3>1, RemainingFacts
    <3>3. r + Remaining <= b
      BY <2>1, <2>4, <3>1 DEF CheckerOK, Pace
    <3> QED
      BY <3>2, <3>3, CheckerAssumption
  <2>7. r <= NAddresses * (2 + q)
    BY <2>4, <2>5, <2>6
  <2> QED
    BY <2>1, <2>2, <2>7 DEF RequestsPaced
<1> QED
  BY <1>1, Split, LiveInductive, PTL

(* snapshot's loads, one after the other while the run goes on, give a     *)
(* number of attempts that the run had between the first and the last.     *)
THEOREM LiveAttemptsBetween == Spec => []AttemptsBetween
<1>1. Parts => AttemptsBetween
  <2> SUFFICES ASSUME Parts, dash.pc = "paint", dash.loads = 7
               PROVE  /\ (IF frame.resumedAt >= 0 THEN start ELSE 0) + dash.since
                           <= Attempts(frame)
                      /\ Attempts(frame) <= start + stats.processed
    BY LoadsDistinct DEF AttemptsBetween
  <2>0. PICK none \in Int, one \in Int : none = -1 /\ one = 1
    OBVIOUS
  <2>1. CountersOK /\ Stored /\ ScreenOK /\ stats \in Numbers
    BY DEF Parts, ScreenOK
  <2>2. PICK s \in Nat, n \in Nat, p \in Int :
          s = start /\ n = next /\ p = stats.processed /\ n <= Total /\ Total \in Nat
    BY <2>1, CountersType DEF Numbers
  <2>3. PICK f \in Int, r \in Int, d \in Nat :
          f = frame.processed /\ r = frame.resumedAt /\ d = dash.since
    BY <2>1 DEF ScreenOK, Numbers
  <2>4. f <= p
    BY <2>1, <2>2, <2>3 DEF ScreenOK, Places, Between
  <2>5. s + p <= n
    BY <2>1, <2>2, CountsBounded DEF Bounded, StatsTyped
  <2>6. d <= f
    BY <2>1, <2>3 DEF ScreenOK, FrameOK, LoadedProcessed
  <2>7. r \in {none, s - 1}
    BY <2>0, <2>1, <2>2, <2>3, Zenon DEF ScreenOK, FrameOK
  <2>8. PICK a \in Int : a = IF r >= 0 THEN r + one + f ELSE f
    OBVIOUS
  <2>9. a <= s + p /\ a <= Total /\ (IF r >= 0 THEN s ELSE 0) + d <= a
    BY <2>0, <2>2, <2>4, <2>5, <2>6, <2>7, <2>8
  <2>10. Attempts(frame) = a
    BY <2>0, <2>2, <2>3, <2>8, <2>9 DEF Attempts
  <2> QED
    BY <2>2, <2>3, <2>9, <2>10
<1> QED
  BY <1>1, Split, LiveInductive, PTL

(* A frame put together of loads that are far apart never shows a resumed  *)
(* run without its session, nor a cursor beyond what it says was tried.    *)
THEOREM LiveFrameFits == Spec => []FrameFits
<1>1. IndInv => FrameFits
  BY Zenon DEF IndInv
<1> QED
  BY <1>1, LiveInductive, PTL

(* A frame on the screen gives way to one that shows no smaller number,    *)
(* nor fewer attempts.                                                     *)
Forward ==
    /\ \A counter \in DOMAIN shown : shown[counter] <= shown'[counter]
    /\ Attempts(shown) <= Attempts(shown')

LEMMA AttemptsForward ==
    ASSUME ScreenOK, ScreenOK', start \in Nat, start' = start, Total \in Nat,
           shown.resumedAt <= shown'.resumedAt, shown.processed <= shown'.processed
    PROVE  Attempts(shown) <= Attempts(shown')
<1>0. PICK none \in Int, one \in Int : none = -1 /\ one = 1
  OBVIOUS
<1>1. PICK f \in Int, g \in Int, r \in Int, q \in Int :
        /\ f = shown.processed /\ g = shown'.processed
        /\ r = shown.resumedAt /\ q = shown'.resumedAt
  BY DEF ScreenOK, Numbers
<1>2. r \in {none, start - 1} /\ q \in {none, start - 1}
  BY <1>0, <1>1, Zenon DEF ScreenOK, FrameOK
<1>3. PICK a \in Int, b \in Int :
        /\ a = IF r >= 0 THEN r + one + f ELSE f
        /\ b = IF q >= 0 THEN q + one + g ELSE g
  OBVIOUS
<1>4. a <= b
  BY <1>0, <1>1, <1>2, <1>3
<1>5. /\ Attempts(shown) = IF a > Total THEN Total ELSE a
      /\ Attempts(shown') = IF b > Total THEN Total ELSE b
  BY <1>0, <1>1, <1>3 DEF Attempts
<1> QED
  BY <1>4, <1>5

(* From frame to frame of the dashboard no number goes back, sessions that *)
(* begin, flushes and results that are counted in between included.        *)
THEOREM LiveFramesForward == Spec => FramesForward
<1>1. ASSUME Parts, [Next]_vars PROVE [Forward]_shown
  <2>1. Parts' /\ (shown' = shown \/ \A c \in DOMAIN NewStats : shown[c] <= shown'[c])
    BY <1>1, StepKeeps
  <2>2. ASSUME \A c \in DOMAIN NewStats : shown[c] <= shown'[c] PROVE Forward
    <3>1. DOMAIN shown = DOMAIN NewStats
      BY <1>1 DEF Parts, ScreenOK, Numbers, NewStats
    <3>2. start' = start
      BY <1>1 DEF Next, Prepare, StoreSession, StoreResumedAt, StoreCursor,
                  Try, TryInvalid, TryValid, LookupDone, LookupOn, Deliver,
                  Count, Take, Bump, Flush, Leave, FinalFlush, PaintOn, StopDashboard,
                  TimePasses, StartWatching, Cancel, Rest, vars, running
    <3>3. start \in Nat /\ Total \in Nat
      BY <1>1, LiveAssumption DEF Parts, CountersOK
    <3>4. shown.resumedAt <= shown'.resumedAt /\ shown.processed <= shown'.processed
      BY <2>2 DEF NewStats
    <3>5. Attempts(shown) <= Attempts(shown')
      BY <1>1, <2>1, <3>2, <3>3, <3>4, AttemptsForward DEF Parts
    <3> QED
      BY <2>2, <3>1, <3>5 DEF Forward
  <2> QED
    BY <2>1, <2>2
<1>2. Parts /\ [Next]_vars => [Forward]_shown
  BY <1>1
<1>3. FramesForward <=> [][Forward]_shown
  BY PTL DEF FramesForward, Forward
<1> QED
  BY <1>2, <1>3, Split, LiveInductive, PTL DEF Spec
=============================================================================
