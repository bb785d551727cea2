-------------------------- MODULE RepositoryProofs --------------------------
(***************************************************************************)
(* What the statements of the store do to a well-formed sessions table.    *)
(***************************************************************************)
EXTENDS Repository, WellFoundedInduction, TLAPS

TableOK ==
    /\ lastId \in Nat /\ DOMAIN sessions = 1 .. lastId
    /\ \A id \in DOMAIN sessions : sessions[id] \in Row

(* A non-empty set of session ids has a highest one.                       *)
LEMMA HighestExists ==
    ASSUME NEW n \in Nat, NEW S, S \subseteq 1 .. n, S # {}
    PROVE  \E m \in S : \A x \in S : x <= m
<1> DEFINE T == {n - x : x \in S}
<1>1. \A x \in S : x \in Int /\ n - x \in Nat
  OBVIOUS
<1>2. T \subseteq Nat /\ T # {}
  BY <1>1
<1>3. PICK t \in T : \A u \in T : ~ (<<u, t>> \in OpToRel(<, Nat))
  <2> HIDE DEF T
  <2> QED
    BY <1>2, WFMin, NatLessThanWellFounded
<1>4. PICK m \in S : t = n - m
  OBVIOUS
<1>5. ASSUME NEW x \in S PROVE x <= m
  <2>1. ~ (<<n - x, n - m>> \in OpToRel(<, Nat))
    BY <1>3, <1>4
  <2>2. ~ (n - x < n - m)
    BY <2>1, <1>1 DEF OpToRel
  <2> QED
    BY <2>2, <1>1
<1> QED
  BY <1>5

(* What Resume and BeginSession look up is one of the resumable sessions   *)
(* of the signature.                                                       *)
LEMMA LatestIsResumable ==
    ASSUME TableOK, NEW s, ResumableIds(s) # {}
    PROVE  LatestId(ResumableIds(s)) \in ResumableIds(s)
<1> DEFINE S == ResumableIds(s)
<1>1. S \subseteq 1 .. lastId /\ lastId \in Nat
  BY DEF ResumableIds, TableOK
<1>2. \E m \in S : \A x \in S : x <= m
  <2> HIDE DEF S
  <2> QED
    BY <1>1, HighestExists DEF S
<1> QED
  BY <1>2 DEF LatestId

(* After BeginSession the session it returns is running, has the           *)
(* signature and the new metadata, and is the only resumable one of its    *)
(* signature; its progress is what it was.                                 *)
Begun(id0, s, m, mode, cur) ==
    /\ TableOK' /\ UniqueResumable' /\ attempts' = attempts
    /\ DOMAIN sessions' = DOMAIN sessions \cup {id0} /\ id0 \in Nat \ {0}
    /\ \A id \in DOMAIN sessions : id # id0 => sessions'[id] = sessions[id]
    /\ sessions'[id0].status = "running" /\ sessions'[id0].sig = s
    /\ sessions'[id0].mode = mode /\ sessions'[id0].cursor = cur
    /\ sessions'[id0].meta = m
    /\ ResumableIds(s) = {} =>
         id0 \notin DOMAIN sessions /\ sessions'[id0].last = -1
    /\ ResumableIds(s) # {} =>
         /\ id0 \in ResumableIds(s)
         /\ sessions'[id0].last = sessions[id0].last

LEMMA BeginFacts ==
    ASSUME TableOK, UniqueResumable,
           NEW s \in Signatures, NEW m \in Metas, NEW mode \in Modes,
           NEW cur \in Cursors, NEW now \in Nat, NEW id0,
           id0 = BeginSessionId(s),
           BeginSession([sig |-> s, meta |-> m, mode |-> mode, cursor |-> cur], now)
    PROVE  Begun(id0, s, m, mode, cur)
<1> DEFINE init == [sig |-> s, meta |-> m, mode |-> mode, cursor |-> cur]
<1>1. init.sig = s /\ init.meta = m /\ init.mode = mode /\ init.cursor = cur
  OBVIOUS
<1>2. BeginSession(init, now)
  OBVIOUS
<1>3. "running" \in Statuses /\ -1 \in Int
  BY DEF Statuses
<1> HIDE DEF init
<1>4. CASE ResumableIds(s) = {}
  <2> DEFINE row == [sig |-> s, meta |-> m, mode |-> mode, cursor |-> cur,
                     last |-> -1, status |-> "running", startedAt |-> now]
  <2>1. /\ lastId' = lastId + 1 /\ attempts' = attempts
        /\ sessions' = [id \in DOMAIN sessions \cup {lastId + 1} |->
                          IF id \in DOMAIN sessions THEN sessions[id] ELSE row]
    BY <1>1, <1>2, <1>4 DEF BeginSession, InsertSession, NewRow
  <2>2. id0 = lastId + 1
    BY <1>4 DEF BeginSessionId
  <2>3. row \in Row /\ row.last = -1 /\ row.sig = s /\ row.status = "running"
        /\ row.mode = mode /\ row.cursor = cur /\ row.meta = m
    BY <1>3, Zenon DEF Row
  <2> HIDE DEF row
  <2>4. /\ id0 \notin DOMAIN sessions /\ id0 \in Nat \ {0}
        /\ DOMAIN sessions' = 1 .. lastId' /\ lastId' \in Nat
        /\ DOMAIN sessions' = DOMAIN sessions \cup {id0}
    BY <2>1, <2>2 DEF TableOK
  <2>5. sessions'[id0] = row /\ \A id \in DOMAIN sessions : sessions'[id] = sessions[id]
    BY <2>1, <2>2, <2>4
  <2>6. TableOK'
    BY <2>3, <2>4, <2>5 DEF TableOK
  <2>7. UniqueResumable'
    <3>1. \A id \in DOMAIN sessions : sessions[id].sig = s => ~Resumable(id)
      BY <1>4 DEF ResumableIds
    <3>2. \A id \in DOMAIN sessions : Resumable(id)' = Resumable(id)
      BY <2>5 DEF Resumable
    <3>3. ASSUME NEW a \in DOMAIN sessions', NEW b \in DOMAIN sessions',
                 Resumable(a)', Resumable(b)', sessions'[a].sig = sessions'[b].sig
          PROVE  a = b
      <4>1. CASE a \in DOMAIN sessions /\ b \in DOMAIN sessions
        BY <2>5, <3>2, <3>3, <4>1 DEF UniqueResumable
      <4>2. CASE a = id0 /\ b \in DOMAIN sessions
        BY <2>3, <2>5, <3>1, <3>2, <3>3, <4>2
      <4>3. CASE b = id0 /\ a \in DOMAIN sessions
        BY <2>3, <2>5, <3>1, <3>2, <3>3, <4>3
      <4> QED
        BY <2>4, <4>1, <4>2, <4>3
    <3> QED
      BY <3>3 DEF UniqueResumable
  <2> QED
    BY <1>4, <2>1, <2>3, <2>4, <2>5, <2>6, <2>7 DEF Begun
<1>5. CASE ResumableIds(s) # {}
  <2>1. id0 \in ResumableIds(s)
    BY <1>5, LatestIsResumable DEF BeginSessionId
  <2>2. id0 \in DOMAIN sessions /\ sessions[id0].sig = s /\ Resumable(id0)
        /\ sessions[id0] \in Row /\ id0 \in Nat \ {0}
    BY <2>1 DEF ResumableIds, TableOK
  <2>3. /\ UNCHANGED <<attempts, lastId>>
        /\ sessions' = [sessions EXCEPT ![id0].status = "running",
                                        ![id0].meta = m,
                                        ![id0].mode = mode,
                                        ![id0].cursor = cur]
    BY <1>1, <1>2, <1>5 DEF BeginSession, ReuseSession
  <2>4. /\ DOMAIN sessions' = DOMAIN sessions
        /\ \A id \in DOMAIN sessions : id # id0 => sessions'[id] = sessions[id]
        /\ sessions'[id0] = [sessions[id0] EXCEPT !.status = "running", !.meta = m,
                                                  !.mode = mode, !.cursor = cur]
    BY <2>2, <2>3 DEF Row
  <2>5. /\ sessions'[id0] \in Row /\ sessions'[id0].status = "running"
        /\ sessions'[id0].sig = s /\ sessions'[id0].mode = mode
        /\ sessions'[id0].cursor = cur /\ sessions'[id0].meta = m
        /\ sessions'[id0].last = sessions[id0].last
    BY <1>3, <2>2, <2>4 DEF Row
  <2>6. TableOK'
    BY <2>3, <2>4, <2>5 DEF TableOK
  <2>7. UniqueResumable'
    <3>1. \A id \in DOMAIN sessions : Resumable(id)' => Resumable(id)
      BY <2>2, <2>4 DEF Resumable
    <3>2. \A id \in DOMAIN sessions : sessions'[id].sig = sessions[id].sig
      BY <2>2, <2>4, <2>5
    <3> QED
      BY <2>4, <3>1, <3>2 DEF UniqueResumable
  <2> QED
    BY <1>5, <2>1, <2>2, <2>3, <2>4, <2>5, <2>6, <2>7 DEF Begun
<1> QED
  BY <1>4, <1>5

(* EndSession and MarkPausedAsCompleted change statuses, and bring no      *)
(* session back.                                                           *)
StatusOnly ==
    /\ UNCHANGED <<attempts, lastId>> /\ DOMAIN sessions' = DOMAIN sessions
    /\ \A id \in DOMAIN sessions :
         /\ sessions'[id].sig = sessions[id].sig
         /\ sessions'[id].mode = sessions[id].mode
         /\ sessions'[id].cursor = sessions[id].cursor
         /\ sessions'[id].last = sessions[id].last

LEMMA EndFacts ==
    ASSUME TableOK, UniqueResumable, NEW id0 \in DOMAIN sessions, Resumable(id0),
           NEW status \in {"paused", "completed"}, EndSession(id0, status)
    PROVE  TableOK' /\ UniqueResumable' /\ StatusOnly
<1>1. /\ UNCHANGED <<attempts, lastId>>
      /\ sessions' = [sessions EXCEPT ![id0].status = status]
  BY DEF EndSession
<1>2. /\ DOMAIN sessions' = DOMAIN sessions
      /\ \A id \in DOMAIN sessions : id # id0 => sessions'[id] = sessions[id]
      /\ sessions'[id0] = [sessions[id0] EXCEPT !.status = status]
      /\ sessions[id0] \in Row
  BY <1>1 DEF TableOK
<1>3. /\ sessions'[id0] \in Row /\ sessions'[id0].sig = sessions[id0].sig
      /\ sessions'[id0].mode = sessions[id0].mode
      /\ sessions'[id0].cursor = sessions[id0].cursor
      /\ sessions'[id0].last = sessions[id0].last
  BY <1>2 DEF Row, Statuses
<1>4. TableOK'
  BY <1>1, <1>2, <1>3 DEF TableOK
<1>5. \A id \in DOMAIN sessions : Resumable(id)' => Resumable(id)
  BY <1>2 DEF Resumable
<1>6. UniqueResumable'
  BY <1>2, <1>3, <1>5 DEF UniqueResumable
<1> QED
  BY <1>1, <1>2, <1>3, <1>4, <1>6 DEF StatusOnly

LEMMA MarkFacts ==
    ASSUME TableOK, UniqueResumable, NEW s, MarkPausedAsCompleted(s)
    PROVE  TableOK' /\ UniqueResumable' /\ StatusOnly
<1>1. /\ UNCHANGED <<attempts, lastId>> /\ DOMAIN sessions' = DOMAIN sessions
      /\ \A id \in DOMAIN sessions :
           \/ sessions'[id] = sessions[id]
           \/ sessions'[id] = [sessions[id] EXCEPT !.status = "completed"]
  BY DEF MarkPausedAsCompleted
<1>2. \A id \in DOMAIN sessions :
        /\ sessions'[id] \in Row /\ sessions'[id].sig = sessions[id].sig
        /\ sessions'[id].mode = sessions[id].mode
        /\ sessions'[id].cursor = sessions[id].cursor
        /\ sessions'[id].last = sessions[id].last
        /\ Resumable(id)' => Resumable(id)
  BY <1>1 DEF TableOK, Row, Statuses, Resumable
<1>3. TableOK'
  BY <1>1, <1>2 DEF TableOK
<1>4. UniqueResumable'
  BY <1>1, <1>2 DEF UniqueResumable
<1> QED
  BY <1>1, <1>2, <1>3, <1>4 DEF StatusOnly
=============================================================================
