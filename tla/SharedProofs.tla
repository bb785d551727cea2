---------------------------- MODULE SharedProofs ----------------------------
(***************************************************************************)
(* Proofs about SharedStore, for any number of processes, runs, signatures *)
(* and migrations, any wordlist length and any batch size.                 *)
(***************************************************************************)
EXTENDS SharedProperties, RepositoryProofs, SequenceTheorems, FiniteSetTheorems

-----------------------------------------------------------------------------
(* The invariant, split in what it says of the tables and of each process. *)

StoreOK ==
    /\ lastId \in Nat /\ DOMAIN sessions \subseteq 1 .. lastId
    /\ \A id \in DOMAIN sessions :
         sessions[id] \in Row /\ sessions[id].last \in -1 .. WordlistSize - 1
    /\ attempts \in Seq(Attempt(Indices))
    /\ \A k \in DOMAIN attempts : Exists(attempts[k].session)
    /\ NothingSkipped
    /\ columns = NoTable \/ columns \subseteq AllColumns
    /\ runs \in 0 .. MaxRuns /\ torn \in BOOLEAN

OpenOK(p) ==
    /\ proc[p].pc \notin {"idle"} \cup Opening => columns = AllColumns
    /\ proc[p].pc \notin {"idle", "schema"} =>
         /\ columns \in SUBSET AllColumns /\ proc[p].step >= 1
         /\ \A k \in DOMAIN Migrations :
              k < proc[p].step => Migrations[k] \in columns

SessionOK(p) ==
    /\ proc[p].sid <= lastId /\ proc[p].found <= lastId
    /\ \A id \in {proc[p].sid, proc[p].found} \cap DOMAIN sessions :
         sessions[id].sig = proc[p].sig

PlaceOK(p) ==
    /\ At(p, "checkpoint") => proc[p].top \in Indices
    /\ torn \/ (Relies(p) => \A i \in 0 .. Place(p) - 1 : LoggedFor(proc[p].sig, i))

LocalOK(p) == proc[p] \in Process /\ OpenOK(p) /\ SessionOK(p) /\ PlaceOK(p)

Parts ==
    /\ StoreOK /\ proc = [p \in Processes |-> proc[p]]
    /\ \A p \in Processes : LocalOK(p)

LEMMA Split == SharedInv <=> Parts
<1>1. SharedInv => StoreOK /\ proc = [p \in Processes |-> proc[p]]
  BY DEF SharedInv, StoreOK, TypeOK, RowsHeld
<1>2. ASSUME SharedInv, NEW p \in Processes PROVE LocalOK(p)
  <2>1. proc[p] \in Process
    BY <1>2 DEF SharedInv, TypeOK
  <2>2. OpenOK(p)
    BY <1>2 DEF SharedInv, SchemaReady, MigratedSoFar, OpenOK
  <2>3. SessionOK(p)
    BY <1>2 DEF SharedInv, TypeOK, OwnSignature, SessionOK
  <2>4. PlaceOK(p)
    BY <1>2 DEF SharedInv, RowsHeld, PlacesLogged, PlaceOK
  <2> QED
    BY <2>1, <2>2, <2>3, <2>4 DEF LocalOK
<1>3. ASSUME StoreOK, proc = [p \in Processes |-> proc[p]],
             \A p \in Processes : LocalOK(p)
      PROVE  SharedInv
  <2>1. TypeOK
    BY <1>3 DEF StoreOK, LocalOK, SessionOK, TypeOK
  <2>2. SchemaReady /\ MigratedSoFar
    BY <1>3 DEF LocalOK, OpenOK, SchemaReady, MigratedSoFar
  <2>3. RowsHeld
    BY <1>3 DEF StoreOK, LocalOK, PlaceOK, RowsHeld
  <2>4. OwnSignature
    BY <1>3 DEF LocalOK, SessionOK, OwnSignature
  <2>5. torn \/ PlacesLogged
    BY <1>3 DEF LocalOK, PlaceOK, PlacesLogged
  <2>6. NothingSkipped
    BY <1>3 DEF StoreOK
  <2> QED
    BY <2>1, <2>2, <2>3, <2>4, <2>5, <2>6 DEF SharedInv
<1> QED
  BY <1>1, <1>2, <1>3 DEF Parts

-----------------------------------------------------------------------------
(* What one process's step may do under the feet of another.               *)

(* Only p moves.                                                           *)
Moves(p) ==
    /\ proc' = [q \in Processes |-> proc'[q]]
    /\ \A q \in Processes \ {p} : proc'[q] = proc[q]

(* Ids do not come back, sessions keep their signature, columns and what   *)
(* is logged are only added to.                                            *)
Growth ==
    /\ lastId <= lastId' /\ torn' = torn
    /\ \A id \in DOMAIN sessions' :
         id <= lastId => id \in DOMAIN sessions /\ sessions'[id].sig = sessions[id].sig
    /\ \A sig, i : LoggedFor(sig, i) => LoggedFor(sig, i)'
    /\ \/ columns' = columns
       \/ /\ columns' \in SUBSET AllColumns
          /\ columns \in SUBSET AllColumns => columns \subseteq columns'

LEMMA OthersKept ==
    ASSUME StoreOK, StoreOK', Growth, NEW q \in Processes, LocalOK(q),
           proc'[q] = proc[q]
    PROVE  LocalOK(q)'
<1>1. proc[q] \in Process /\ proc[q].sid \in Nat /\ proc[q].found \in Nat
  BY DEF LocalOK, Process
<1>2. OpenOK(q)'
  BY DEF LocalOK, OpenOK, Growth, Opening
<1>3. SessionOK(q)'
  BY <1>1 DEF LocalOK, SessionOK, Growth, StoreOK
<1>4. PlaceOK(q)'
  <2>1. Relies(q)' => Relies(q)
    BY <1>1 DEF Relies, At, Exists, Growth, LocalOK, SessionOK
  <2>2. Place(q)' = Place(q) /\ (At(q, "checkpoint")' <=> At(q, "checkpoint"))
    BY DEF Place, At
  <2> QED
    BY <2>1, <2>2 DEF LocalOK, PlaceOK, Growth
<1> QED
  BY <1>1, <1>2, <1>3, <1>4 DEF LocalOK

(* So a step is done with once its own process and the tables are.         *)
LEMMA Assemble ==
    ASSUME SharedInv, NEW p \in Processes, Moves(p), Growth, StoreOK', LocalOK(p)'
    PROVE  SharedInv'
<1>1. StoreOK /\ \A q \in Processes : LocalOK(q)
  BY Split DEF Parts
<1>2. \A q \in Processes : LocalOK(q)'
  BY <1>1, OthersKept DEF Moves
<1>3. Parts'
  BY <1>2 DEF Moves, Parts
<1> QED
  BY <1>3, Split, PTL

(* Statements that leave signatures, checkpoints and attempts as they are. *)
Touches ==
    /\ UNCHANGED <<attempts, lastId, columns, torn>> /\ runs' \in 0 .. MaxRuns
    /\ DOMAIN sessions' = DOMAIN sessions
    /\ \A id \in DOMAIN sessions :
         /\ sessions'[id] \in Row
         /\ sessions'[id].sig = sessions[id].sig
         /\ sessions'[id].last = sessions[id].last

LEMMA TouchFacts ==
    ASSUME StoreOK, Touches
    PROVE  StoreOK' /\ Growth /\ \A sig, i : LoggedFor(sig, i)' <=> LoggedFor(sig, i)
<1>1. \A sig, i : LoggedFor(sig, i)' <=> LoggedFor(sig, i)
  BY DEF Touches, LoggedFor
<1>2. NothingSkipped'
  BY <1>1 DEF StoreOK, NothingSkipped, Touches
<1>3. StoreOK'
  BY <1>2 DEF StoreOK, Touches, Exists
<1>4. Growth
  BY <1>1 DEF Growth, Touches, StoreOK
<1> QED
  BY <1>1, <1>3, <1>4

LEMMA UntouchedTouches ==
    ASSUME StoreOK, UNCHANGED <<storage, columns, torn>>, runs' \in 0 .. MaxRuns
    PROVE  Touches
BY DEF StoreOK, storage, Touches

LEMMA IdleProcess == Idle \in Process
<1>1. AnySig \in Signatures /\ Len(Migrations) \in Nat
  BY SharedAssumption DEF AnySig
<1> QED
  BY <1>1, SharedAssumption DEF Idle, Process, Pcs, Jobs

(* A process that has returned relies on nothing.                          *)
LEMMA IdleOK ==
    ASSUME StoreOK', NEW p \in Processes, proc'[p] = Idle
    PROVE  LocalOK(p)'
<1>1. Idle \in Process
  BY IdleProcess
<1>2. OpenOK(p)' /\ PlaceOK(p)'
  BY DEF Idle, OpenOK, PlaceOK, Relies, At
<1>3. SessionOK(p)'
  BY DEF Idle, SessionOK, StoreOK
<1> QED
  BY <1>1, <1>2, <1>3 DEF LocalOK

LEMMA ReturnMoves ==
    ASSUME SharedInv, NEW p \in Processes, Return(p)
    PROVE  Moves(p) /\ proc'[p] = Idle
BY DEF SharedInv, TypeOK, Return, Moves

LEMMA GotoMoves ==
    ASSUME SharedInv, NEW p \in Processes, NEW pc, Goto(p, pc)
    PROVE  /\ Moves(p) /\ proc'[p] = [proc[p] EXCEPT !.pc = pc]
           /\ proc'[p].pc = pc /\ proc'[p].sig = proc[p].sig
           /\ proc'[p].step = proc[p].step /\ proc'[p].next = proc[p].next
           /\ proc'[p].found = proc[p].found /\ proc'[p].sid = proc[p].sid
           /\ proc'[p].top = proc[p].top
           /\ pc \in Pcs => proc'[p] \in Process
<1>1. proc \in [Processes -> Process]
  BY DEF SharedInv, TypeOK
<1>2. Moves(p) /\ proc'[p] = [proc[p] EXCEPT !.pc = pc]
  BY <1>1 DEF Goto, Moves
<1> QED
  BY <1>1, <1>2 DEF Process

LEMMA Known ==
    ASSUME SharedInv, NEW p \in Processes
    PROVE  /\ StoreOK /\ LocalOK(p) /\ proc \in [Processes -> Process]
           /\ runs \in 0 .. MaxRuns
           /\ lastId \in Nat /\ proc[p].sid \in Nat /\ proc[p].found \in Nat
           /\ proc[p].next \in 0 .. WordlistSize /\ proc[p].sig \in Signatures
           /\ proc[p] \in Process /\ proc[p].step \in 0 .. Len(Migrations) + 1
           /\ WordlistSize \in Nat \ {0} /\ Len(Migrations) \in Nat
           /\ DOMAIN Migrations = 1 .. Len(Migrations)
<1>1. StoreOK /\ LocalOK(p) /\ proc \in [Processes -> Process]
  BY Split DEF Parts, SharedInv, TypeOK
<1>2. /\ WordlistSize \in Nat \ {0} /\ Len(Migrations) \in Nat
      /\ DOMAIN Migrations = 1 .. Len(Migrations)
  BY SharedAssumption
<1> QED
  BY <1>1, <1>2 DEF StoreOK, Process

-----------------------------------------------------------------------------
(* Starting and opening.                                                   *)

LEMMA InitInv == Init => SharedInv
<1> SUFFICES ASSUME Init PROVE SharedInv
  OBVIOUS
<1>1. /\ DOMAIN sessions = {} /\ attempts = <<>> /\ lastId = 0
      /\ runs = 0 /\ torn = FALSE
  BY DEF Init, StorageInit
<1>2. columns = NoTable \/ columns \subseteq AllColumns
  <2>1. DOMAIN Migrations = 1 .. Len(Migrations) /\ Len(Migrations) \in Nat
    BY SharedAssumption
  <2>2. \A n \in 0 .. Len(Migrations) : {Migrations[k] : k \in 1 .. n} \subseteq AllColumns
    BY <2>1 DEF AllColumns
  <2> QED
    BY <2>2 DEF Init
<1>3. NothingSkipped
  BY <1>1 DEF NothingSkipped
<1>4. StoreOK
  <2>1. lastId \in Nat /\ DOMAIN sessions \subseteq 1 .. lastId
    BY <1>1
  <2>2. \A id \in DOMAIN sessions :
          sessions[id] \in Row /\ sessions[id].last \in -1 .. WordlistSize - 1
    BY <1>1
  <2>3. attempts \in Seq(Attempt(Indices))
    BY <1>1
  <2>4. \A k \in DOMAIN attempts : Exists(attempts[k].session)
    BY <1>1
  <2>5. runs \in 0 .. MaxRuns
    <3>1. MaxRuns \in Nat
      BY SharedAssumption
    <3> QED
      BY <1>1, <3>1
  <2>6. torn \in BOOLEAN
    BY <1>1
  <2> QED
    BY <1>2, <1>3, <2>1, <2>2, <2>3, <2>4, <2>5, <2>6, Zenon DEF StoreOK
<1>5. ASSUME NEW p \in Processes PROVE LocalOK(p)
  <2>1. proc[p] = Idle
    BY DEF Init
  <2> QED
    BY <1>1, <2>1, IdleProcess DEF Idle, LocalOK, OpenOK, SessionOK, PlaceOK, Relies, At
<1>6. Parts
  BY <1>4, <1>5 DEF Init, Parts
<1> QED
  BY <1>6, Split

LEMMA FailInv == ASSUME SharedInv, NEW p \in Processes, Fail(p) PROVE SharedInv'
<1>1. Moves(p) /\ proc'[p] = Idle
  BY ReturnMoves DEF Fail
<1>2. Touches
  BY Known, UntouchedTouches DEF Fail
<1>3. StoreOK' /\ Growth
  BY <1>2, Known, TouchFacts
<1> QED
  BY <1>1, <1>3, IdleOK, Assemble

LEMMA StartInv ==
    ASSUME SharedInv, NEW p \in Processes, NEW job \in Jobs, NEW sig \in Signatures,
           Start(p, job, sig)
    PROVE  SharedInv'
<1> DEFINE new == [Idle EXCEPT !.pc = "schema", !.job = job, !.sig = sig]
<1>1. Moves(p) /\ proc'[p] = new
  BY Known DEF Start, Moves
<1>2. /\ new \in Process /\ new.pc = "schema" /\ new.sid = 0 /\ new.found = 0
  BY IdleProcess DEF Idle, Process, Pcs, Opening
<1> HIDE DEF new
<1>3. Touches
  <2>1. runs' \in 0 .. MaxRuns
    BY Known, SharedAssumption DEF Start
  <2> QED
    BY <2>1, Known, UntouchedTouches DEF Start
<1>4. StoreOK' /\ Growth
  BY <1>3, Known, TouchFacts
<1>5. LocalOK(p)'
  <2>1. OpenOK(p)' /\ PlaceOK(p)'
    BY <1>1, <1>2 DEF OpenOK, PlaceOK, Relies, At, Opening
  <2>2. SessionOK(p)'
    BY <1>1, <1>2, <1>4 DEF SessionOK, StoreOK
  <2> QED
    BY <1>1, <1>2, <2>1, <2>2 DEF LocalOK
<1> QED
  BY <1>1, <1>4, <1>5, Assemble

LEMMA ApplySchemaInv ==
    ASSUME SharedInv, NEW p \in Processes, ApplySchema(p) PROVE SharedInv'
<1>1. /\ Moves(p)
      /\ proc'[p] = [proc[p] EXCEPT !.pc = "migrate", !.step = 1]
  BY Known DEF ApplySchema, Moves
<1>2. /\ proc'[p] \in Process /\ proc'[p].pc = "migrate" /\ proc'[p].step = 1
      /\ proc'[p].sid = proc[p].sid /\ proc'[p].found = proc[p].found
      /\ proc'[p].sig = proc[p].sig
  <2>1. proc[p] \in Process /\ 1 \in 0 .. Len(Migrations) + 1 /\ "migrate" \in Pcs
    <3>1. Len(Migrations) \in Nat
      BY Known
    <3> QED
      BY <3>1, Known DEF Pcs, Opening
  <2> QED
    BY <1>1, <2>1 DEF Process
<1>3. UNCHANGED <<sessions, attempts, lastId, runs, torn>>
  BY DEF ApplySchema, storage
<1>4. columns' \in SUBSET AllColumns
  BY Known DEF StoreOK, ApplySchema
<1>5. columns' = columns \/ columns' = AllColumns
  BY DEF ApplySchema
<1>6. StoreOK'
  BY <1>3, <1>4, Known DEF StoreOK, Exists, NothingSkipped, LoggedFor
<1>7. Growth
  BY <1>3, <1>4, <1>5, Known DEF Growth, StoreOK, LoggedFor
<1>8. LocalOK(p)'
  <2>1. OpenOK(p)'
    BY <1>2, <1>4, SharedAssumption DEF OpenOK, Opening
  <2>2. SessionOK(p)'
    BY <1>2, <1>3, Known DEF SessionOK, LocalOK
  <2>3. PlaceOK(p)'
    BY <1>2 DEF PlaceOK, Relies, At
  <2> QED
    BY <1>2, <2>1, <2>2, <2>3 DEF LocalOK
<1> QED
  BY <1>1, <1>6, <1>7, <1>8, Assemble

LEMMA AddColumnInv ==
    ASSUME SharedInv, NEW p \in Processes, AddColumn(p) PROVE SharedInv'
<1> DEFINE k == proc[p].step
<1>1. /\ proc[p].pc = "migrate" /\ k \in 1 .. Len(Migrations)
      /\ columns \in SUBSET AllColumns
  BY Known DEF AddColumn, At, LocalOK, OpenOK, Process
<1>2. Migrations[k] \in AllColumns
  BY <1>1, SharedAssumption DEF AllColumns
<1>3. /\ Moves(p) /\ proc'[p] = [proc[p] EXCEPT !.step = k + 1]
      /\ columns' = columns \cup {Migrations[k]}
  BY Known DEF AddColumn, Moves, NextMigration
<1>4. /\ proc'[p] \in Process /\ proc'[p].pc = "migrate" /\ proc'[p].step = k + 1
      /\ proc'[p].sid = proc[p].sid /\ proc'[p].found = proc[p].found
      /\ proc'[p].sig = proc[p].sig
  <2>1. proc[p] \in Process
    BY Known
  <2>2. PICK n \in 0 .. Len(Migrations) + 1 : n = k + 1
    <3>1. Len(Migrations) \in Nat
      BY Known
    <3> QED
      BY <1>1, <3>1
  <2>3. proc'[p] = [proc[p] EXCEPT !.step = n]
    BY <1>3, <2>2
  <2> QED
    BY <1>1, <2>1, <2>2, <2>3, Zenon DEF Process
<1>5. UNCHANGED <<sessions, attempts, lastId, runs, torn>>
  BY DEF AddColumn, storage
<1>6. columns' \in SUBSET AllColumns /\ columns \subseteq columns'
  BY <1>1, <1>2, <1>3
<1>7. StoreOK'
  BY <1>5, <1>6, Known DEF StoreOK, Exists, NothingSkipped, LoggedFor
<1>8. Growth
  BY <1>5, <1>6, Known DEF Growth, StoreOK, LoggedFor
<1>9. LocalOK(p)'
  <2>1. OpenOK(p)'
    <3>1. \A j \in DOMAIN Migrations : j < k => Migrations[j] \in columns
      BY <1>1, Known DEF LocalOK, OpenOK
    <3>2. DOMAIN Migrations = 1 .. Len(Migrations)
      BY SharedAssumption
    <3> QED
      BY <1>1, <1>3, <1>4, <1>6, <3>1, <3>2, Known DEF OpenOK, Opening
  <2>2. SessionOK(p)'
    BY <1>4, <1>5, Known DEF SessionOK, LocalOK
  <2>3. PlaceOK(p)'
    BY <1>4 DEF PlaceOK, Relies, At
  <2> QED
    BY <1>4, <2>1, <2>2, <2>3 DEF LocalOK
<1> QED
  BY <1>3, <1>7, <1>8, <1>9, Assemble

LEMMA OpenedInv ==
    ASSUME SharedInv, NEW p \in Processes, Opened(p) PROVE SharedInv'
<1>1. /\ proc[p].pc = "migrate" /\ proc[p].step > Len(Migrations)
      /\ FirstStep(proc[p].job) \in {"resume", "retire", "delete attempts"}
  BY Known DEF Opened, At, FirstStep, Process, Jobs
<1>2. Touches
  BY Known, UntouchedTouches DEF Opened
<1>3. StoreOK' /\ Growth
  BY <1>2, Known, TouchFacts
<1>4. /\ Moves(p) /\ proc'[p] \in Process
      /\ proc'[p].pc = FirstStep(proc[p].job) /\ proc'[p].sig = proc[p].sig
      /\ proc'[p].sid = proc[p].sid /\ proc'[p].found = proc[p].found
      /\ proc'[p].step = proc[p].step
  BY <1>1, GotoMoves DEF Opened, Pcs, Startup
<1>5. LocalOK(p)'
  <2>1. columns' = columns /\ columns = AllColumns
    <3>1. \A k \in DOMAIN Migrations : k < proc[p].step
      <4>1. /\ DOMAIN Migrations = 1 .. Len(Migrations) /\ Len(Migrations) \in Nat
            /\ proc[p].step \in 0 .. Len(Migrations) + 1
        BY Known
      <4>2. proc[p].step > Len(Migrations)
        BY <1>1
      <4> QED
        BY <4>1, <4>2
    <3> QED
      BY <1>1, <1>2, <3>1, Known DEF LocalOK, OpenOK, AllColumns, Touches
  <2>2. OpenOK(p)'
    BY <1>1, <1>4, <2>1, Known DEF LocalOK, OpenOK
  <2>3. SessionOK(p)'
    BY <1>2, <1>4, Known DEF SessionOK, LocalOK, Touches
  <2>4. PlaceOK(p)'
    BY <1>1, <1>4 DEF PlaceOK, Relies, At
  <2> QED
    BY <1>4, <2>2, <2>3, <2>4 DEF LocalOK
<1> QED
  BY <1>3, <1>4, <1>5, Assemble

-----------------------------------------------------------------------------
(* Run, up to its session.                                                 *)

(* Past Open, the columns are all there and stay.                          *)
LEMMA OpenStays ==
    ASSUME SharedInv, NEW p \in Processes, proc[p].pc \notin {"idle"} \cup Opening,
           columns' = columns, proc'[p].step = proc[p].step
    PROVE  OpenOK(p)'
BY Known DEF LocalOK, OpenOK, Opening

LEMMA LatestFound ==
    ASSUME StoreOK, NEW s, ResumableIds(s) # {}
    PROVE  /\ LatestId(ResumableIds(s)) \in DOMAIN sessions
           /\ Resumable(LatestId(ResumableIds(s)))
           /\ sessions[LatestId(ResumableIds(s))].sig = s
<1>1. ResumableIds(s) \subseteq 1 .. lastId /\ lastId \in Nat
  BY DEF ResumableIds, StoreOK
<1>2. \E m \in ResumableIds(s) : \A x \in ResumableIds(s) : x <= m
  BY <1>1, HighestExists
<1>3. LatestId(ResumableIds(s)) \in ResumableIds(s)
  BY <1>2 DEF LatestId
<1> QED
  BY <1>3 DEF ResumableIds

(* The index a run goes on with has nothing unlogged before it.            *)
LEMMA StartFacts ==
    ASSUME StoreOK, NEW s
    PROVE  /\ StartIndex(s) \in 0 .. WordlistSize
           /\ torn \/ \A i \in 0 .. StartIndex(s) - 1 : LoggedFor(s, i)
<1>1. WordlistSize \in Nat \ {0}
  BY SharedAssumption
<1>2. CASE ResumableIds(s) = {}
  BY <1>1, <1>2 DEF StartIndex, Resume
<1>3. CASE ResumableIds(s) # {}
  <2> DEFINE id == LatestId(ResumableIds(s))
  <2>1. id \in DOMAIN sessions /\ sessions[id].sig = s
    BY <1>3, LatestFound
  <2>2. StartIndex(s) = sessions[id].last + 1
    BY <1>3 DEF StartIndex, Resume
  <2> HIDE DEF id
  <2>3. sessions[id].last \in -1 .. WordlistSize - 1
    BY <2>1 DEF StoreOK
  <2>4. torn \/ \A i \in 0 .. sessions[id].last : LoggedFor(s, i)
    BY <2>1 DEF StoreOK, NothingSkipped
  <2> QED
    BY <1>1, <2>2, <2>3, <2>4
<1> QED
  BY <1>2, <1>3

LEMMA RetireInv ==
    ASSUME SharedInv, NEW p \in Processes, Retire(p) PROVE SharedInv'
<1>1. Touches
  <2>1. StoreOK /\ runs \in 0 .. MaxRuns
    BY Known
  <2>2. /\ UNCHANGED <<attempts, lastId, columns, runs, torn>>
        /\ DOMAIN sessions' = DOMAIN sessions
        /\ \A id \in DOMAIN sessions :
             \/ sessions'[id] = sessions[id]
             \/ sessions'[id] = [sessions[id] EXCEPT !.status = "completed"]
    BY DEF Retire, MarkPausedAsCompleted
  <2> QED
    BY <2>1, <2>2 DEF StoreOK, Touches, Row, Statuses
<1>2. StoreOK' /\ Growth
  BY <1>1, Known, TouchFacts
<1>3. /\ Moves(p) /\ proc'[p] \in Process /\ proc'[p].pc = "resume"
      /\ proc'[p].sig = proc[p].sig /\ proc'[p].sid = proc[p].sid
      /\ proc'[p].found = proc[p].found /\ proc'[p].step = proc[p].step
  BY GotoMoves DEF Retire, Pcs, Startup
<1>4. OpenOK(p)'
  BY <1>1, <1>3, OpenStays DEF Retire, At, Touches, Opening
<1>5. SessionOK(p)'
  BY <1>1, <1>3, Known DEF SessionOK, LocalOK, Touches
<1>6. LocalOK(p)'
  BY <1>3, <1>4, <1>5 DEF LocalOK, PlaceOK, Relies, At
<1> QED
  BY <1>2, <1>3, <1>6, Assemble

LEMMA LookupResumeInv ==
    ASSUME SharedInv, NEW p \in Processes, LookupResume(p) PROVE SharedInv'
<1> DEFINE start == StartIndex(proc[p].sig)
<1>1. /\ start \in 0 .. WordlistSize
      /\ torn \/ \A i \in 0 .. start - 1 : LoggedFor(proc[p].sig, i)
  BY Known, StartFacts
<1>2. /\ Moves(p) /\ proc'[p] = [proc[p] EXCEPT !.pc = "select", !.next = start]
  BY Known DEF LookupResume, Moves
<1> HIDE DEF start
<1>3. /\ proc'[p] \in Process /\ proc'[p].pc = "select" /\ proc'[p].next = start
      /\ proc'[p].sig = proc[p].sig /\ proc'[p].sid = proc[p].sid
      /\ proc'[p].found = proc[p].found /\ proc'[p].step = proc[p].step
  <2>1. proc[p] \in Process /\ "select" \in Pcs
    BY Known DEF Pcs, Startup
  <2> QED
    BY <1>1, <1>2, <2>1 DEF Process
<1>4. Touches
  BY Known, UntouchedTouches DEF LookupResume
<1>5. StoreOK' /\ Growth /\ \A sig, i : LoggedFor(sig, i)' <=> LoggedFor(sig, i)
  BY <1>4, Known, TouchFacts
<1>6. OpenOK(p)'
  BY <1>3, <1>4, OpenStays DEF LookupResume, At, Touches, Opening
<1>7. SessionOK(p)'
  BY <1>3, <1>4, Known DEF SessionOK, LocalOK, Touches
<1>8. PlaceOK(p)'
  BY <1>1, <1>3, <1>4, <1>5 DEF PlaceOK, Place, At, Touches
<1> QED
  BY <1>2, <1>3, <1>5, <1>6, <1>7, <1>8, Assemble DEF LocalOK

LEMMA SelectSessionInv ==
    ASSUME SharedInv, NEW p \in Processes, SelectSession(p) PROVE SharedInv'
<1>1. Touches
  BY Known, UntouchedTouches DEF SelectSession
<1>2. StoreOK' /\ Growth /\ \A sig, i : LoggedFor(sig, i)' <=> LoggedFor(sig, i)
  BY <1>1, Known, TouchFacts
<1>3. PICK f \in Nat :
        /\ Moves(p) /\ proc'[p] \in Process
        /\ proc'[p].pc \in {"insert", "reuse"} /\ proc'[p].next = proc[p].next
        /\ proc'[p].sig = proc[p].sig /\ proc'[p].sid = proc[p].sid
        /\ proc'[p].found = f /\ proc'[p].step = proc[p].step
        /\ f <= lastId /\ (f \in DOMAIN sessions => sessions[f].sig = proc[p].sig)
  <2>1. CASE NothingToReuse(proc[p].sig)
    <3>1. Goto(p, "insert")
      BY <2>1 DEF SelectSession
    <3>2. /\ proc[p].found \in Nat /\ proc[p].found <= lastId
          /\ proc[p].found \in DOMAIN sessions =>
               sessions[proc[p].found].sig = proc[p].sig
      BY Known DEF LocalOK, SessionOK
    <3>3. /\ Moves(p) /\ proc'[p] \in Process
          /\ proc'[p].pc = "insert" /\ proc'[p].next = proc[p].next
          /\ proc'[p].sig = proc[p].sig /\ proc'[p].sid = proc[p].sid
          /\ proc'[p].found = proc[p].found /\ proc'[p].step = proc[p].step
      <4>1. "insert" \in Pcs
        BY DEF Pcs, Startup
      <4> QED
        BY <3>1, <4>1, GotoMoves
    <3> QED
      BY <3>2, <3>3
  <2>2. CASE ~NothingToReuse(proc[p].sig)
    <3> DEFINE f == LatestId(ResumableIds(proc[p].sig))
    <3>1. f \in DOMAIN sessions /\ sessions[f].sig = proc[p].sig
      BY <2>2, Known, LatestFound DEF NothingToReuse
    <3>2. /\ Moves(p) /\ proc'[p] = [proc[p] EXCEPT !.pc = "reuse", !.found = f]
      BY <2>2, Known DEF SelectSession, Moves
    <3> HIDE DEF f
    <3>3. f \in Nat /\ f <= lastId
      BY <3>1, Known DEF StoreOK
    <3>4. proc[p] \in Process /\ "reuse" \in Pcs
      BY Known DEF Pcs, Startup
    <3>5. proc'[p] \in Process
      BY <3>2, <3>3, <3>4 DEF Process
    <3>6. /\ proc'[p].pc = "reuse" /\ proc'[p].next = proc[p].next
          /\ proc'[p].sig = proc[p].sig /\ proc'[p].sid = proc[p].sid
          /\ proc'[p].found = f /\ proc'[p].step = proc[p].step
      BY <3>2, <3>4 DEF Process
    <3> QED
      BY <3>1, <3>2, <3>3, <3>5, <3>6
  <2> QED
    BY <2>1, <2>2
<1>4. OpenOK(p)'
  BY <1>1, <1>3, OpenStays DEF SelectSession, At, Touches, Opening
<1>5. SessionOK(p)'
  BY <1>1, <1>3, Known DEF SessionOK, LocalOK, Touches
<1>6. PlaceOK(p)'
  <2>1. torn \/ \A i \in 0 .. proc[p].next - 1 : LoggedFor(proc[p].sig, i)
    BY Known DEF LocalOK, PlaceOK, Relies, Place, At, SelectSession
  <2> QED
    BY <1>1, <1>2, <1>3, <2>1 DEF PlaceOK, Place, At, Touches
<1> QED
  BY <1>2, <1>3, <1>4, <1>5, <1>6, Assemble DEF LocalOK

-----------------------------------------------------------------------------
(* A session, and the work in it.                                          *)

LEMMA WorkFacts ==
    ASSUME SharedInv, NEW p \in Processes, NEW id \in Nat, Work(p, id)
    PROVE  /\ Moves(p) /\ proc'[p] \in Process
           /\ proc'[p].pc \in {"scan", "end now"} /\ proc'[p].next = proc[p].next
           /\ proc'[p].sig = proc[p].sig /\ proc'[p].sid = id
           /\ proc'[p].found = 0 /\ proc'[p].step = proc[p].step
<1>1. PICK pc \in {"scan", "end now"} :
        proc' = [proc EXCEPT ![p].sid = id, ![p].found = 0, ![p].pc = pc]
  BY DEF Work
<1>2. proc[p] \in Process /\ pc \in Pcs /\ proc \in [Processes -> Process]
  BY Known DEF Pcs
<1>3. /\ Moves(p)
      /\ proc'[p] = [proc[p] EXCEPT !.sid = id, !.found = 0, !.pc = pc]
  BY <1>1, <1>2 DEF Moves
<1>4. proc'[p] = [pc |-> pc, job |-> proc[p].job, sig |-> proc[p].sig,
                  step |-> proc[p].step, next |-> proc[p].next, found |-> 0,
                  sid |-> id, top |-> proc[p].top]
  BY <1>2, <1>3 DEF Process
<1>5. proc'[p] \in Process
  <2>1. PICK none \in Nat : none = 0
    OBVIOUS
  <2>2. [pc |-> pc, job |-> proc[p].job, sig |-> proc[p].sig,
         step |-> proc[p].step, next |-> proc[p].next, found |-> none,
         sid |-> id, top |-> proc[p].top] \in Process
    BY <1>2 DEF Process
  <2> QED
    BY <1>4, <2>1, <2>2, Zenon
<1> QED
  BY <1>3, <1>4, <1>5

(* It has found nothing any more, and there is no session 0.               *)
LEMMA WorkSession ==
    ASSUME NEW p \in Processes, NEW id, proc'[p].sid = id, proc'[p].found = 0,
           StoreOK', id <= lastId',
           id \in DOMAIN sessions' => sessions'[id].sig = proc'[p].sig
    PROVE  SessionOK(p)'
<1>1. 0 \notin DOMAIN sessions' /\ 0 <= lastId'
  BY DEF StoreOK
<1>2. PICK none : none = proc'[p].found /\ none = 0
  OBVIOUS
<1>3. none \notin DOMAIN sessions' /\ none <= lastId'
  BY <1>1, <1>2
<1>4. ASSUME NEW x \in {proc'[p].sid, proc'[p].found}, x \in DOMAIN sessions'
      PROVE  sessions'[x].sig = proc'[p].sig
  <2>1. x = id
    BY <1>2, <1>3, <1>4, Zenon
  <2> QED
    BY <1>4, <2>1
<1>5. proc'[p].sid <= lastId' /\ proc'[p].found <= lastId'
  BY <1>2, <1>3
<1> QED
  BY <1>4, <1>5, Zenon DEF SessionOK

LEMMA InsertNewInv ==
    ASSUME SharedInv, NEW p \in Processes, NEW meta \in Metas, InsertNew(p, meta)
    PROVE  SharedInv'
<1> DEFINE new == lastId + 1
           row == NewRow(NewSession(p, meta), 0)
<1>1. /\ lastId' = new /\ attempts' = attempts
      /\ sessions' = [id \in DOMAIN sessions \cup {new} |->
                        IF id \in DOMAIN sessions THEN sessions[id] ELSE row]
      /\ UNCHANGED <<columns, runs, torn>>
  BY DEF InsertNew, InsertSession
<1>2. row \in Row /\ row.last = -1 /\ row.sig = proc[p].sig
  BY Known, SharedAssumption DEF NewSession, NewRow, Row, Modes, Statuses
<1> HIDE DEF row
<1>3. /\ StoreOK /\ lastId \in Nat /\ WordlistSize \in Nat \ {0}
      /\ DOMAIN sessions \subseteq 1 .. lastId
  BY Known DEF StoreOK
<1>4. /\ new \in Nat /\ new \notin DOMAIN sessions /\ lastId <= new
      /\ DOMAIN sessions' = DOMAIN sessions \cup {new}
      /\ DOMAIN sessions' \subseteq 1 .. lastId' /\ sessions'[new] = row
      /\ \A id \in DOMAIN sessions : sessions'[id] = sessions[id]
  BY <1>1, <1>3
<1>5. \A sig, i : LoggedFor(sig, i) => LoggedFor(sig, i)'
  BY <1>1, <1>4 DEF LoggedFor
<1>6. NothingSkipped'
  BY <1>1, <1>2, <1>3, <1>4, <1>5 DEF StoreOK, NothingSkipped
<1>7. StoreOK'
  <2>1. \A id \in DOMAIN sessions' :
          sessions'[id] \in Row /\ sessions'[id].last \in -1 .. WordlistSize - 1
    BY <1>2, <1>3, <1>4 DEF StoreOK
  <2>2. \A k \in DOMAIN attempts' : attempts'[k].session \in DOMAIN sessions'
    BY <1>1, <1>3, <1>4 DEF StoreOK, Exists
  <2> HIDE DEF new
  <2> QED
    BY <1>1, <1>3, <1>4, <1>6, <2>1, <2>2 DEF StoreOK, Exists
<1>8. Growth
  BY <1>1, <1>3, <1>4, <1>5 DEF Growth
<1>9. /\ Moves(p) /\ proc'[p] \in Process
      /\ proc'[p].pc \in {"scan", "end now"} /\ proc'[p].next = proc[p].next
      /\ proc'[p].sig = proc[p].sig /\ proc'[p].sid = new
      /\ proc'[p].found = 0 /\ proc'[p].step = proc[p].step
  BY <1>4, WorkFacts DEF InsertNew
<1>10. LocalOK(p)'
  <2>1. OpenOK(p)'
    BY <1>1, <1>9, OpenStays DEF InsertNew, At, Opening
  <2>2. SessionOK(p)'
    <3>1. sessions'[new].sig = proc'[p].sig
      BY <1>2, <1>4, <1>9, Zenon
    <3>2. new <= lastId'
      BY <1>1, <1>4
    <3> HIDE DEF new
    <3> QED
      BY <1>7, <1>9, <3>1, <3>2, WorkSession
  <2>3. torn \/ \A i \in 0 .. proc[p].next - 1 : LoggedFor(proc[p].sig, i)
    BY Known DEF LocalOK, PlaceOK, Relies, Place, At, InsertNew
  <2>4. PlaceOK(p)'
    BY <1>1, <1>5, <1>9, <2>3 DEF PlaceOK, Place, At
  <2> QED
    BY <1>9, <2>1, <2>2, <2>4 DEF LocalOK
<1> QED
  BY <1>7, <1>8, <1>9, <1>10, Assemble

LEMMA ReuseFoundInv ==
    ASSUME SharedInv, NEW p \in Processes, NEW meta \in Metas, ReuseFound(p, meta)
    PROVE  SharedInv'
<1> DEFINE id0 == proc[p].found
           init == NewSession(p, meta)
<1>1. init.meta \in Metas /\ init.mode \in Modes /\ init.cursor \in Cursors
  BY SharedAssumption DEF NewSession, Modes
<1> HIDE DEF init
<1>2. Touches
  <2>1. CASE Exists(id0)
    <3>1. /\ UNCHANGED <<attempts, lastId, columns, runs, torn>>
          /\ sessions' = [sessions EXCEPT ![id0].status = "running",
                                          ![id0].meta = init.meta,
                                          ![id0].mode = init.mode,
                                          ![id0].cursor = init.cursor]
      BY <2>1 DEF ReuseFound, ReuseSession, init
    <3>2. StoreOK /\ runs \in 0 .. MaxRuns
      BY Known
    <3>3. /\ DOMAIN sessions' = DOMAIN sessions
          /\ \A id \in DOMAIN sessions : id # id0 => sessions'[id] = sessions[id]
          /\ sessions'[id0] = [sessions[id0] EXCEPT !.status = "running",
                                !.meta = init.meta, !.mode = init.mode,
                                !.cursor = init.cursor]
      BY <2>1, <3>1, <3>2 DEF Exists
    <3>4. sessions[id0] \in Row
      BY <2>1, <3>2 DEF StoreOK, Exists
    <3>5. /\ sessions'[id0] \in Row /\ sessions'[id0].sig = sessions[id0].sig
          /\ sessions'[id0].last = sessions[id0].last
      BY <1>1, <3>3, <3>4 DEF Row, Statuses
    <3> QED
      BY <3>1, <3>2, <3>3, <3>5 DEF StoreOK, Touches
  <2>2. CASE ~Exists(id0)
    BY <2>2, Known, UntouchedTouches DEF ReuseFound
  <2> QED
    BY <2>1, <2>2
<1>3. StoreOK' /\ Growth /\ \A sig, i : LoggedFor(sig, i)' <=> LoggedFor(sig, i)
  BY <1>2, Known, TouchFacts
<1>4. /\ Moves(p) /\ proc'[p] \in Process
      /\ proc'[p].pc \in {"scan", "end now"} /\ proc'[p].next = proc[p].next
      /\ proc'[p].sig = proc[p].sig /\ proc'[p].sid = id0
      /\ proc'[p].found = 0 /\ proc'[p].step = proc[p].step
  BY Known, WorkFacts DEF ReuseFound
<1>5. OpenOK(p)'
  BY <1>2, <1>4, OpenStays DEF ReuseFound, At, Touches, Opening
<1>6. SessionOK(p)'
  <2>1. /\ id0 <= lastId
        /\ id0 \in DOMAIN sessions => sessions[id0].sig = proc[p].sig
    BY Known DEF SessionOK, LocalOK
  <2>2. /\ id0 <= lastId'
        /\ id0 \in DOMAIN sessions' => sessions'[id0].sig = proc'[p].sig
    BY <1>2, <1>4, <2>1 DEF Touches
  <2> QED
    BY <1>3, <1>4, <2>2, WorkSession
<1>7. PlaceOK(p)'
  <2>1. torn \/ (Exists(id0) =>
                    \A i \in 0 .. proc[p].next - 1 : LoggedFor(proc[p].sig, i))
    BY Known DEF LocalOK, PlaceOK, Relies, Place, At, ReuseFound
  <2> QED
    BY <1>2, <1>3, <1>4, <2>1 DEF PlaceOK, Relies, Place, At, Touches, Exists
<1> QED
  BY <1>3, <1>4, <1>5, <1>6, <1>7, Assemble DEF LocalOK

LEMMA EndInv == ASSUME SharedInv, NEW p \in Processes, End(p) PROVE SharedInv'
<1>1. Touches
  <2>1. PICK status \in {"paused", "completed"} :
          IF Exists(proc[p].sid) THEN EndSession(proc[p].sid, status)
          ELSE UNCHANGED storage
    BY DEF End, FinalStatuses
  <2>2. StoreOK /\ runs \in 0 .. MaxRuns /\ UNCHANGED <<columns, runs, torn>>
    BY Known DEF End
  <2>3. CASE ~Exists(proc[p].sid)
    BY <2>1, <2>2, <2>3, UntouchedTouches
  <2>4. CASE Exists(proc[p].sid)
    <3>1. /\ UNCHANGED <<attempts, lastId>> /\ DOMAIN sessions' = DOMAIN sessions
          /\ \A id \in DOMAIN sessions :
               \/ sessions'[id] = sessions[id]
               \/ sessions'[id] = [sessions[id] EXCEPT !.status = status]
      BY <2>1, <2>4 DEF EndSession
    <3> QED
      BY <2>2, <3>1 DEF StoreOK, Touches, Row, Statuses
  <2> QED
    BY <2>3, <2>4
<1>2. StoreOK' /\ Growth
  BY <1>1, Known, TouchFacts
<1>3. Moves(p) /\ proc'[p] = Idle
  BY ReturnMoves DEF End
<1> QED
  BY <1>2, <1>3, IdleOK, Assemble

-----------------------------------------------------------------------------
(* The statements of the scan.                                             *)

LEMMA RecordInv == ASSUME SharedInv, NEW p \in Processes, Record(p) PROVE SharedInv'
<1>0. PICK sid \in Nat, from \in Nat : sid = proc[p].sid /\ from = proc[p].next
  BY Known
<1>1. PICK top \in 0 .. WordlistSize - 1 :
        /\ proc[p].next <= top
        /\ \E res \in [proc[p].next .. top -> Results] :
             InsertAttempts([k \in 1 .. top + 1 - proc[p].next |->
               [session |-> proc[p].sid, candidate |-> proc[p].next + k - 1,
                res |-> res[proc[p].next + k - 1]]])
        /\ proc' = [proc EXCEPT ![p].pc = "checkpoint", ![p].top = top]
  <2>1. \A top \in LastOfBatch(p) : top \in 0 .. WordlistSize - 1 /\ proc[p].next <= top
    <3>1. /\ proc[p].next \in 0 .. WordlistSize
          /\ WordlistSize \in Nat /\ BatchSize \in Nat
      BY Known, SharedAssumption
    <3> QED
      BY <3>1 DEF LastOfBatch
  <2> QED
    BY <2>1 DEF Record
<1>2. PICK rows :
        /\ InsertAttempts(rows)
        /\ \E res \in [proc[p].next .. top -> Results] :
             rows = [k \in 1 .. top + 1 - proc[p].next |->
                      [session |-> proc[p].sid, candidate |-> proc[p].next + k - 1,
                       res |-> res[proc[p].next + k - 1]]]
  BY <1>1
<1>3. PICK n \in Nat : n = top + 1 - from
  BY <1>0, <1>1, SharedAssumption
<1>4. /\ StoreOK /\ sid \in DOMAIN sessions /\ WordlistSize \in Nat \ {0}
      /\ attempts \in Seq(Attempt(Indices))
  BY <1>0, Known DEF Record, Exists, StoreOK
<1>5. top \in Indices /\ from <= top
  BY <1>0, <1>1 DEF Indices
<1>6. /\ rows \in Seq(Attempt(Indices))
      /\ \A k \in DOMAIN rows : rows[k].session = sid
      /\ \A i \in from .. top : \E k \in DOMAIN rows : rows[k].candidate = i
  <2>1. \A k \in 1 .. n : from + k - 1 \in from .. top /\ from + k - 1 \in Indices
    BY <1>3, <1>4, <1>5 DEF Indices
  <2>2. rows = [k \in 1 .. n |-> rows[k]] /\ DOMAIN rows = 1 .. n
    BY <1>0, <1>2, <1>3
  <2>3. \A k \in 1 .. n :
          /\ rows[k].session = sid /\ rows[k].candidate = from + k - 1
          /\ rows[k] = [session |-> sid, candidate |-> from + k - 1, res |-> rows[k].res]
          /\ rows[k].res \in Results
    BY <1>0, <1>2, <1>3, <2>1
  <2>4. ASSUME NEW k \in 1 .. n PROVE rows[k] \in Attempt(Indices)
    <3>1. PICK c \in Indices, r \in Results :
            rows[k] = [session |-> sid, candidate |-> c, res |-> r]
      BY <2>1, <2>3
    <3>2. [session |-> sid, candidate |-> c, res |-> r] \in Attempt(Indices)
      BY DEF Attempt
    <3> QED
      BY <3>1, <3>2, Zenon
  <2>5. rows \in [1 .. n -> Attempt(Indices)]
    BY <2>2, <2>4, Zenon
  <2>6. rows \in Seq(Attempt(Indices))
    BY <2>5, SeqDef
  <2>7. ASSUME NEW i \in from .. top PROVE \E k \in 1 .. n : from + k - 1 = i
    <3>1. i + 1 - from \in 1 .. n /\ from + (i + 1 - from) - 1 = i
      BY <1>3, <2>7
    <3> QED
      BY <3>1
  <2> QED
    BY <2>2, <2>3, <2>6, <2>7
<1>7. PICK sig \in Signatures : sig = proc[p].sig /\ sessions[sid].sig = sig
  BY <1>0, <1>4, Known DEF LocalOK, SessionOK
<1>8. /\ attempts' = attempts \o rows
      /\ UNCHANGED <<sessions, lastId, columns, runs, torn>>
  BY <1>2 DEF Record, InsertAttempts
<1>9. /\ attempts' \in Seq(Attempt(Indices))
      /\ \A k \in DOMAIN attempts : k \in DOMAIN attempts' /\ attempts'[k] = attempts[k]
      /\ \A k \in DOMAIN rows :
           /\ Len(attempts) + k \in DOMAIN attempts'
           /\ attempts'[Len(attempts) + k] = rows[k]
      /\ \A k \in DOMAIN attempts' :
           \/ k \in DOMAIN attempts
           \/ k - Len(attempts) \in DOMAIN rows /\ attempts'[k] = rows[k - Len(attempts)]
  BY <1>4, <1>6, <1>8
<1>10. \A s, i : LoggedFor(s, i) => LoggedFor(s, i)'
  BY <1>8, <1>9 DEF LoggedFor
<1>11. \A i \in from .. top : LoggedFor(sig, i)'
  <2>1. SUFFICES ASSUME NEW i \in from .. top
                 PROVE  \E k \in DOMAIN attempts' :
                          /\ attempts'[k].candidate = i
                          /\ attempts'[k].session \in DOMAIN sessions'
                          /\ sessions'[attempts'[k].session].sig = sig
    BY DEF LoggedFor
  <2>2. PICK k \in DOMAIN rows : rows[k].candidate = i /\ rows[k].session = sid
    BY <1>6
  <2>3. PICK m \in DOMAIN attempts' : attempts'[m] = rows[k]
    BY <1>9
  <2> QED
    BY <1>4, <1>7, <1>8, <2>2, <2>3
<1>12. StoreOK'
  <2>1. NothingSkipped'
    BY <1>4, <1>8, <1>10 DEF StoreOK, NothingSkipped
  <2>2. \A k \in DOMAIN attempts' : attempts'[k].session \in DOMAIN sessions'
    BY <1>4, <1>6, <1>8, <1>9 DEF StoreOK, Exists
  <2> QED
    BY <1>4, <1>8, <1>9, <2>1, <2>2 DEF StoreOK, Exists
<1>13. Growth
  BY <1>4, <1>8, <1>10 DEF Growth, StoreOK
<1>14. /\ Moves(p) /\ proc'[p] = [proc[p] EXCEPT !.pc = "checkpoint", !.top = top]
  BY <1>1, Known DEF Moves
<1>15. /\ proc'[p] \in Process /\ proc'[p].pc = "checkpoint" /\ proc'[p].top = top
       /\ proc'[p].sig = proc[p].sig /\ proc'[p].sid = sid
       /\ proc'[p].found = proc[p].found /\ proc'[p].step = proc[p].step
  <2>1. /\ proc[p] \in Process /\ "checkpoint" \in Pcs
        /\ top \in -1 .. WordlistSize - 1
    BY <1>4, <1>5, Known DEF Pcs, Indices
  <2> QED
    BY <1>0, <1>14, <2>1 DEF Process
<1>16. OpenOK(p)'
  BY <1>8, <1>15, OpenStays DEF Record, At, Opening
<1>17. SessionOK(p)'
  BY <1>0, <1>8, <1>15, Known DEF SessionOK, LocalOK
<1>18. PlaceOK(p)'
  <2>2. torn \/ \A i \in 0 .. from - 1 : LoggedFor(sig, i)
    BY <1>0, <1>4, <1>7, Known DEF LocalOK, PlaceOK, Relies, Place, At, Exists, Record
  <2>3. torn \/ \A i \in 0 .. top : LoggedFor(sig, i)'
    <3>1. \A i \in 0 .. top : i \in 0 .. from - 1 \/ i \in from .. top
      BY <1>4, <1>5 DEF Indices
    <3> QED
      BY <1>10, <1>11, <2>2, <3>1
  <2>4. \A i \in 0 .. top + 1 - 1 : i \in 0 .. top
    BY <1>5 DEF Indices
  <2> QED
    BY <1>5, <1>7, <1>8, <1>15, <2>3, <2>4 DEF PlaceOK, Place, At, Indices
<1> QED
  BY <1>12, <1>13, <1>14, <1>15, <1>16, <1>17, <1>18, Assemble DEF LocalOK

LEMMA AdvanceInv == ASSUME SharedInv, NEW p \in Processes, Advance(p) PROVE SharedInv'
<1>0. PICK sid \in Nat, top \in 0 .. WordlistSize - 1, sig \in Signatures :
        sid = proc[p].sid /\ top = proc[p].top /\ sig = proc[p].sig
  BY Known DEF LocalOK, PlaceOK, Advance, Indices
<1>1. /\ StoreOK /\ WordlistSize \in Nat \ {0} /\ runs \in 0 .. MaxRuns
      /\ sid \in DOMAIN sessions => sessions[sid].sig = sig
      /\ torn \/ (sid \in DOMAIN sessions =>
                    \A i \in 0 .. top + 1 - 1 : LoggedFor(sig, i))
  <2>1. At(p, "checkpoint") /\ LocalOK(p)
    BY Known DEF Advance
  <2>2. sid \in DOMAIN sessions => sessions[sid].sig = sig
    BY <1>0, <2>1 DEF LocalOK, SessionOK
  <2>3. Place(p) = top + 1 /\ (sid \in DOMAIN sessions => Relies(p))
    BY <1>0, <2>1 DEF Relies, Place, At, Exists
  <2>4. torn \/ (sid \in DOMAIN sessions =>
                   \A i \in 0 .. top + 1 - 1 : LoggedFor(sig, i))
    <3>1. torn \/ (Relies(p) => \A i \in 0 .. Place(p) - 1 : LoggedFor(proc[p].sig, i))
      BY <2>1 DEF LocalOK, PlaceOK
    <3> QED
      BY <1>0, <2>3, <3>1
  <2> QED
    BY <2>2, <2>4, Known
<1>2. UNCHANGED <<attempts, lastId, columns, runs, torn>> /\ DOMAIN sessions' = DOMAIN sessions
  BY DEF Advance, Checkpoint, storage
<1>3. ASSUME NEW id \in DOMAIN sessions
      PROVE  /\ sessions'[id] \in Row /\ sessions'[id].sig = sessions[id].sig
             /\ sessions'[id].last \in -1 .. WordlistSize - 1
             /\ \/ sessions'[id].last = sessions[id].last
                \/ id = sid /\ sessions'[id].last = top
  <2>1. /\ sessions[id] \in Row /\ sessions[id].last \in -1 .. WordlistSize - 1
        /\ top \in Int /\ top \in -1 .. WordlistSize - 1
    BY <1>1, <1>3 DEF StoreOK, Indices
  <2>2. \/ sessions'[id] = sessions[id]
        \/ id = sid /\ sessions'[id] = [sessions[id] EXCEPT !.last = top]
    <3>1. CASE Exists(sid)
      <4>1. sessions' = [sessions EXCEPT ![sid].last = IF @ < top THEN top ELSE @]
        BY <1>0, <3>1 DEF Advance, Checkpoint
      <4>2. CASE id = sid /\ sessions[id].last < top
        BY <4>1, <4>2, <1>3
      <4>3. CASE id # sid
        BY <4>1, <4>3, <1>3
      <4>4. CASE id = sid /\ ~(sessions[id].last < top)
        <5>1. sessions'[id] = [sessions[id] EXCEPT !.last = sessions[id].last]
          BY <4>1, <4>4, <1>3
        <5> QED
          BY <5>1, <2>1 DEF Row
      <4> QED
        BY <4>2, <4>3, <4>4
    <3>2. CASE ~Exists(sid)
      BY <1>0, <3>2 DEF Advance, storage
    <3> QED
      BY <3>1, <3>2
  <2> QED
    BY <2>1, <2>2 DEF Row
<1>4. \A s, i : LoggedFor(s, i)' <=> LoggedFor(s, i)
  BY <1>2, <1>3 DEF LoggedFor
<1>5. \A i \in 0 .. top + 1 - 1 : i \in 0 .. top
  BY <1>1 DEF Indices
<1>6. \A i \in 0 .. top : i \in 0 .. top + 1 - 1
  BY <1>1 DEF Indices
<1>7. NothingSkipped'
  BY <1>1, <1>2, <1>3, <1>4, <1>6 DEF StoreOK, NothingSkipped
<1>8. StoreOK'
  BY <1>1, <1>2, <1>3, <1>7 DEF StoreOK, Exists
<1>9. Growth
  BY <1>1, <1>2, <1>3, <1>4 DEF Growth, StoreOK
<1>10. /\ Moves(p)
       /\ proc'[p] = [proc[p] EXCEPT !.pc = "scan", !.next = top + 1, !.top = -1]
  BY <1>0, Known DEF Advance, NextAfter, Moves
<1>11. /\ proc'[p].pc = "scan" /\ proc'[p].next = top + 1
       /\ proc'[p].sig = sig /\ proc'[p].sid = sid
       /\ proc'[p].found = proc[p].found /\ proc'[p].step = proc[p].step
       /\ proc'[p] \in Process
  <2>1. /\ proc[p] \in Process /\ "scan" \in Pcs /\ top + 1 \in 0 .. WordlistSize
        /\ -1 \in -1 .. WordlistSize - 1
    BY <1>1, Known DEF Pcs, Indices
  <2>2. PICK new, none : new = top + 1 /\ none = -1
    OBVIOUS
  <2>3. proc'[p] = [pc |-> "scan", job |-> proc[p].job, sig |-> sig,
                    step |-> proc[p].step, next |-> new, found |-> proc[p].found,
                    sid |-> sid, top |-> none]
    BY <1>0, <1>10, <2>1, <2>2 DEF Process
  <2>4. [pc |-> "scan", job |-> proc[p].job, sig |-> sig,
         step |-> proc[p].step, next |-> new, found |-> proc[p].found,
         sid |-> sid, top |-> none] \in Process
    BY <2>1, <2>2 DEF Process
  <2> QED
    BY <2>2, <2>3, <2>4
<1>12. OpenOK(p)'
  BY <1>2, <1>11, OpenStays DEF Advance, At, Opening
<1>13. SessionOK(p)'
  <2>1. /\ sid <= lastId /\ proc[p].found <= lastId
        /\ \A id \in {sid, proc[p].found} \cap DOMAIN sessions :
             sessions[id].sig = sig
    BY <1>0, Known DEF SessionOK, LocalOK
  <2> QED
    BY <1>2, <1>3, <1>11, <2>1 DEF SessionOK
<1>14. PlaceOK(p)'
  <2>1. torn' \/ (sid \in DOMAIN sessions' =>
                    \A i \in 0 .. top + 1 - 1 : LoggedFor(sig, i)')
    BY <1>1, <1>2, <1>4
  <2>2. Place(p)' = top + 1 /\ (Relies(p)' => sid \in DOMAIN sessions')
    BY <1>11 DEF Relies, Place, At, Exists
  <2> QED
    BY <1>11, <2>1, <2>2 DEF PlaceOK, At
<1> QED
  BY <1>8, <1>9, <1>10, <1>11, <1>12, <1>13, <1>14, Assemble DEF LocalOK

-----------------------------------------------------------------------------
(* Reset.                                                                  *)

(* With an empty table, or a reset under way, places prove nothing; what   *)
(* remains is that the ids of sessions stay what they were.                *)
LEMMA ResetAttemptsInv ==
    ASSUME SharedInv, NEW p \in Processes, ResetAttempts(p) PROVE SharedInv'
<1>1. /\ attempts' = <<>> /\ torn' = TRUE
      /\ UNCHANGED <<sessions, lastId, columns, runs>>
  BY DEF ResetAttempts, DeleteAttempts
<1>2. StoreOK /\ runs \in 0 .. MaxRuns
  BY Known
<1>3. StoreOK'
  BY <1>1, <1>2 DEF StoreOK, NothingSkipped, Exists
<1>4. /\ Moves(p) /\ proc'[p].pc = "delete sessions" /\ proc'[p] \in Process
      /\ proc'[p].sig = proc[p].sig /\ proc'[p].sid = proc[p].sid
      /\ proc'[p].found = proc[p].found /\ proc'[p].step = proc[p].step
      /\ proc'[p].top = proc[p].top
  BY GotoMoves DEF ResetAttempts, Pcs
<1>5. ASSUME NEW q \in Processes PROVE LocalOK(q)'
  <2>1. LocalOK(q) /\ (q # p => proc'[q] = proc[q])
    BY <1>4, Known DEF Moves
  <2>2. proc'[q] \in Process
    BY <1>4, <2>1 DEF LocalOK
  <2>3. OpenOK(q)'
    <3>1. proc[p].pc \notin {"idle"} \cup Opening
      BY DEF ResetAttempts, At, Opening
    <3>2. CASE q = p
      BY <1>1, <1>4, <3>1, <3>2, OpenStays
    <3>3. CASE q # p
      BY <1>1, <2>1, <3>3 DEF LocalOK, OpenOK
    <3> QED
      BY <3>2, <3>3
  <2>4. SessionOK(q)'
    BY <1>1, <1>4, <2>1 DEF LocalOK, SessionOK
  <2>5. PlaceOK(q)'
    <3>1. torn'
      BY <1>1
    <3>2. At(q, "checkpoint")' => proc'[q].top \in Indices
      BY <1>4, <2>1 DEF LocalOK, PlaceOK, At
    <3> QED
      BY <3>1, <3>2 DEF PlaceOK
  <2> QED
    BY <2>2, <2>3, <2>4, <2>5 DEF LocalOK
<1>6. Parts'
  BY <1>3, <1>4, <1>5 DEF Parts, Moves
<1> QED
  BY <1>6, Split, PTL

LEMMA ResetSessionsInv ==
    ASSUME SharedInv, NEW p \in Processes, ResetSessions(p) PROVE SharedInv'
<1>1. /\ attempts' = <<>> /\ DOMAIN sessions' = {}
      /\ UNCHANGED <<lastId, columns, runs>>
      /\ torn' = \E q \in Processes : StaleIndex(q)
  BY DEF ResetSessions, DeleteSessions
<1>2. StoreOK /\ runs \in 0 .. MaxRuns
  BY Known
<1>3. torn' \in BOOLEAN
  BY <1>1
<1>4. StoreOK'
  BY <1>1, <1>2, <1>3 DEF StoreOK, NothingSkipped, Exists
<1>5. Moves(p) /\ proc'[p] = Idle
  BY ReturnMoves DEF ResetSessions
<1>6. ASSUME NEW q \in Processes PROVE LocalOK(q)'
  <2>1. CASE q = p
    BY <1>4, <1>5, <2>1, IdleOK
  <2>2. CASE q # p
    <3>1. LocalOK(q) /\ proc'[q] = proc[q]
      BY <1>5, <2>2, Known DEF Moves
    <3>2. OpenOK(q)' /\ SessionOK(q)'
      BY <1>1, <3>1 DEF LocalOK, OpenOK, SessionOK
    <3>3. At(q, "checkpoint")' => proc'[q].top \in Indices
      BY <3>1 DEF LocalOK, PlaceOK, At
    <3>4. torn' \/ (Relies(q)' => Place(q)' = 0)
      <4>1. CASE StaleIndex(q)
        BY <1>1, <4>1
      <4>2. CASE ~StaleIndex(q)
        <5>1. proc[q].next \in 0 .. WordlistSize /\ WordlistSize \in Nat
          BY Known
        <5>2. Relies(q)' => proc'[q].pc \in {"select", "insert"}
          BY <1>1 DEF Relies, Exists
        <5>3. proc[q].pc \in {"select", "insert"} => proc[q].next = 0
          BY <4>2, <5>1 DEF StaleIndex
        <5> QED
          BY <3>1, <5>2, <5>3 DEF Place, At
      <4> QED
        BY <4>1, <4>2
    <3>5. PlaceOK(q)'
      BY <3>3, <3>4 DEF PlaceOK
    <3> QED
      BY <3>1, <3>2, <3>5 DEF LocalOK
  <2> QED
    BY <2>1, <2>2
<1>7. Parts'
  BY <1>4, <1>5, <1>6 DEF Parts, Moves
<1> QED
  BY <1>7, Split, PTL

-----------------------------------------------------------------------------
(* Theorems.                                                               *)

LEMMA NextInv == SharedInv /\ [Next]_vars => SharedInv'
<1> SUFFICES ASSUME SharedInv, [Next]_vars PROVE SharedInv'
  OBVIOUS
<1>1. CASE UNCHANGED vars
  BY <1>1 DEF vars, storage, SharedInv, TypeOK, SchemaReady, MigratedSoFar, RowsHeld,
       OwnSignature, PlacesLogged, NothingSkipped, Relies, Place, At, Exists,
       LoggedFor
<1>2. ASSUME NEW p \in Processes, Open(p) PROVE SharedInv'
  BY <1>2, ApplySchemaInv, AddColumnInv, OpenedInv DEF Open
<1>3. ASSUME NEW p \in Processes, Begin(p) PROVE SharedInv'
  BY <1>3, RetireInv, LookupResumeInv, SelectSessionInv, InsertNewInv, ReuseFoundInv
     DEF Begin
<1>4. ASSUME NEW p \in Processes, Scan(p) PROVE SharedInv'
  BY <1>4, RecordInv, AdvanceInv, EndInv DEF Scan
<1>5. ASSUME NEW p \in Processes, Reset(p) PROVE SharedInv'
  BY <1>5, ResetAttemptsInv, ResetSessionsInv DEF Reset
<1> QED
  BY <1>1, <1>2, <1>3, <1>4, <1>5, StartInv, FailInv DEF Next, Rest

LEMMA SharedKept == Spec => []SharedInv
  BY InitInv, NextInv, PTL DEF Spec

(* A process past Open finds every column, though others may have been     *)
(* migrating or died doing so.                                             *)
THEOREM SharedSchemaReady == Spec => []SchemaReady
<1>1. SharedInv => SchemaReady
  BY DEF SharedInv
<1> QED
  BY <1>1, SharedKept, PTL

(* No word is passed over by any number of sweeps of one file, unless a    *)
(* reset comes between two statements of another process.                  *)
THEOREM SharedNothingSkipped == Spec => []NothingSkipped
<1>1. SharedInv => NothingSkipped
  BY DEF SharedInv
<1> QED
  BY <1>1, SharedKept, PTL

(* A process never writes to a session of another signature.               *)
THEOREM SharedOwnSignature == Spec => []OwnSignature
<1>1. SharedInv => OwnSignature
  BY DEF SharedInv
<1> QED
  BY <1>1, SharedKept, PTL

(* The sums of stats leave out no row and count none of a session that is  *)
(* gone.                                                                   *)
THEOREM SharedNoOrphans == Spec => []NoOrphans
<1>1. SharedInv => NoOrphans
  <2>1. SUFFICES ASSUME SharedInv PROVE NoOrphans
    OBVIOUS
  <2>2. {k \in DOMAIN attempts : Exists(attempts[k].session)} = DOMAIN attempts
    BY <2>1 DEF SharedInv, RowsHeld
  <2> QED
    BY <2>2, Zenon DEF NoOrphans, AggregateStats
<1> QED
  BY <1>1, SharedKept, PTL

Forward ==
    \A id \in DOMAIN sessions \cap DOMAIN sessions' :
        sessions[id].last <= sessions'[id].last

LEMMA ForwardStep == SharedInv /\ [Next]_vars => Forward
<1> SUFFICES ASSUME SharedInv, [Next]_vars PROVE Forward
  OBVIOUS
<1>1. \A id \in DOMAIN sessions : sessions[id] \in Row /\ sessions[id].last \in Int
  BY DEF SharedInv, TypeOK, Row
<1>2. CASE sessions' = sessions
  BY <1>1, <1>2 DEF Forward
<1>3. ASSUME NEW p \in Processes, Retire(p) PROVE Forward
  BY <1>1, <1>3 DEF Retire, MarkPausedAsCompleted, Forward, Row
<1>4. ASSUME NEW p \in Processes, NEW meta \in Metas, InsertNew(p, meta) PROVE Forward
  BY <1>1, <1>4 DEF InsertNew, InsertSession, Forward
<1>5. ASSUME NEW p \in Processes, NEW meta \in Metas, ReuseFound(p, meta) PROVE Forward
  <2>1. CASE Exists(proc[p].found)
    BY <1>1, <1>5, <2>1 DEF ReuseFound, ReuseSession, Forward, Exists, Row
  <2>2. CASE ~Exists(proc[p].found)
    BY <1>2, <1>5, <2>2 DEF ReuseFound, storage
  <2> QED
    BY <2>1, <2>2
<1>6. ASSUME NEW p \in Processes, End(p) PROVE Forward
  <2>1. PICK status : IF Exists(proc[p].sid) THEN EndSession(proc[p].sid, status)
                      ELSE UNCHANGED storage
    BY <1>6 DEF End
  <2>2. CASE Exists(proc[p].sid)
    BY <1>1, <2>1, <2>2 DEF EndSession, Forward, Exists, Row
  <2>3. CASE ~Exists(proc[p].sid)
    BY <1>2, <2>1, <2>3 DEF storage
  <2> QED
    BY <2>2, <2>3
<1>7. ASSUME NEW p \in Processes, Advance(p) PROVE Forward
  <2> DEFINE sid == proc[p].sid
             top == proc[p].top
  <2>1. top \in Int
    BY <1>7, Known DEF Advance, LocalOK, PlaceOK, Indices
  <2>2. CASE Exists(sid)
    <3>1. sessions' = [sessions EXCEPT ![sid].last = IF @ < top THEN top ELSE @]
      BY <1>7, <2>2 DEF Advance, Checkpoint
    <3>2. ASSUME NEW id \in DOMAIN sessions PROVE sessions[id].last <= sessions'[id].last
      <4>1. CASE id = sid
        <5>1. sessions'[id].last =
                IF sessions[id].last < top THEN top ELSE sessions[id].last
          BY <1>1, <3>1, <4>1 DEF Row
        <5> QED
          BY <1>1, <2>1, <5>1
      <4>2. CASE id # sid
        BY <1>1, <3>1, <4>2
      <4> QED
        BY <4>1, <4>2
    <3> QED
      BY <3>2 DEF Forward
  <2>3. CASE ~Exists(sid)
    BY <1>2, <1>7, <2>3 DEF Advance, storage
  <2> QED
    BY <2>2, <2>3
<1>8. ASSUME NEW p \in Processes, ResetSessions(p) PROVE Forward
  BY <1>8 DEF ResetSessions, DeleteSessions, Forward
<1>9. ASSUME NEW p \in Processes,
             \/ \E job \in Jobs, sig \in Signatures : Start(p, job, sig)
             \/ Open(p) \/ LookupResume(p) \/ SelectSession(p) \/ Record(p)
             \/ ResetAttempts(p) \/ Fail(p)
      PROVE  sessions' = sessions
  BY <1>9 DEF Start, Open, ApplySchema, AddColumn, Opened, LookupResume,
       SelectSession, Record, InsertAttempts, ResetAttempts, DeleteAttempts, Fail,
       storage
<1>10. Rest \/ UNCHANGED vars => sessions' = sessions
  BY DEF Rest, vars, storage
<1> QED
  BY <1>2, <1>3, <1>4, <1>5, <1>6, <1>7, <1>8, <1>9, <1>10
     DEF Next, Begin, Scan, Reset

(* No process takes the checkpoint of a session back.                      *)
THEOREM SharedCheckpointForward == Spec => CheckpointForward
<1>1. SharedInv /\ [Next]_vars => [Forward]_vars
  BY ForwardStep
<1> QED
  BY <1>1, SharedKept, PTL DEF Spec, CheckpointForward, Forward
-----------------------------------------------------------------------------
(* The sessions of a signature.                                            *)

LEMMA Finite ==
    ASSUME SharedInv, NEW sig
    PROVE  /\ IsFiniteSet(OpenIds(sig)) /\ Cardinality(OpenIds(sig)) \in Nat
           /\ IsFiniteSet(Inserting(sig)) /\ Cardinality(Inserting(sig)) \in Nat
           /\ IsFiniteSet(Processes) /\ Cardinality(Processes) \in Nat
           /\ Cardinality(Inserting(sig)) <= Cardinality(Processes)
<1>1. OpenIds(sig) \in SUBSET (1 .. lastId) /\ IsFiniteSet(1 .. lastId)
  BY FS_Interval DEF SharedInv, TypeOK, OpenIds
<1>2. Inserting(sig) \in SUBSET Processes /\ IsFiniteSet(Processes)
  BY SharedAssumption DEF Inserting
<1>3. IsFiniteSet(OpenIds(sig))
  BY <1>1, FS_Subset
<1>4. /\ IsFiniteSet(Inserting(sig))
      /\ Cardinality(Inserting(sig)) <= Cardinality(Processes)
  BY <1>2, FS_Subset
<1> QED
  BY <1>2, <1>3, <1>4, FS_CardinalityType

(* Sets that bound the sessions and the processes of the next state.       *)
Fits(open, inserting) ==
    /\ IsFiniteSet(open) /\ IsFiniteSet(inserting)
    /\ Cardinality(open) + Cardinality(inserting) <= Cardinality(Processes)

LEMMA FitsBelow ==
    ASSUME NEW open, NEW inserting, Fits(open, inserting),
           NEW fewer \in SUBSET open, NEW less \in SUBSET inserting
    PROVE  Cardinality(fewer) + Cardinality(less) <= Cardinality(Processes)
<1>1. /\ Cardinality(fewer) <= Cardinality(open) /\ Cardinality(fewer) \in Nat
      /\ Cardinality(open) \in Nat
  BY FS_Subset, FS_CardinalityType DEF Fits
<1>2. /\ Cardinality(less) <= Cardinality(inserting) /\ Cardinality(less) \in Nat
      /\ Cardinality(inserting) \in Nat
  BY FS_Subset, FS_CardinalityType DEF Fits
<1>3. Cardinality(Processes) \in Nat
  BY SharedAssumption, FS_CardinalityType
<1> QED
  BY <1>1, <1>2, <1>3 DEF Fits

LEMMA RoomFits ==
    ASSUME SharedInv, Room, NEW sig \in Signatures
    PROVE  Fits(OpenIds(sig), Inserting(sig))
BY Finite DEF Room, Fits

(* A process works in one session, and not while it looks for one.         *)
LEMMA HoldsOne ==
    ASSUME NEW p, NEW a, NEW b, Holds(p, a), Holds(p, b)
    PROVE  a = b /\ ~At(p, "insert") /\ ~At(p, "select")
BY DEF Holds, At

(* Sessions that all have a process are no more than the others.           *)
LEMMA HeldApart ==
    ASSUME SharedInv, NEW sig, NEW none \in SUBSET Processes,
           \A p \in none : At(p, "insert") \/ At(p, "select"),
           ResumableIds(sig) = {}
    PROVE  Fits(OpenIds(sig), none)
<1> DEFINE holder == [id \in OpenIds(sig) |-> CHOOSE p \in Processes : Holds(p, id)]
           rest == Processes \ none
<1>1. ASSUME NEW id \in OpenIds(sig)
      PROVE  holder[id] \in rest /\ Holds(holder[id], id)
  <2>1. \E p \in Processes : Holds(p, id)
    BY DEF OpenIds, ResumableIds
  <2>2. holder[id] \in Processes /\ Holds(holder[id], id)
    BY <2>1
  <2> QED
    BY <2>2, HoldsOne
<1>2. holder \in [OpenIds(sig) -> rest]
  BY <1>1
<1>3. \A a, b \in OpenIds(sig) : holder[a] = holder[b] => a = b
  BY <1>1, HoldsOne
<1> HIDE DEF holder
<1>4. holder \in Injection(OpenIds(sig), rest)
  BY <1>2, <1>3 DEF Injection, IsInjective
<1>5. IsFiniteSet(Processes) /\ IsFiniteSet(none)
  BY SharedAssumption, FS_Subset
<1>6. /\ IsFiniteSet(rest)
      /\ Cardinality(rest) = Cardinality(Processes) - Cardinality(Processes \cap none)
  BY <1>5, FS_Difference
<1>7. Processes \cap none = none
  OBVIOUS
<1> HIDE DEF rest
<1>8. IsFiniteSet(OpenIds(sig)) /\ Cardinality(OpenIds(sig)) <= Cardinality(rest)
  BY <1>4, <1>6, FS_Injection
<1>9. /\ Cardinality(OpenIds(sig)) \in Nat /\ Cardinality(none) \in Nat
      /\ Cardinality(Processes) \in Nat
  BY <1>5, <1>8, FS_CardinalityType
<1> QED
  BY <1>5, <1>6, <1>7, <1>8, <1>9 DEF Fits

(* p opens no session and takes none on that is not open, nor will insert. *)
Narrows(p) ==
    /\ DOMAIN sessions' \subseteq DOMAIN sessions
    /\ \A id \in DOMAIN sessions' :
         /\ sessions'[id].sig = sessions[id].sig
         /\ Resumable(id)' => Resumable(id) \/ Holds(p, id)
         /\ Holds(p, id)' => Holds(p, id) \/ Resumable(id)
    /\ proc'[p].pc # "insert"

LEMMA NarrowsRoom ==
    ASSUME SharedInv, Room, NEW p \in Processes, Moves(p), Narrows(p)
    PROVE  Room'
<1> SUFFICES ASSUME NEW sig \in Signatures
             PROVE  /\ OpenIds(sig)' \in SUBSET OpenIds(sig)
                    /\ Inserting(sig)' \in SUBSET Inserting(sig)
  BY RoomFits, FitsBelow DEF Room
<1>1. ASSUME NEW id \in OpenIds(sig)' PROVE id \in OpenIds(sig)
  <2>1. /\ id \in DOMAIN sessions /\ id \in DOMAIN sessions' /\ sessions[id].sig = sig
        /\ Resumable(id)' \/ \E q \in Processes : Holds(q, id)'
    BY <1>1 DEF OpenIds, Narrows
  <2>2. ASSUME NEW q \in Processes, Holds(q, id)'
        PROVE  Resumable(id) \/ \E r \in Processes : Holds(r, id)
    <3>1. CASE q = p
      BY <2>1, <2>2, <3>1 DEF Narrows
    <3>2. CASE q # p
      BY <2>2, <3>2 DEF Moves, Holds, At
    <3> QED
      BY <3>1, <3>2
  <2> QED
    BY <2>1, <2>2 DEF Narrows, OpenIds
<1>2. ASSUME NEW q \in Inserting(sig)' PROVE q \in Inserting(sig)
  BY <1>2 DEF Inserting, Narrows, Moves, At
<1> QED
  BY <1>1, <1>2
LEMMA StartRoom ==
    ASSUME SharedInv, Room, NEW p \in Processes, NEW job \in Jobs,
           NEW sig \in Signatures, Start(p, job, sig)
    PROVE  Room'
<1>1. Moves(p) /\ proc'[p] = [Idle EXCEPT !.pc = "schema", !.job = job, !.sig = sig]
  BY Known DEF Start, Moves
<1>2. proc'[p].pc = "schema"
  BY <1>1 DEF Idle
<1>3. Narrows(p)
  BY <1>2 DEF Start, storage, Narrows, Resumable, Holds, At
<1> QED
  BY <1>1, <1>3, NarrowsRoom

(* Steps before the session, and those that return.                        *)
LEMMA AwayRoom ==
    ASSUME SharedInv, Room, NEW p \in Processes, Moves(p),
           UNCHANGED sessions \/ Retire(p) \/ End(p) \/ ResetSessions(p),
           proc'[p].pc \in {"idle", "resume", "select", "delete sessions"} \cup Opening
                               \cup {FirstStep(job) : job \in Jobs}
    PROVE  Room'
<1>1. /\ proc'[p].pc # "insert" /\ \A id : ~Holds(p, id)'
  BY DEF Holds, At, Opening, FirstStep, Jobs
<1>2. CASE UNCHANGED sessions
  BY <1>1, <1>2, NarrowsRoom DEF Narrows, Resumable
<1>3. CASE Retire(p)
  <2>1. /\ DOMAIN sessions' = DOMAIN sessions
        /\ \A id \in DOMAIN sessions :
             \/ sessions'[id] = sessions[id]
             \/ sessions'[id] = [sessions[id] EXCEPT !.status = "completed"]
    BY <1>3 DEF Retire, MarkPausedAsCompleted
  <2>2. \A id \in DOMAIN sessions : sessions[id] \in Row
    BY Known DEF StoreOK
  <2>3. \A id \in DOMAIN sessions :
          /\ sessions'[id].sig = sessions[id].sig
          /\ Resumable(id)' => Resumable(id)
    BY <2>1, <2>2 DEF Resumable, Row
  <2> QED
    BY <1>1, <2>1, <2>3, NarrowsRoom DEF Narrows
<1>4. CASE End(p)
  <2>1. PICK status : IF Exists(proc[p].sid) THEN EndSession(proc[p].sid, status)
                      ELSE UNCHANGED storage
    BY <1>4 DEF End
  <2>2. CASE ~Exists(proc[p].sid)
    BY <1>1, <2>1, <2>2, NarrowsRoom DEF Narrows, Resumable, storage
  <2>3. CASE Exists(proc[p].sid)
    <3>1. sessions[proc[p].sid] \in Row
      BY <2>3, Known DEF StoreOK, Exists
    <3>2. /\ DOMAIN sessions' = DOMAIN sessions
          /\ \A id \in DOMAIN sessions :
               /\ sessions'[id].sig = sessions[id].sig
               /\ id # proc[p].sid => sessions'[id] = sessions[id]
      BY <2>1, <2>3, <3>1 DEF EndSession, Row
    <3>3. Holds(p, proc[p].sid)
      BY <1>4 DEF End, Holds
    <3> QED
      BY <1>1, <3>2, <3>3, NarrowsRoom DEF Narrows, Resumable
  <2> QED
    BY <2>2, <2>3
<1>5. CASE ResetSessions(p)
  BY <1>1, <1>5, NarrowsRoom DEF ResetSessions, DeleteSessions, Narrows
<1> QED
  BY <1>2, <1>3, <1>4, <1>5

LEMMA SelectSessionRoom ==
    ASSUME SharedInv, Room, NEW p \in Processes, SelectSession(p)
    PROVE  Room'
<1>1. /\ UNCHANGED sessions /\ At(p, "select")
      /\ proc \in [Processes -> Process]
  BY Known DEF SelectSession, storage
<1>2. CASE ~NothingToReuse(proc[p].sig)
  <2> DEFINE f == LatestId(ResumableIds(proc[p].sig))
  <2>1. Resumable(f)
    BY <1>2, Known, LatestFound DEF NothingToReuse
  <2>2. Moves(p) /\ proc'[p].pc = "reuse" /\ proc'[p].found = f
    BY <1>1, <1>2 DEF SelectSession, Moves, Process
  <2> HIDE DEF f
  <2>3. Narrows(p)
    BY <1>1, <2>1, <2>2 DEF Narrows, Resumable, Holds, At
  <2> QED
    BY <2>2, <2>3, NarrowsRoom
<1>3. CASE NothingToReuse(proc[p].sig)
  <2>1. Moves(p) /\ proc'[p].pc = "insert" /\ proc'[p].sig = proc[p].sig
    BY <1>3, GotoMoves DEF SelectSession
  <2>2. ASSUME NEW sig
        PROVE  /\ OpenIds(sig)' \in SUBSET OpenIds(sig)
               /\ Inserting(sig)' \in SUBSET (Inserting(sig) \cup {p})
               /\ sig # proc[p].sig => Inserting(sig)' \in SUBSET Inserting(sig)
    BY <1>1, <2>1 DEF OpenIds, Inserting, Moves, Resumable, Holds, At
  <2>3. ASSUME NEW sig \in Signatures
        PROVE  Cardinality(OpenIds(sig)') + Cardinality(Inserting(sig)')
                   <= Cardinality(Processes)
    <3>1. CASE sig = proc[p].sig
      <4>1. Fits(OpenIds(sig), Inserting(sig) \cup {p})
        BY <1>1, <1>3, <3>1, HeldApart DEF NothingToReuse, Inserting
      <4> QED
        BY <2>2, <4>1, FitsBelow
    <3>2. CASE sig # proc[p].sig
      BY <2>2, <3>2, RoomFits, FitsBelow
    <3> QED
      BY <3>1, <3>2
  <2> QED
    BY <2>3 DEF Room
<1> QED
  BY <1>2, <1>3

LEMMA InsertNewRoom ==
    ASSUME SharedInv, Room, NEW p \in Processes, NEW meta \in Metas, InsertNew(p, meta)
    PROVE  Room'
<1> DEFINE new == lastId + 1
           own == proc[p].sig
<1>1. /\ Moves(p) /\ proc'[p].pc \in {"scan", "end now"} /\ proc'[p].sid = new
  <2>1. new \in Nat
    BY Known
  <2> QED
    BY <2>1, WorkFacts DEF InsertNew
<1>2. /\ DOMAIN sessions' = DOMAIN sessions \cup {new} /\ new \notin DOMAIN sessions
      /\ sessions'[new].sig = own
      /\ \A id \in DOMAIN sessions : sessions'[id] = sessions[id]
  BY Known DEF InsertNew, InsertSession, NewRow, NewSession, StoreOK
<1>3. p \in Inserting(own)
  BY DEF InsertNew, Inserting
<1> HIDE DEF new
<1>4. ASSUME NEW sig, NEW id \in OpenIds(sig)', id # new PROVE id \in OpenIds(sig)
  BY <1>1, <1>2, <1>4 DEF OpenIds, Moves, Resumable, Holds, At
<1>5. ASSUME NEW sig PROVE Inserting(sig)' \in SUBSET (Inserting(sig) \ {p})
  BY <1>1 DEF Inserting, Moves, At
<1>6. ASSUME NEW sig \in Signatures
      PROVE  Cardinality(OpenIds(sig)') + Cardinality(Inserting(sig)')
                 <= Cardinality(Processes)
  <2>1. Fits(OpenIds(sig), Inserting(sig))
    BY RoomFits
  <2>2. CASE sig = own
    <3>1. OpenIds(sig)' \in SUBSET (OpenIds(sig) \cup {new})
      <4>1. \A id \in OpenIds(sig)' : id = new \/ id \in OpenIds(sig)
        BY <1>4
      <4> QED
        BY <4>1
    <3>2. /\ IsFiniteSet(OpenIds(sig) \cup {new})
          /\ Cardinality(OpenIds(sig) \cup {new}) <= Cardinality(OpenIds(sig)) + 1
      <4>1. IsFiniteSet(OpenIds(sig)) /\ Cardinality(OpenIds(sig)) \in Nat
        BY Finite
      <4>2. /\ IsFiniteSet(OpenIds(sig) \cup {new})
            /\ Cardinality(OpenIds(sig) \cup {new}) =
                 IF new \in OpenIds(sig) THEN Cardinality(OpenIds(sig))
                 ELSE Cardinality(OpenIds(sig)) + 1
        BY <4>1, FS_AddElement
      <4> QED
        BY <4>1, <4>2
    <3>3. /\ IsFiniteSet(Inserting(sig) \ {p})
          /\ Cardinality(Inserting(sig) \ {p}) = Cardinality(Inserting(sig)) - 1
      BY <1>3, <2>2, Finite, FS_RemoveElement
    <3>4. Fits(OpenIds(sig) \cup {new}, Inserting(sig) \ {p})
      <4>1. /\ Cardinality(OpenIds(sig) \cup {new}) \in Nat
            /\ Cardinality(Inserting(sig) \ {p}) \in Nat
        BY <3>2, <3>3, FS_CardinalityType
      <4>2. /\ Cardinality(OpenIds(sig)) \in Nat /\ Cardinality(Inserting(sig)) \in Nat
            /\ Cardinality(Processes) \in Nat
        BY Finite
      <4> QED
        BY <2>1, <3>2, <3>3, <4>1, <4>2 DEF Fits
    <3> QED
      BY <1>5, <3>1, <3>4, FitsBelow
  <2>3. CASE sig # own
    <3>1. OpenIds(sig)' \in SUBSET OpenIds(sig)
      <4>1. new \notin OpenIds(sig)'
        BY <1>2, <2>3 DEF OpenIds
      <4> QED
        BY <1>4, <4>1
    <3>2. Inserting(sig)' \in SUBSET Inserting(sig)
      BY <1>5
    <3> QED
      BY <2>1, <3>1, <3>2, FitsBelow
  <2> QED
    BY <2>2, <2>3
<1> QED
  BY <1>6 DEF Room

LEMMA ReuseFoundRoom ==
    ASSUME SharedInv, Room, NEW p \in Processes, NEW meta \in Metas, ReuseFound(p, meta)
    PROVE  Room'
<1> DEFINE id0 == proc[p].found
           init == NewSession(p, meta)
<1>1. /\ Moves(p) /\ proc'[p].pc \in {"scan", "end now"} /\ proc'[p].sid = id0
  BY Known, WorkFacts DEF ReuseFound
<1>2. Holds(p, id0)
  BY DEF ReuseFound, Holds
<1>3. /\ DOMAIN sessions' = DOMAIN sessions
      /\ \A id \in DOMAIN sessions :
           /\ sessions'[id].sig = sessions[id].sig
           /\ id # id0 => sessions'[id] = sessions[id]
  <2>1. CASE Exists(id0)
    <3>1. sessions[id0] \in Row
      BY <2>1, Known DEF StoreOK, Exists
    <3> QED
      BY <2>1, <3>1 DEF ReuseFound, ReuseSession, Row
  <2>2. CASE ~Exists(id0)
    BY <2>2 DEF ReuseFound, storage
  <2> QED
    BY <2>1, <2>2
<1> HIDE DEF id0
<1>4. Narrows(p)
  BY <1>1, <1>2, <1>3 DEF Narrows, Resumable, Holds, At
<1> QED
  BY <1>1, <1>4, NarrowsRoom

(* Rows and checkpoints open and close nothing.                            *)
LEMMA ScanRoom ==
    ASSUME SharedInv, Room, NEW p \in Processes, Record(p) \/ Advance(p)
    PROVE  Room'
<1>1. /\ proc[p].pc \in {"scan", "checkpoint"}
      /\ Moves(p) /\ proc'[p].pc \in {"scan", "checkpoint"}
      /\ proc'[p].sid = proc[p].sid
  BY Known DEF Record, Advance, At, Moves, Process
<1>2. /\ DOMAIN sessions' = DOMAIN sessions
      /\ \A id \in DOMAIN sessions :
           /\ sessions'[id].sig = sessions[id].sig
           /\ sessions'[id].status = sessions[id].status
  <2>1. CASE UNCHANGED sessions
    BY <2>1
  <2>2. CASE Advance(p) /\ Exists(proc[p].sid)
    <3>1. sessions[proc[p].sid] \in Row
      BY <2>2, Known DEF StoreOK, Exists
    <3> QED
      BY <2>2, <3>1 DEF Advance, Checkpoint, Row
  <2> QED
    BY <2>1, <2>2 DEF Record, InsertAttempts, Advance, storage
<1>3. Narrows(p)
  BY <1>1, <1>2 DEF Narrows, Resumable, Holds, At
<1> QED
  BY <1>1, <1>3, NarrowsRoom
LEMMA NextRoom == SharedInv /\ Room /\ [Next]_vars => Room'
<1> SUFFICES ASSUME SharedInv, Room, [Next]_vars PROVE Room'
  OBVIOUS
<1>1. CASE UNCHANGED vars
  BY <1>1 DEF vars, storage, Room, OpenIds, Inserting, Resumable, Holds, At
<1>2. ASSUME NEW p \in Processes, Fail(p) \/ End(p) \/ ResetSessions(p) PROVE Room'
  <2>1. Moves(p) /\ proc'[p] = Idle
    BY <1>2, ReturnMoves DEF Fail, End, ResetSessions
  <2>2. proc'[p].pc = "idle"
    BY <2>1 DEF Idle
  <2> QED
    BY <1>2, <2>1, <2>2, AwayRoom DEF Fail, storage
<1>3. ASSUME NEW p \in Processes,
             Open(p) \/ Retire(p) \/ LookupResume(p) \/ ResetAttempts(p)
      PROVE  Room'
  <2>1. UNCHANGED sessions \/ Retire(p)
    BY <1>3 DEF Open, ApplySchema, AddColumn, Opened, LookupResume, ResetAttempts,
         DeleteAttempts, storage
  <2>2. proc \in [Processes -> Process]
    BY DEF SharedInv, TypeOK
  <2>3. /\ Moves(p)
        /\ proc'[p].pc \in {"resume", "select", "delete sessions"} \cup Opening
                               \cup {FirstStep(job) : job \in Jobs}
    <3>1. CASE Open(p)
      BY <2>2, <3>1 DEF Open, ApplySchema, AddColumn, Opened, Goto, Moves, At,
           Opening, Process
    <3>2. CASE Retire(p) \/ LookupResume(p) \/ ResetAttempts(p)
      BY <2>2, <3>2 DEF Retire, LookupResume, ResetAttempts, Goto, Moves, Process
    <3> QED
      BY <1>3, <3>1, <3>2
  <2> QED
    BY <2>1, <2>3, AwayRoom
<1> QED
  BY <1>1, <1>2, <1>3, StartRoom, SelectSessionRoom, InsertNewRoom, ReuseFoundRoom,
     ScanRoom DEF Next, Begin, Scan, Reset, Rest

(* Whatever the processes do beside each other, the invariant holds.       *)
THEOREM SharedInductive == Spec => []IndInv
<1>1. Init => Room
  <2> SUFFICES ASSUME Init, NEW sig \in Signatures
               PROVE  Cardinality(OpenIds(sig)) + Cardinality(Inserting(sig))
                          <= Cardinality(Processes)
    BY DEF Room
  <2>1. OpenIds(sig) = {} /\ Inserting(sig) = {}
    BY DEF Init, StorageInit, Idle, OpenIds, Inserting, At
  <2>2. Cardinality({}) = 0 /\ Cardinality(Processes) \in Nat
    BY SharedAssumption, FS_EmptySet, FS_CardinalityType
  <2> QED
    BY <2>1, <2>2
<1> QED
  BY <1>1, InitInv, NextInv, NextRoom, PTL DEF Spec, IndInv

(* A signature has no more resumable sessions than there are processes,    *)
(* though the query of BeginSession and its insert are two statements.     *)
THEOREM SharedOneResumableEach == Spec => []OneResumableEach
<1>1. IndInv => OneResumableEach
  <2> SUFFICES ASSUME IndInv, NEW sig \in Signatures
               PROVE  Cardinality(ResumableIds(sig)) <= Cardinality(Processes)
    BY DEF OneResumableEach
  <2>1. ResumableIds(sig) \in SUBSET OpenIds(sig) /\ {} \in SUBSET Inserting(sig)
    BY DEF ResumableIds, OpenIds
  <2>2. Cardinality(ResumableIds(sig)) + Cardinality({}) <= Cardinality(Processes)
    BY <2>1, RoomFits, FitsBelow DEF IndInv
  <2>3. IsFiniteSet(ResumableIds(sig)) /\ Cardinality({}) = 0
    BY <2>1, Finite, FS_Subset, FS_EmptySet DEF IndInv
  <2>4. Cardinality(ResumableIds(sig)) \in Nat
    BY <2>3, FS_CardinalityType
  <2> QED
    BY <2>2, <2>3, <2>4
<1> QED
  BY <1>1, SharedInductive, PTL
=============================================================================
