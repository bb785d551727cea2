--------------------------- MODULE SequentialWalk ---------------------------
(***************************************************************************)
(* What a keyspace walk promises to the database, without its batches and  *)
(* the twofold meaning of the cursor column: one walker at a time opens a  *)
(* session at zero or after a persisted cursor, records candidates one     *)
(* after the other, none left out, moves the cursor over candidates that   *)
(* are recorded, and closes the session as completed only when the last    *)
(* cursor of all is passed.  It is what the comments at Walk, flush and    *)
(* Cursor say of the stored progress.  KeyspaceWalk implements it.         *)
(***************************************************************************)
EXTENDS Repository, Cursor

CONSTANTS
    WalkSignatures,
    BatchSize,
    Outcomes, \* Outcomes[c]: the results a lookup of candidate c may have
    Clock

VARIABLES
    open,   \* the session being walked, 0 for none
    next,   \* the first candidate the walker has not moved the cursor over
    wrapped \* it has moved over the last one of all

progress == <<storage, open, next, wrapped>>

Closed == open = 0 /\ next = Zero /\ wrapped = FALSE

Init == StorageInit /\ Closed

Retire(sig) ==
    /\ open = 0
    /\ MarkPausedAsCompleted(sig)
    /\ UNCHANGED <<open, next, wrapped>>

Open(sig, meta, now) ==
    /\ open = 0
    /\ open' = BeginSessionId(sig)
    /\ \/ next' = Zero
       \/ \E id \in ResumableIds(sig) :
            LET last == ParseCursor(sessions[id].cursor)
            IN  ~Overflows(last) /\ next' = Inc(last)
    /\ BeginSession([sig |-> sig, meta |-> meta, mode |-> "walk",
                     cursor |-> String(next')], now)
    /\ UNCHANGED wrapped

(* Lists of n candidates from first on, each the successor of the one      *)
(* before.                                                                 *)
Stretches(first, n) ==
    {c \in [1 .. n -> Odometers] :
       /\ c[1] = first
       /\ \A k \in 2 .. n : ~Overflows(c[k - 1]) /\ c[k] = Inc(c[k - 1])}

(* One transaction.                                                        *)
Record ==
    /\ open # 0
    /\ \E n \in 1 .. BatchSize :
         \E c \in Stretches(next, n), res \in [1 .. n -> Results] :
           /\ \A k \in 1 .. n : res[k] \in Outcomes[c[k]]
           /\ InsertAttempts([k \in 1 .. n |->
                 [session |-> open, candidate |-> c[k], res |-> res[k]]])
    /\ UNCHANGED <<open, next, wrapped>>

(* The cursor column wraps with the walk, or stays at the last cursor.     *)
Advance ==
    /\ open # 0
    /\ \E n \in 1 .. BatchSize :
         \E c \in Stretches(next, n) :
           /\ \A k \in 1 .. n : Logged(open, c[k])
           /\ \/ CheckpointCursor(open, String(c[n]))
              \/ Overflows(c[n]) /\ CheckpointCursor(open, String(Zero))
           /\ next' = Inc(c[n])
           /\ wrapped' = Overflows(c[n])
    /\ UNCHANGED open

Close ==
    /\ open # 0
    /\ EndSession(open, IF wrapped THEN "completed" ELSE "paused")
    /\ Closed'

(* A crash, or an error return: the row stays as it is.                    *)
Abandon == Closed' /\ UNCHANGED storage

(* A sweep leaves its session behind.                                      *)
Sweep(sig, meta, now) ==
    /\ open = 0
    /\ BeginSession([sig |-> sig, meta |-> meta, mode |-> "sweep",
                     cursor |-> NoCursor], now)
    /\ UNCHANGED <<open, next, wrapped>>

Next ==
    \/ \E sig \in WalkSignatures : Retire(sig)
    \/ \E sig \in WalkSignatures, meta \in Metas, now \in Clock : Open(sig, meta, now)
    \/ Record
    \/ Advance
    \/ Close
    \/ Abandon
    \/ \E sig \in Signatures \ WalkSignatures, meta \in Metas, now \in Clock :
         Sweep(sig, meta, now)

Spec == Init /\ [][Next]_progress
=============================================================================
