--------------------------- MODULE ResumableScan ---------------------------
(***************************************************************************)
(* What a position sweep promises to the database, without its goroutines: *)
(* one scanner at a time opens a session, records the word indices after   *)
(* the checkpoint in ascending order, moves the checkpoint over indices    *)
(* that are recorded, and closes the session or is cut off.  It is what    *)
(* the comments at Run, reorder, flush and Checkpoint say of the stored    *)
(* progress.  SweepPipeline implements it.                                 *)
(***************************************************************************)
EXTENDS Repository

CONSTANTS
    WordlistSize,
    Outcomes  \* Outcomes[i]: the results a lookup of index i may have

VARIABLE open \* the session being scanned, 0 for none

scan == <<storage, open>>

Init == StorageInit /\ open = 0

(* --fresh retires what is left of a signature.                            *)
Retire(sig) == open = 0 /\ MarkPausedAsCompleted(sig) /\ UNCHANGED open

Open(sig, meta) ==
    /\ open = 0
    /\ BeginSession([sig |-> sig, meta |-> meta, mode |-> "sweep",
                     cursor |-> NoCursor], 0)
    /\ open' = BeginSessionId(sig)

(* One transaction with the n indices after the checkpoint.                *)
Record ==
    /\ open # 0
    /\ \E n \in 1 .. WordlistSize - 1 - sessions[open].last :
         \E res \in [1 .. n -> Results] :
           /\ \A k \in 1 .. n : res[k] \in Outcomes[sessions[open].last + k]
           /\ InsertAttempts([k \in 1 .. n |->
                 [session |-> open, candidate |-> sessions[open].last + k,
                  res |-> res[k]]])
    /\ UNCHANGED open

Advance ==
    /\ open # 0
    /\ \E i \in 0 .. WordlistSize - 1 :
         /\ \A j \in sessions[open].last + 1 .. i : Logged(open, j)
         /\ Checkpoint(open, i)
    /\ UNCHANGED open

Close(status) == open # 0 /\ EndSession(open, status) /\ open' = 0

(* A crash, or an error return: the row stays as it is.                    *)
Abandon == open' = 0 /\ UNCHANGED storage

Next ==
    \/ \E sig \in Signatures : Retire(sig)
    \/ \E sig \in Signatures, meta \in Metas : Open(sig, meta)
    \/ Record
    \/ Advance
    \/ \E status \in {"paused", "completed"} : Close(status)
    \/ Abandon

Spec == Init /\ [][Next]_scan
=============================================================================
