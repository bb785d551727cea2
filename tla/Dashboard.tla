----------------------------- MODULE Dashboard ------------------------------
(***************************************************************************)
(* The dashboard (internal/dashboard): a goroutine that repaints a frame   *)
(* from the atomic counters of pipeline.Stats, one Load after the other    *)
(* while the run changes them, until its context is done.                  *)
(*                                                                         *)
(* Left out: the layout, elapsed time, rate and ETA; of the cursor and the *)
(* attempts, the number shown is the model's.                              *)
(***************************************************************************)
EXTENDS Integers, Sequences

CONSTANT Total \* templatePositions, the words of a position

VARIABLES
    stats, \* the counters the run and the dashboard share
    frame, \* the frame being read
    shown, \* the frame on the screen
    dash   \* where Run is, the loads done, and (history) what was
           \* processed at the first of them

screen == <<frame, shown, dash>>

(* A Cursor that was never stored is a nil pointer.                        *)
NilCursor == -1
NewStats == [session |-> 0, resumedAt |-> -1, cursor |-> NilCursor,
             processed |-> 0, valid |-> 0, hits |-> 0, errors |-> 0]

DashPcs == {"off", "paint", "select", "done"}

DashboardInit(pc) ==
    /\ stats = NewStats
    /\ frame = NewStats /\ shown = NewStats
    /\ dash = [pc |-> pc, loads |-> 0, since |-> 0]

(* The number of attempts a frame shows in sweep mode.                     *)
OffByOne(f) == \* mutant of Attempts
    IF f.resumedAt >= 0 THEN f.resumedAt + f.processed ELSE f.processed
Attempts(f) ==
    LET attempts == IF f.resumedAt >= 0 THEN f.resumedAt + 1 + f.processed ELSE f.processed
    IN  IF attempts > Total THEN Total ELSE attempts

-----------------------------------------------------------------------------
(* snapshot evaluates its loads in this order.                             *)
CursorLast == \* mutant of Loads
    <<"resumedAt", "session", "processed", "valid", "hits", "errors", "cursor">>
Loads == <<"resumedAt", "cursor", "session", "processed", "valid", "hits", "errors">>

Load ==
    /\ dash.pc = "paint" /\ dash.loads < Len(Loads)
    /\ frame' = [frame EXCEPT ![Loads[dash.loads + 1]] = stats[Loads[dash.loads + 1]]]
    /\ dash' = [dash EXCEPT !.loads = @ + 1,
                            !.since = IF dash.loads = 0 THEN stats.processed ELSE @]
    /\ UNCHANGED <<stats, shown>>

(* The frame is rendered and written.                                      *)
Show ==
    /\ dash.pc = "paint" /\ dash.loads = Len(Loads)
    /\ shown' = frame /\ frame' = NewStats
    /\ dash' = [pc |-> "select", loads |-> 0, since |-> 0]
    /\ UNCHANGED stats

(* The ticker has fired.                                                   *)
Repaint ==
    /\ dash.pc = "select"
    /\ dash' = [dash EXCEPT !.pc = "paint"]
    /\ UNCHANGED <<stats, frame, shown>>

StopPainting(ctxDone) ==
    /\ dash.pc = "select" /\ ctxDone
    /\ dash' = [dash EXCEPT !.pc = "done"]
    /\ UNCHANGED <<stats, frame, shown>>

Paint == Load \/ Show \/ Repaint
=============================================================================
