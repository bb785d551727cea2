------------------------------- MODULE Cursor -------------------------------
(***************************************************************************)
(* The odometer of the keyspace walk: type Cursor and decCursor            *)
(* (internal/pipeline/cursor.go, walker.go).  The code walks the slots     *)
(* from the right and stops at the first one that does not wrap; here each *)
(* slot of the result is given directly: a slot moves when every slot to   *)
(* its right wraps.                                                        *)
(***************************************************************************)
EXTENDS Integers, Sequences

CONSTANTS
    CursorLength, \* words of a mnemonic, 12 in the program
    CursorBase    \* words of the list, 2048

ASSUME CursorAssumption ==
    CursorLength \in Nat \ {0} /\ CursorBase \in Nat \ {0, 1}

Slots == 1 .. CursorLength
Digits == 0 .. CursorBase - 1
Odometers == [Slots -> Digits]

Zero == [i \in Slots |-> 0]

(* Inc returns true and wraps to Zero.                                     *)
LastSlotFull(c) == c[CursorLength] = CursorBase - 1 \* mutant of Overflows
Overflows(c) == \A i \in Slots : c[i] = CursorBase - 1

NoCarry(c) == \* mutant of Inc
    [c EXCEPT ![CursorLength] = IF @ = CursorBase - 1 THEN 0 ELSE @ + 1]
Inc(c) ==
    [i \in Slots |->
       IF \A j \in Slots : j > i => c[j] = CursorBase - 1
       THEN IF c[i] = CursorBase - 1 THEN 0 ELSE c[i] + 1
       ELSE c[i]]

(* The cursor before c; Zero stays.                                        *)
decCursor(c) ==
    IF c = Zero THEN Zero
    ELSE [i \in Slots |->
            IF \A j \in Slots : j > i => c[j] = 0
            THEN IF c[i] = 0 THEN CursorBase - 1 ELSE c[i] - 1
            ELSE c[i]]

(* The text of a cursor is the list of its decimal fields; a numeral is    *)
(* written as the number it stands for, the empty text as <<>>.            *)
String(c) == [i \in Slots |-> c[i]]
Parses(fields) == fields = <<>> \/ fields \in Odometers
ParseCursor(fields) == IF fields = <<>> THEN Zero ELSE fields

-----------------------------------------------------------------------------
(* The order of the walk, for its properties: d comes before c when it is  *)
(* smaller in the first slot where they differ.                            *)
Precedes(d, c) ==
    \E i \in Slots :
        /\ d[i] < c[i]
        /\ \A j \in Slots : j < i => d[j] = c[j]

Upto(c) == {d \in Odometers : d = c \/ Precedes(d, c)}
=============================================================================
